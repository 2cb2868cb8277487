----------------------------- MODULE PushCalls -----------------------------
(***************************************************************************)
(* What Channel.push promises, without sessions, sockets or timers: a call *)
(* belongs to the membership it was made in, its frame is written at most  *)
(* once and only while the membership lasts and nothing has decided the    *)
(* call, a reply needs a written frame, and the end of the membership      *)
(* decides every call that is still undecided at once.  A decision stands. *)
(***************************************************************************)
EXTENDS Naturals

CONSTANTS
  Pushes,     \* the calls of push
  Channels,   \* the channels
  ChannelOf   \* the channel each call is made on

VARIABLES
  member,     \* the membership of each channel, 0 while it is not joined
  call        \* where each call stands

calls == <<member, call>>

Errors == {"channel", "socket", "timeout"}

Calls == [st : {"idle", "pending", "settled", "returned"}, member : Nat, writes : Nat,
          outcome : Errors \cup {"none", "reply", "refused", "cancelled"}]

NoCall == [st |-> "idle", member |-> 0, writes |-> 0, outcome |-> "none"]

Init ==
  /\ member \in [Channels -> Nat]
  /\ call = [p \in Pushes |-> NoCall]

Of(p) == member[ChannelOf[p]]

Pending(p, writes) ==
  [st |-> "pending", member |-> Of(p), writes |-> writes, outcome |-> "none"]

Moved(r, st, outcome) ==
  [st |-> st, member |-> r.member, writes |-> r.writes, outcome |-> outcome]

-----------------------------------------------------------------------------
(* The calls *)

\* A call on a channel that is not joined is refused on the spot.
Refuse(p) ==
  /\ call[p].st = "idle" /\ Of(p) = 0
  /\ call' = [call EXCEPT ![p] = Moved(call[p], "returned", "refused")]
  /\ UNCHANGED member

Admit(p) ==
  /\ call[p].st = "idle" /\ Of(p) # 0
  /\ call' = [call EXCEPT ![p] = Pending(p, 0)]
  /\ UNCHANGED member

Write(p) ==
  /\ call[p].st = "pending" /\ call[p].member = Of(p) /\ call[p].writes = 0
  /\ call' = [call EXCEPT ![p] = Pending(p, 1)]
  /\ UNCHANGED member

\* A deadline decides a call at any time, the server one whose frame it has.
Settle(p, outcome) ==
  /\ call[p].st = "pending"
  /\ outcome # "timeout" => call[p].writes = 1 /\ call[p].member = Of(p)
  /\ call' = [call EXCEPT ![p] = Moved(call[p], "settled", outcome)]
  /\ UNCHANGED member

Return(p) ==
  /\ call[p].st = "settled"
  /\ call' = [call EXCEPT ![p] = Moved(call[p], "returned", call[p].outcome)]
  /\ UNCHANGED member

\* The caller is cancelled, before or after the decision.
Cancel(p) ==
  /\ call[p].st \in {"pending", "settled"}
  /\ call' = [call EXCEPT ![p] = Moved(call[p], "returned", "cancelled")]
  /\ UNCHANGED member

-----------------------------------------------------------------------------
(* The memberships *)

\* No membership is taken up twice.
Gain(c) ==
  /\ member[c] = 0
  /\ member'[c] \in Nat \ {0}
  /\ \A p \in Pushes : ChannelOf[p] = c => call[p].member < member'[c]
  /\ member' = [member EXCEPT ![c] = member'[c]]
  /\ UNCHANGED call

\* Memberships end together, and their undecided calls with them.
End(cs, errors) ==
  /\ \E c \in cs : member[c] # 0
  /\ member' = [c \in Channels |-> IF c \in cs THEN 0 ELSE member[c]]
  /\ call' = [p \in Pushes |->
                IF ChannelOf[p] \in cs /\ call[p].st = "pending"
                THEN Moved(call[p], "settled", errors[p])
                ELSE call[p]]

Next ==
  \/ \E p \in Pushes :
        \/ Refuse(p) \/ Admit(p) \/ Write(p) \/ Return(p) \/ Cancel(p)
        \/ \E outcome \in {"reply", "channel", "timeout"} : Settle(p, outcome)
  \/ \E c \in Channels : Gain(c)
  \/ \E cs \in SUBSET Channels, errors \in [Pushes -> Errors] : End(cs, errors)

Spec == Init /\ [][Next]_calls

=============================================================================
