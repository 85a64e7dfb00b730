---------------------------- MODULE SpecPromise ----------------------------
(***************************************************************************)
(* What a session's cache of speculations promises its callers, without    *)
(* keys, occurrences, events, slots or workers.  Speculations are offered  *)
(* for a call in an era; an era ends when tracked state may have changed.  *)
(* A caller is answered with an offer that is open, of this era and for    *)
(* the call it asked for, and the offer is then taken for good; otherwise  *)
(* the caller is refused and runs the call itself.                         *)
(***************************************************************************)
EXTENDS Naturals, Sequences

CONSTANTS
  Calls,     \* what a speculation can be for
  Askers     \* concurrent callers

VARIABLES
  era,       \* the era offers are made in
  offers,    \* every offer made: its call, its era and its state
  answer     \* the last answer of each asker: the call asked and the offer, 0 for a refusal

vars == <<era, offers, answer>>

OfferIds == 1 .. Len(offers)
Open(i) == offers[i].state = "open" /\ offers[i].era = era

Init ==
  /\ era = 0
  /\ offers = << >>
  /\ answer \in [Askers -> {[call |-> c, offer |-> 0] : c \in Calls}]

Offer(c) ==
  /\ offers' = Append(offers, [call |-> c, era |-> era, state |-> "open"])
  /\ UNCHANGED <<era, answer>>

Void(S) ==
  offers' = [i \in OfferIds |-> IF i \in S THEN [offers[i] EXCEPT !.state = "void"]
                                ELSE offers[i]]

\* A speculation failed, was given up or lost its slot.
Withdraw(i) ==
  /\ Open(i)
  /\ Void({i})
  /\ UNCHANGED <<era, answer>>

\* Tracked state may have changed: nothing offered so far may be taken.
NewEra ==
  /\ era' = era + 1
  /\ Void({i \in OfferIds : offers[i].state = "open"})
  /\ UNCHANGED answer

Take(a, i) ==
  /\ Open(i)
  /\ offers' = [offers EXCEPT ![i].state = "taken"]
  /\ answer' = [answer EXCEPT ![a] = [call |-> offers[i].call, offer |-> i]]
  /\ UNCHANGED era

Refuse(a, c) ==
  /\ answer' = [answer EXCEPT ![a] = [call |-> c, offer |-> 0]]
  /\ UNCHANGED <<era, offers>>

Next ==
  \/ \E c \in Calls : Offer(c)
  \/ \E i \in OfferIds : Withdraw(i)
  \/ NewEra
  \/ \E a \in Askers, i \in OfferIds : Take(a, i)
  \/ \E a \in Askers, c \in Calls : Refuse(a, c)

Spec == Init /\ [][Next]_vars

=============================================================================
