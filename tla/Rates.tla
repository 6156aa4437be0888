-------------------------------- MODULE Rates --------------------------------
(***************************************************************************)
(* The rate cards of a mine for one operation and material: drafted, and   *)
(* activated in a transaction that archives the active cards of the same   *)
(* scope up to the first day of the new one.  The rate of a day is looked  *)
(* up among all cards that were ever active, of whatever scope.            *)
(***************************************************************************)
EXTENDS Naturals, Handlers

CONSTANTS
  Cards,       \* rows of rate_cards
  Cooperatives,\* those that have cards of their own
  MaxDay,      \* bound: days are 0..MaxDay
  NoCoop       \* cooperative_id of a card for the whole mine

ASSUME RatesAssumption ==
  /\ MaxDay \in Nat
  /\ NoCoop \notin Cooperatives

VARIABLE card  \* [Cards -> row]

ratesVars == <<card, handlerVars>>

Days == 0..MaxDay
\* effective_to of a card that has none: no day is beyond it.
Open == MaxDay + 1

NoCard == [status |-> "NONE", from |-> 0, to |-> Open, coop |-> NoCoop]
RateCard == [status : {"NONE", "DRAFT", "ACTIVE", "ARCHIVED"}, from : Days, to : Days \union {Open},
             coop : Cooperatives \union {NoCoop}]

\* An activation that has read its draft, and then the active cards `prev'.
RatesRequest ==
  {Free}
  \union [op : {"activateDraft"}, reads : SUBSET Cards, fresh : BOOLEAN, draft : Cards]
  \union [op : {"activateCard"}, reads : SUBSET Cards, fresh : BOOLEAN,
          draft : Cards, prev : SUBSET Cards]

RatesInit ==
  /\ card = [c \in Cards |-> NoCard]
  /\ HandlersInit

-----------------------------------------------------------------------------
DraftCard(r) ==
  /\ request[r].op = "free"
  /\ \E c \in Cards, d \in Days, p \in Cooperatives \union {NoCoop} :
       /\ card[c] = NoCard
       /\ card' = [card EXCEPT ![c] = [NoCard EXCEPT !.status = "DRAFT", !.from = d, !.coop = p]]
       /\ Wrote(r, {c}, Free)

\* The transaction is READ COMMITTED and locks nothing that it reads: the
\* status of the draft in one statement, the cards it replaces in another.
ActivateDraftRead(r) ==
  \E c \in Cards :
    /\ card[c].status = "DRAFT"
    /\ Begins(r, [op |-> "activateDraft", reads |-> {c}, fresh |-> TRUE, draft |-> c])
    /\ UNCHANGED card

ActivateCardRead(r) ==
  /\ request[r].op = "activateDraft"
  /\ LET c == request[r].draft
         prev == {p \in Cards \ {c} : card[p].status = "ACTIVE" /\ card[p].coop = card[c].coop} IN
     Goes(r, [op |-> "activateCard", reads |-> Cards, fresh |-> request[r].fresh, draft |-> c,
              prev |-> prev])
  /\ UNCHANGED card

\* (mutation: a replaced card ends a day early)
ArchivedEarly(p, from) ==
  [card[p] EXCEPT !.status = "ARCHIVED", !.to = IF from = 0 THEN 0 ELSE from - 1]

Archived(p, from) == [card[p] EXCEPT !.status = "ARCHIVED", !.to = from]

ActivateCardWrite(r) ==
  /\ request[r].op = "activateCard"
  /\ LET k == request[r] IN
     /\ card' = [c \in Cards |->
                   IF c = k.draft THEN [card[c] EXCEPT !.status = "ACTIVE"]
                   ELSE IF c \in k.prev THEN Archived(c, card[k.draft].from)
                   ELSE card[c]]
     /\ Wrote(r, k.prev \union {k.draft}, Free)

RatesNext == \E r \in Requests :
  \/ DraftCard(r)
  \/ ActivateDraftRead(r)
  \/ ActivateCardRead(r)
  \/ ActivateCardWrite(r)
  \/ Ends(r, FALSE) /\ UNCHANGED card

RatesSpec == RatesInit /\ [][RatesNext]_ratesVars

-----------------------------------------------------------------------------
\* (mutation: activeOnly)
ValidAtActive(d) == {c \in Cards : card[c].status = "ACTIVE" /\ card[c].from <= d /\ d < card[c].to}

\* getRateCardValidAt: validAtFilter without activeOnly, the latest first.
ValidAt(d) ==
  {c \in Cards : card[c].status \in {"ACTIVE", "ARCHIVED"} /\ card[c].from <= d /\ d < card[c].to}
RateAt(d) == {c \in ValidAt(d) : \A x \in ValidAt(d) : card[x].from <= card[c].from}

-----------------------------------------------------------------------------
(* Properties.                                                             *)

RatesTypeOK ==
  /\ card \in [Cards -> RateCard]
  /\ request \in [Requests -> RatesRequest]

\* However activations overlap and in whatever order their days come, no day
\* from the first one on is left without a rate because a card was replaced:
\* only a card that is ACTIVE and yet was ended - activated again, after
\* another had replaced it, by a transaction that had read it as a draft -
\* leaves days after its end without one (rateCardsRepository.ts 189-241).
EveryDayHasRate ==
  \A c \in Cards, d \in Days :
    card[c].status \in {"ACTIVE", "ARCHIVED"} /\ card[c].from <= d =>
      \/ RateAt(d) # {}
      \/ \E e \in Cards : card[e].status = "ACTIVE" /\ card[e].from <= d /\ card[e].to <= d

\* Activating a card changes the rate of its days only: the fares of the
\* days before it stand.  Not so when two activations overlap.
RatesChangeForward ==
  [][\A d \in Days :
       RateAt(d)' # RateAt(d) =>
         \/ overtaken'
         \/ \E c \in Cards : card[c].status = "DRAFT" /\ card[c]'.status = "ACTIVE"
                              /\ card[c].from <= d]_ratesVars

=============================================================================
