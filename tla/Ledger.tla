-------------------------------- MODULE Ledger --------------------------------
(***************************************************************************)
(* The finance ledger (ACC-FUND-1): what the work of one fleet owner for a *)
(* mine credits.  The fare of an approved haul or of a verified hourly log *)
(* is split between the wallets of the owner and of the platform; a haul   *)
(* also gives to the community pool; an adjustment of its weight splits    *)
(* the difference.  The fee, the rates and the rules change meanwhile.     *)
(*                                                                         *)
(* Each credit is a transaction that reads the settings and the wallets    *)
(* and then writes, without a lock.  When an approval or an adjustment is  *)
(* due is the subject of Weighing and Hourly, the pool's row of Pool.      *)
(***************************************************************************)
EXTENDS Integers, Sequences, FiniteSets, Functions, Handlers

CONSTANTS
  Hauls,       \* missions of the owner, with their tickets
  Shifts,      \* hourly work logs of the owner
  Nets,        \* kilograms of a haul, or hours of a shift
  Whole,       \* a fee or a percentage is so many parts of Whole
  Ton,         \* kilograms of a ton
  Fees, Tariffs, PerTons, Percents, \* what the settings may be
  NoRule,      \* no finance rule for a scope
  MaxChanges,  \* bound: changes of the settings
  MaxEntries   \* bound: fares and differences that were split

ASSUME LedgerAssumption ==
  /\ IsFiniteSet(Hauls) /\ IsFiniteSet(Shifts)
  /\ {Whole, Ton} \subseteq Nat \ {0}
  /\ Nets \subseteq Nat \ {0} /\ Fees \subseteq 1..Whole /\ Percents \subseteq 0..Whole
  /\ Tariffs \subseteq Nat \ {0} /\ PerTons \subseteq Nat \ {0}
  /\ NoRule \notin Percents
  /\ {MaxChanges, MaxEntries} \subseteq Nat

VARIABLES
  settings,  \* of the mine, its rate cards, contract and rules, and the owner
  work,      \* [Hauls \cup Shifts -> row of a ticket or of an hourly log]
  wallets,   \* Seq(row of wallets, and what its transactions add up to)
  pot,       \* the total of the community pools
  changes,   \* how often the settings were changed
  \* Ghosts.
  entries,   \* how many fares and differences were split
  repriced,  \* the settings changed after a first credit
  premature  \* the weight of a haul that was never credited was adjusted

ledgerRows == <<settings, work, wallets, pot, changes, entries, repriced, premature>>
ledgerVars == <<ledgerRows, handlerVars>>

Works == Hauls \union Shifts
Parties == {"owner", "platform"}
\* scopeCandidates, the narrowest first.
Scopes == <<"COOPERATIVE", "MINE", "GLOBAL">>

Settings ==
  [fee : Fees, tariff : Tariffs, perTon : PerTons, allowLegacy : BOOLEAN,
   rules : [1..3 -> Percents \union {NoRule}], ownerActive : BOOLEAN, householdActive : BOOLEAN]
Work == [amount : Nets, status : {"open", "approved", "adjusted"}, paid : BOOLEAN]
Wallet == [of : Parties, balance : Int]

\* A transaction that has read the settings `s' and the wallets `found'.
LedgerRequest ==
  {Free}
    \union [op : {"credit"}, reads : SUBSET (Works \union Parties \union {"settings"}), fresh : BOOLEAN,
            of : Works, s : Settings, found : [Parties -> Nat], amount : Nets]
    \union [op : {"adjust"}, reads : SUBSET (Works \union Parties \union {"settings"}), fresh : BOOLEAN,
            of : Hauls, s : Settings, found : [Parties -> Nat], before : Nets, after : Nets, paid : BOOLEAN]

LedgerInit ==
  /\ \E f \in Fees, t \in Tariffs, p \in PerTons, l, o \in BOOLEAN :
       settings = [fee |-> f, tariff |-> t, perTon |-> p, allowLegacy |-> l,
                   rules |-> [i \in 1..3 |-> NoRule], ownerActive |-> o, householdActive |-> TRUE]
  /\ work \in [Works -> [amount : Nets, status : {"open"}, paid : {FALSE}]]
  /\ wallets = <<>>
  /\ pot = 0
  /\ changes = 0
  /\ entries = 0
  /\ repriced = FALSE
  /\ premature = FALSE
  /\ HandlersInit

-----------------------------------------------------------------------------
(* The arithmetic.                                                         *)

\* Math.round(n / d): a half goes up, also below zero.
Rounded(n, d) == (2 * n + d) \div (2 * d)

\* (mutation: each share by its own ratio, as getSplitRatios gives them)
SplitByRatios(fare, s) ==
  [owner |-> Rounded(fare * (Whole - s.fee), Whole), platform |-> Rounded(fare * s.fee, Whole)]

SplitOperational(fare, s) ==
  LET fee == Rounded(fare * s.fee, Whole) IN [owner |-> fare - fee, platform |-> fee]

\* RuleEngine.get: the first scope that has a row, whatever its value.
RuleOf(s) ==
  IF \E i \in 1..3 : s.rules[i] # NoRule
  THEN s.rules[CHOOSE i \in 1..3 : s.rules[i] # NoRule /\ \A j \in 1..(i - 1) : s.rules[j] = NoRule]
  ELSE NoRule

\* resolveFinancePolicy: a positive percentage replaces the amount per ton.
LegacyPercent(s) == IF s.allowLegacy /\ RuleOf(s) # NoRule THEN RuleOf(s) ELSE 0

CommunityContribution(net, fare, s) ==
  IF LegacyPercent(s) > 0
  THEN Rounded(fare * LegacyPercent(s), Whole)
  ELSE Rounded(net * s.perTon, Ton)

-----------------------------------------------------------------------------
(* Settings.                                                               *)

\* Another handler changes them in one write.
Change(r, s) ==
  /\ request[r].op = "free"
  /\ changes < MaxChanges
  /\ s # settings
  /\ settings' = s
  /\ changes' = changes + 1
  /\ repriced' = (repriced \/ entries > 0)
  /\ Wrote(r, {"settings"}, Free)
  /\ UNCHANGED <<work, wallets, pot, entries, premature>>

PatchMineSettings(r) == \E f \in Fees : Change(r, [settings EXCEPT !.fee = f])
UpdateCommunity(r) == \E p \in PerTons : Change(r, [settings EXCEPT !.perTon = p])
ActivateTariff(r) == \E t \in Tariffs : Change(r, [settings EXCEPT !.tariff = t])

\* A rule whose days begin now; no rule is ever taken back.
SetActiveRule(r) ==
  \E i \in 1..Len(Scopes), p \in Percents : Change(r, [settings EXCEPT !.rules[i] = p])

\* The owner or the household is approved, suspended or rejected.
DecideParty(r) ==
  \/ Change(r, [settings EXCEPT !.ownerActive = ~@])
  \/ Change(r, [settings EXCEPT !.householdActive = ~@])

-----------------------------------------------------------------------------
(* Credits.                                                                *)

Find(p) == {i \in 1..Len(wallets) : wallets[i].of = p}

\* findFirst, of no particular order.
Found ==
  {f \in [Parties -> 0..Len(wallets)] :
     \A p \in Parties : IF Find(p) = {} THEN f[p] = 0 ELSE f[p] \in Find(p)}

LedgerReads(w) == {w, "settings"} \union {p \in Parties : Find(p) = {}}

CreditRead(r) ==
  \E w \in Works, f \in Found :
    /\ work[w].status = "open"
    /\ Begins(r, [op |-> "credit", reads |-> LedgerReads(w), fresh |-> TRUE, of |-> w, s |-> settings,
                  found |-> f, amount |-> work[w].amount])
    /\ UNCHANGED ledgerRows

\* createTransaction, and findOrCreate for a party that was not found.
Credited(ws, found, p, amount) ==
  IF found[p] = 0
  THEN Append(ws, [of |-> p, balance |-> amount])
  ELSE [ws EXCEPT ![found[p]].balance = @ + amount]

\* The wallet of the platform is always there afterwards; an owner who is
\* not APPROVED is credited nothing.
Splits(r, fare) ==
  LET k == request[r]
      shares == SplitOperational(fare, k.s)
      toOwner == k.s.ownerActive /\ shares.owner # 0
      ws == Credited(wallets, k.found, "platform", shares.platform) IN
  /\ wallets' = IF toOwner THEN Credited(ws, k.found, "owner", shares.owner) ELSE ws
  /\ Wrote(r, {k.of} \union {p \in Parties : k.found[p] = 0 /\ (p = "owner" => toOwner)}, Free)

\* applyMissionSplitInTx, applyHourlySplitInTx
CreditWrite(r) ==
  /\ request[r].op = "credit"
  /\ entries < MaxEntries
  /\ LET k == request[r]
         fare == k.amount * k.s.tariff IN
     /\ work' = [work EXCEPT ![k.of].status = "approved", ![k.of].paid = TRUE]
     /\ Splits(r, fare)
     /\ pot' = IF k.of \in Hauls /\ k.s.householdActive
               THEN pot + CommunityContribution(k.amount, fare, k.s)
               ELSE pot
  /\ entries' = entries + 1
  /\ UNCHANGED <<settings, changes, repriced, premature>>

\* approveAdjustment: the old and the new fare, both at the tariff of now.
AdjustRead(r) ==
  \E h \in Hauls, n \in Nets, f \in Found :
    /\ n # work[h].amount
    /\ Begins(r, [op |-> "adjust", reads |-> LedgerReads(h), fresh |-> TRUE, of |-> h, s |-> settings,
                  found |-> f, before |-> work[h].amount, after |-> n, paid |-> work[h].paid])
    /\ UNCHANGED ledgerRows

\* applyFareDeltaInTx.  Without a first credit there is no fare to differ
\* from, and the difference of the contribution is added all the same.
AdjustWrite(r) ==
  /\ request[r].op = "adjust"
  /\ entries < MaxEntries
  /\ LET k == request[r]
         net == k.after - k.before
         fare == IF k.paid THEN net * k.s.tariff ELSE 0
         contribution == CommunityContribution(net, fare, k.s) IN
     /\ work' = [work EXCEPT ![k.of].amount = k.after, ![k.of].status = "adjusted"]
     /\ IF fare = 0 /\ contribution = 0
        THEN Wrote(r, {k.of}, Free) /\ UNCHANGED wallets
        ELSE Splits(r, fare)
     /\ pot' = IF k.s.householdActive THEN pot + contribution ELSE pot
     /\ premature' = (premature \/ ~k.paid)
  /\ entries' = entries + 1
  /\ UNCHANGED <<settings, changes, repriced>>

LedgerNext == \E r \in Requests :
  \/ PatchMineSettings(r) \/ UpdateCommunity(r) \/ ActivateTariff(r)
  \/ SetActiveRule(r) \/ DecideParty(r)
  \/ CreditRead(r) \/ CreditWrite(r)
  \/ AdjustRead(r) \/ AdjustWrite(r)
  \/ Ends(r, FALSE) /\ UNCHANGED ledgerRows

LedgerSpec == LedgerInit /\ [][LedgerNext]_ledgerVars

-----------------------------------------------------------------------------
(* Properties.                                                             *)

LedgerTypeOK ==
  /\ settings \in Settings
  /\ work \in [Works -> Work]
  /\ wallets \in Seq(Wallet)
  /\ pot \in Int
  /\ changes \in 0..MaxChanges
  /\ entries \in 0..MaxEntries
  /\ {repriced, premature} \subseteq BOOLEAN
  /\ request \in [Requests -> LedgerRequest]

Balance(p) ==
  FoldFunction(+, 0, [i \in 1..Len(wallets) |-> IF wallets[i].of = p THEN wallets[i].balance ELSE 0])

\* What the work that was credited amounts to now.
Amount(ws) == FoldFunctionOnSet(+, 0, [w \in Works |-> work[w].amount], {w \in ws : work[w].paid})

\* The parts that were rounded one by one are as good as the whole, half a
\* rial for each.
Near(sum, exact, unit) == LET d == 2 * (sum * unit - exact) IN -unit * entries <= d /\ d <= unit * entries

\* Hauls, shifts and adjustments in any order, overlapping as long as none
\* writes over what it has not seen: owner and platform have one wallet
\* each; and while the settings stand, the two hold the fare of what the
\* owner has done to the rial, the platform its fee of that fare and the
\* pool the contribution of the weights, but for the rounding of each entry.
SharesOfFare ==
  ~overtaken =>
    /\ \A p \in Parties : Cardinality(Find(p)) <= 1
    /\ ~repriced =>
         LET fare == Amount(Works) * settings.tariff
             hauled == Amount(Hauls) IN
         /\ Balance("owner") = IF settings.ownerActive THEN fare - Balance("platform") ELSE 0
         /\ Near(Balance("platform"), fare * settings.fee, Whole)
         /\ ~premature /\ settings.householdActive =>
              IF LegacyPercent(settings) > 0
              THEN Near(pot, hauled * settings.tariff * LegacyPercent(settings), Whole)
              ELSE Near(pot, hauled * settings.perTon, Ton)

=============================================================================
