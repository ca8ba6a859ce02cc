------------------------ MODULE VirtualAccountsProofs ------------------------
(***************************************************************************)
(* For any number of members, funds, concurrent requests, days and faults: *)
(* every number anybody was given leads back to the pair it was asked for. *)
(*                                                                         *)
(* The argument: a request's reference depends on its pair alone, so a row *)
(* holds nothing but the reference of its pair (RowsByPair), is never      *)
(* changed once it is there, and is there before its number is answered.   *)
(* A request knows its fund from the step where it read it, and funds are  *)
(* never removed (FundsKnown).                                             *)
(***************************************************************************)
EXTENDS VirtualAccounts, TLAPS

\* A stored account has the reference of its pair.
RowsByPair == \A p \in Pairs : row[p] \in {p, NoRef}

\* What was answered for a pair is stored.
Stored == \A g \in given : g.number = <<g.holder, g.f>> /\ row[g.number] = g.number

Working == {"find", "create", "fetch", "store"}

\* The parts of the type invariant the argument needs.
RequestsTyped ==
    /\ pc \in [Requests -> {"idle", "addFund"} \cup Working]
    /\ req \in [Requests -> [who : Members \cup {Visitor}, holder : Holders,
                             f : Funds \cup {NoFund}]]
    /\ \A c \in Requests : pc[c] \in Working => req[c].f \in Funds

RowsTyped ==
    /\ row \in [Pairs -> Pairs \cup {NoRef}]
    /\ given \subseteq [who : Members \cup {Visitor}, holder : Holders, f : Funds, number : Pairs]

Inv == RequestsTyped /\ RowsTyped /\ RowsByPair /\ Stored

-----------------------------------------------------------------------------
\* A request at work has a pair, which is its reference.
LEMMA PairKnown ==
    ASSUME RequestsTyped, NEW c \in Requests, pc[c] \in Working
    PROVE  Pair(c) \in Pairs /\ Ref(c) = Pair(c) /\ Pair(c) = <<req[c].holder, req[c].f>>
  BY DEF RequestsTyped, Pair, Ref, Pairs

\* Only the last step of a request stores or answers a number.
LEMMA RequestStepInv == ASSUME Inv, NEW c \in Requests, RequestStep(c) PROVE Inv'
<1>. USE DEF Inv, RequestsTyped, Working, Goto, Finish, NoRequest, Holders
<1>1. CASE AddGivingFund(c)
  <2>1. UNCHANGED <<row, given>>
    BY <1>1 DEF AddGivingFund
  <2>2. ASSUME NameFree(AnonymousGiving) PROVE RequestsTyped'
    <3>1. PICK f \in Funds : req' = [req EXCEPT ![c].f = f] /\ pc' = [pc EXCEPT ![c] = "find"]
      BY <1>1, <2>2 DEF AddGivingFund
    <3>. DEFINE r == [req[c] EXCEPT !.f = f]
    <3>2. /\ r \in [who : Members \cup {Visitor}, holder : Holders, f : Funds \cup {NoFund}]
          /\ r.f = f
      OBVIOUS
    <3>3. req' = [req EXCEPT ![c] = r]
      BY <3>1
    <3>. HIDE DEF r
    <3>. QED
      BY <3>1, <3>2, <3>3
  <2>3. ASSUME ~NameFree(AnonymousGiving) PROVE RequestsTyped'
    BY <1>1, <2>3 DEF AddGivingFund
  <2>4. RequestsTyped'
    BY <2>2, <2>3
  <2>. QED
    BY <2>1, <2>4 DEF RowsTyped, RowsByPair, Stored
<1>2. CASE FindAccount(c)
  <2>1. pc[c] = "find" /\ Pair(c) \in Pairs /\ Pair(c) = <<req[c].holder, req[c].f>>
    BY <1>2, PairKnown DEF FindAccount
  <2>2. CASE row[Pair(c)] # NoRef
    <3>. DEFINE g == [who |-> req[c].who, holder |-> req[c].holder, f |-> req[c].f,
                      number |-> row[Pair(c)]]
    <3>1. row[Pair(c)] = Pair(c)
      BY <2>1, <2>2 DEF RowsByPair
    <3>2. given' = given \cup {g} /\ UNCHANGED row
      BY <1>2, <2>2 DEF FindAccount
    <3>3. g \in [who : Members \cup {Visitor}, holder : Holders, f : Funds, number : Pairs]
      BY <2>1, <3>1
    <3>4. g.number = <<g.holder, g.f>> /\ row[g.number] = g.number
      BY <2>1, <3>1
    <3>. HIDE DEF g
    <3>5. RowsTyped' /\ RowsByPair' /\ Stored'
      BY <3>2, <3>3, <3>4 DEF RowsTyped, RowsByPair, Stored
    <3>. QED
      BY <1>2, <2>2, <3>5 DEF FindAccount
  <2>3. CASE row[Pair(c)] = NoRef
    BY <1>2, <2>1, <2>3 DEF FindAccount, RowsTyped, RowsByPair, Stored
  <2>. QED
    BY <2>2, <2>3
<1>3. CASE CreateAtNomba(c) \/ FetchExisting(c)
  BY <1>3 DEF CreateAtNomba, FetchExisting, RowsTyped, RowsByPair, Stored
<1>4. CASE StoreAccount(c)
  <2>. DEFINE p == Pair(c)
              g == [who |-> req[c].who, holder |-> req[c].holder, f |-> req[c].f,
                    number |-> Ref(c)]
  <2>1. /\ pc[c] = "store" /\ p \in Pairs /\ Ref(c) = p
        /\ p = <<req[c].holder, req[c].f>>
    BY <1>4, PairKnown DEF StoreAccount
  <2>2. row' = [row EXCEPT ![p] = p] /\ given' = given \cup {g}
    BY <1>4, <2>1 DEF StoreAccount, Answer, RowsByPair, RowsTyped
  <2>3. g \in [who : Members \cup {Visitor}, holder : Holders, f : Funds, number : Pairs]
    BY <2>1
  <2>4. g.number = p /\ g.number = <<g.holder, g.f>>
    BY <2>1
  <2>. HIDE DEF g, p
  <2>5. RowsTyped' /\ RowsByPair'
    BY <2>1, <2>2, <2>3 DEF RowsTyped, RowsByPair
  <2>6. Stored'
    BY <2>1, <2>2, <2>4 DEF RowsTyped, Stored
  <2>. QED
    BY <1>4, <2>5, <2>6 DEF StoreAccount
<1>. QED
  BY <1>1, <1>2, <1>3, <1>4 DEF RequestStep

\* Taps and visits begin with a fund, and failures give nothing away.
LEMMA RequestEndsInv ==
    ASSUME Inv, NEW c \in Requests,
           \/ \E m \in Members, f \in Funds : Tap(c, m, f)
           \/ Visit(c) \/ CreateUnanswered(c) \/ FailRequest(c)
    PROVE  Inv'
<1>. USE DEF Inv, RequestsTyped, Working, Goto, Finish, NoRequest, Holders
<1>1. UNCHANGED <<row, given>>
  BY DEF Tap, Visit, CreateUnanswered, FailRequest
<1>2. RowsTyped' /\ RowsByPair' /\ Stored'
  BY <1>1 DEF RowsTyped, RowsByPair, Stored
<1>3. ASSUME NEW m \in Members, NEW f \in Funds, Tap(c, m, f) PROVE RequestsTyped'
  <2>. DEFINE r == [who |-> m, holder |-> IF fund[f].shared THEN Org ELSE m, f |-> f]
  <2>1. req' = [req EXCEPT ![c] = r] /\ pc' = [pc EXCEPT ![c] = "find"]
    BY <1>3 DEF Tap
  <2>2. r \in [who : Members \cup {Visitor}, holder : Holders, f : Funds \cup {NoFund}]
        /\ r.f = f
    OBVIOUS
  <2>. HIDE DEF r
  <2>. QED
    BY <2>1, <2>2
<1>4. ASSUME Visit(c) PROVE RequestsTyped'
  BY <1>4 DEF Visit, GivingFunds
<1>5. ASSUME CreateUnanswered(c) \/ FailRequest(c) PROVE RequestsTyped'
  BY <1>5, SMTT(30) DEF CreateUnanswered, FailRequest
<1>. QED
  BY <1>2, <1>3, <1>4, <1>5

\* Admins, the expiry job and the calendar leave accounts and requests alone.
LEMMA OthersInv ==
    ASSUME Inv, Admin \/ ExpireCampaigns \/ NextDay \/ UNCHANGED vars
    PROVE  Inv'
<1>1. UNCHANGED <<row, given, pc, req>>
  BY DEF Admin, CreateFund, Patch, ReadFund, WriteFund, DeactivateFund, ExpireCampaigns,
         NextDay, vars, requestVars
<1>. QED
  BY <1>1 DEF Inv, RequestsTyped, RowsTyped, RowsByPair, Stored

\* The inductive invariant.
THEOREM Invariant == Spec => []Inv
<1>1. Init => Inv
  BY DEF Init, Inv, RequestsTyped, RowsTyped, RowsByPair, Stored, Working, NoRequest, Holders
<1>2. Inv /\ [Next]_vars => Inv'
  BY RequestStepInv, RequestEndsInv, OthersInv DEF Next
<1>. QED
  BY <1>1, <1>2, PTL DEF Spec

\* A number that anybody was given leads back to the pair it was asked for, so
\* that no payment to it is an orphan.
THEOREM NumbersResolve == Spec => []GivenNumbersResolve
<1>1. Inv => GivenNumbersResolve
  BY DEF Inv, Stored, GivenNumbersResolve
<1>. QED
  BY <1>1, Invariant, PTL

=============================================================================
