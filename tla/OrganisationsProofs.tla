------------------------- MODULE OrganisationsProofs -------------------------
(***************************************************************************)
(* For any number of churches, requests and files: the logo a church       *)
(* points at is stored, unless a write to it was applied and reported as   *)
(* failed.                                                                 *)
(*                                                                         *)
(* The argument: a file is written into a row once, by the request that    *)
(* uploaded it (Written, Apart).  What a request has read as the previous  *)
(* logo was written before, so nobody writes it again, and by the time the *)
(* request deletes it, its own write has replaced it (Replaced).           *)
(*                                                                         *)
(* And the files nobody needs are paid for by failing calls and overlaps.  *)
(* A file is lost when it is in no row and in no hand that will pass it on *)
(* (Lost).  A request under way may still lose one more, its church's old  *)
(* logo, unless somebody under way has read the present logo as the one    *)
(* to delete (Pending, Matched): what is lost, and what may be, is at most *)
(* the faults and the churches where the present logo is taken care of     *)
(* (PaidFor).                                                              *)
(***************************************************************************)
EXTENDS Organisations, Functions, FiniteSetTheorems, TLAPS

Shape == \A q \in Requests :
    /\ pc[q] \in {"idle", "upload"} => new[q] = NoAsset
    /\ pc[q] \in {"idle", "probe", "insert"} => old[q] = NoAsset
    /\ pc[q] = "upload" /\ ~Registered(ChurchOf[q]) => old[q] = NoAsset
    /\ pc[q] = "insert" => tried[q] < Len(Candidates[ChurchOf[q]])

Apart ==
    /\ \A q, r \in Requests : new[q] = new[r] /\ new[q] # NoAsset => q = r
    /\ \A c, d \in Churches : logo[c] = logo[d] /\ logo[c] # NoAsset => c = d

Written == \A q \in Requests, c \in Churches :
    logo[c] = new[q] /\ new[q] # NoAsset =>
        /\ c = ChurchOf[q]
        /\ pc[q] \in {"cleanup", "rollback"}
        /\ pc[q] = "rollback" => c \in unanswered

Replaced == \A q \in Requests : old[q] # NoAsset =>
    /\ \A r \in Requests : new[r] = old[q] => pc[r] \in {"cleanup", "rollback"}
    /\ \A c \in Churches : logo[c] = old[q] => c = ChurchOf[q] /\ pc[q] # "cleanup"

Kept == \A q \in Requests :
    pc[q] \in {"probe", "insert", "update"} /\ new[q] # NoAsset => new[q] \in stored

Inv ==
    /\ TypeOK /\ Shape /\ Apart /\ Written /\ Replaced /\ Kept
    /\ BrokenOnlyUnanswered
-----------------------------------------------------------------------------
\* A new file is one that nothing mentions.
LEMMA NewAssetIsNew ==
    ASSUME Unused # {}
    PROVE  /\ NewAsset \in Assets \ stored
           /\ \A c \in Churches : logo[c] # NewAsset
           /\ \A q \in Requests : new[q] # NewAsset /\ old[q] # NewAsset
  BY DEF NewAsset, Unused, Mentioned

LEMMA CandidatesAreSlugs ==
    ASSUME NEW c \in Churches, NEW n \in Nat, n < Len(Candidates[c])
    PROVE  Candidates[c][n + 1] \in Slugs
<1>1. Candidates[c] \in Seq(Slugs)
  BY OrganisationsAssumption
<1>. QED
  BY <1>1

\* The type invariant.
LEMMA TypeOKNext == ASSUME Inv, [Next]_vars PROVE TypeOK'
<1>. USE OrganisationsAssumption
        DEF Inv, TypeOK, Shape
<1>1. ASSUME NEW q \in Requests, Register(q) PROVE TypeOK'
  BY <1>1 DEF Register, Goto, table, Alone
<1>2. ASSUME NEW q \in Requests, ReplaceLogo(q) PROVE TypeOK'
  BY <1>2 DEF ReplaceLogo, Registered, Goto, Fault, table
<1>3. ASSUME NEW q \in Requests, Upload(q) PROVE TypeOK'
  BY <1>3, NewAssetIsNew DEF Upload, Goto, table
<1>4. ASSUME NEW q \in Requests, Probe(q) PROVE TypeOK'
  <2>1. CASE tried' = [tried EXCEPT ![q] = @ + 1] /\ UNCHANGED pc
    BY <1>4, <2>1 DEF Probe, table
  <2>2. CASE Goto(q, "insert") /\ UNCHANGED tried
    BY <1>4, <2>2 DEF Probe, Goto, table
  <2>. QED
    BY <1>4, <2>1, <2>2 DEF Probe
<1>5. ASSUME NEW q \in Requests, Insert(q) PROVE TypeOK'
  <2>1. CASE Inserted(q) /\ Done(q)
    BY <1>5, <2>1, CandidatesAreSlugs DEF Insert, Inserted, Done, Goto
  <2>2. CASE Goto(q, "rollback") /\ UNCHANGED <<table, new, old, tried>>
    BY <1>5, <2>2 DEF Insert, Goto, table
  <2>. QED
    BY <1>5, <2>1, <2>2 DEF Insert
<1>6. ASSUME NEW q \in Requests, Update(q) PROVE TypeOK'
  BY <1>6 DEF Update, Pointed, Goto
<1>7. ASSUME NEW q \in Requests, Cleanup(q) PROVE TypeOK'
  BY <1>7 DEF Cleanup, Done, Goto, table
<1>8. ASSUME NEW q \in Requests, Rollback(q) PROVE TypeOK'
  BY <1>8 DEF Rollback, Done, Goto, table
<1>9. ASSUME NEW q \in Requests, WriteFails(q) PROVE TypeOK'
  <2>1. CASE UNCHANGED <<table, unanswered>>
    BY <1>9, <2>1 DEF WriteFails, Fault, Goto, table
  <2>2. CASE pc[q] = "insert" /\ Inserted(q) /\ unanswered' = unanswered \cup {ChurchOf[q]}
    BY <1>9, <2>2, CandidatesAreSlugs DEF WriteFails, Inserted, Fault, Goto
  <2>3. CASE pc[q] = "update" /\ Pointed(q) /\ unanswered' = unanswered \cup {ChurchOf[q]}
    BY <1>9, <2>3 DEF WriteFails, Pointed, Fault, Goto
  <2>. QED
    BY <1>9, <2>1, <2>2, <2>3 DEF WriteFails
<1>10. ASSUME NEW q \in Requests, Fail(q) PROVE TypeOK'
  BY <1>10, NewAssetIsNew DEF Fail, Fault, Done, Goto, table
<1>11. CASE UNCHANGED vars
  BY <1>11 DEF vars
<1>. HIDE DEF Inv, TypeOK, Shape
<1>. QED
  BY <1>1, <1>2, <1>3, <1>4, <1>5, <1>6, <1>7, <1>8, <1>9, <1>10, <1>11
  DEF Next, Serve

\* What a request has at each step.
LEMMA ShapeNext == ASSUME Inv, [Next]_vars PROVE Shape'
<1>. USE OrganisationsAssumption
        DEF Inv, TypeOK, Shape
<1>1. ASSUME NEW q \in Requests, Register(q) PROVE Shape'
  BY <1>1 DEF Register, Goto, table, Alone, Registered
<1>2. ASSUME NEW q \in Requests, ReplaceLogo(q) PROVE Shape'
  BY <1>2 DEF ReplaceLogo, Registered, Goto, Fault, table
<1>3. ASSUME NEW q \in Requests, Upload(q) PROVE Shape'
  BY <1>3, NewAssetIsNew DEF Upload, Goto, table, Registered
<1>4. ASSUME NEW q \in Requests, Probe(q) PROVE Shape'
  BY <1>4 DEF Probe, Goto, table, Registered
<1>5. ASSUME NEW q \in Requests, Insert(q) PROVE Shape'
  <2>1. CASE Inserted(q) /\ Done(q)
    BY <1>5, <2>1 DEF Insert, Inserted, Done, Goto, Registered
  <2>2. CASE Goto(q, "rollback") /\ UNCHANGED <<table, new, old, tried>>
    BY <1>5, <2>2 DEF Insert, Goto, table, Registered
  <2>. QED
    BY <1>5, <2>1, <2>2 DEF Insert
<1>6. ASSUME NEW q \in Requests, Update(q) PROVE Shape'
  BY <1>6 DEF Update, Pointed, Goto, Registered
<1>7. ASSUME NEW q \in Requests, Cleanup(q) PROVE Shape'
  BY <1>7 DEF Cleanup, Done, Goto, table, Registered
<1>8. ASSUME NEW q \in Requests, Rollback(q) PROVE Shape'
  BY <1>8 DEF Rollback, Done, Goto, table, Registered
<1>9. ASSUME NEW q \in Requests, WriteFails(q) PROVE Shape'
  <2>1. CASE UNCHANGED <<table, unanswered>>
    BY <1>9, <2>1 DEF WriteFails, Fault, Goto, table, Registered
  <2>2. CASE pc[q] = "insert" /\ Inserted(q) /\ unanswered' = unanswered \cup {ChurchOf[q]}
    BY <1>9, <2>2 DEF WriteFails, Inserted, Fault, Goto, Registered
  <2>3. CASE pc[q] = "update" /\ Pointed(q) /\ unanswered' = unanswered \cup {ChurchOf[q]}
    BY <1>9, <2>3 DEF WriteFails, Pointed, Fault, Goto, Registered
  <2>. QED
    BY <1>9, <2>1, <2>2, <2>3 DEF WriteFails
<1>10. ASSUME NEW q \in Requests, Fail(q) PROVE Shape'
  BY <1>10, NewAssetIsNew DEF Fail, Fault, Done, Goto, table, Registered
<1>11. CASE UNCHANGED vars
  BY <1>11 DEF vars, Registered
<1>. HIDE DEF Inv, TypeOK, Shape
<1>. QED
  BY <1>1, <1>2, <1>3, <1>4, <1>5, <1>6, <1>7, <1>8, <1>9, <1>10, <1>11
  DEF Next, Serve

\* No file is uploaded twice, or in two rows.
LEMMA ApartNext == ASSUME Inv, [Next]_vars PROVE Apart'
<1>. USE OrganisationsAssumption
        DEF Inv, TypeOK, Shape, Apart, Written
<1>1. ASSUME NEW q \in Requests, Register(q) PROVE Apart'
  BY <1>1 DEF Register, Goto, table, Alone
<1>2. ASSUME NEW q \in Requests, ReplaceLogo(q) PROVE Apart'
  BY <1>2 DEF ReplaceLogo, Registered, Goto, Fault, table
<1>3. ASSUME NEW q \in Requests, Upload(q) PROVE Apart'
  BY <1>3, NewAssetIsNew DEF Upload, Goto, table
<1>4. ASSUME NEW q \in Requests, Probe(q) PROVE Apart'
  BY <1>4 DEF Probe, Goto, table
<1>5. ASSUME NEW q \in Requests, Insert(q) PROVE Apart'
  <2>1. CASE Inserted(q) /\ Done(q)
    BY <1>5, <2>1 DEF Insert, Inserted, Done, Goto
  <2>2. CASE Goto(q, "rollback") /\ UNCHANGED <<table, new, old, tried>>
    BY <1>5, <2>2 DEF Insert, Goto, table
  <2>. QED
    BY <1>5, <2>1, <2>2 DEF Insert
<1>6. ASSUME NEW q \in Requests, Update(q) PROVE Apart'
  BY <1>6 DEF Update, Pointed, Goto
<1>7. ASSUME NEW q \in Requests, Cleanup(q) PROVE Apart'
  BY <1>7 DEF Cleanup, Done, Goto, table
<1>8. ASSUME NEW q \in Requests, Rollback(q) PROVE Apart'
  BY <1>8 DEF Rollback, Done, Goto, table
<1>9. ASSUME NEW q \in Requests, WriteFails(q) PROVE Apart'
  <2>1. CASE UNCHANGED <<table, unanswered>>
    BY <1>9, <2>1 DEF WriteFails, Fault, Goto, table
  <2>2. CASE pc[q] = "insert" /\ Inserted(q) /\ unanswered' = unanswered \cup {ChurchOf[q]}
    BY <1>9, <2>2 DEF WriteFails, Inserted, Fault, Goto
  <2>3. CASE pc[q] = "update" /\ Pointed(q) /\ unanswered' = unanswered \cup {ChurchOf[q]}
    BY <1>9, <2>3 DEF WriteFails, Pointed, Fault, Goto
  <2>. QED
    BY <1>9, <2>1, <2>2, <2>3 DEF WriteFails
<1>10. ASSUME NEW q \in Requests, Fail(q) PROVE Apart'
  BY <1>10, NewAssetIsNew DEF Fail, Fault, Done, Goto, table
<1>11. CASE UNCHANGED vars
  BY <1>11 DEF vars
<1>. HIDE DEF Inv, TypeOK, Shape, Apart, Written
<1>. QED
  BY <1>1, <1>2, <1>3, <1>4, <1>5, <1>6, <1>7, <1>8, <1>9, <1>10, <1>11
  DEF Next, Serve

\* A file is written by the request that uploaded it.
LEMMA WrittenNext == ASSUME Inv, [Next]_vars PROVE Written'
<1>. USE OrganisationsAssumption
        DEF Inv, TypeOK, Shape, Apart, Written, Replaced
<1>1. ASSUME NEW q \in Requests, Register(q) PROVE Written'
  BY <1>1 DEF Register, Goto, table, Alone
<1>2. ASSUME NEW q \in Requests, ReplaceLogo(q) PROVE Written'
  BY <1>2 DEF ReplaceLogo, Registered, Goto, Fault, table
<1>3. ASSUME NEW q \in Requests, Upload(q) PROVE Written'
  BY <1>3, NewAssetIsNew DEF Upload, Goto, table
<1>4. ASSUME NEW q \in Requests, Probe(q) PROVE Written'
  BY <1>4 DEF Probe, Goto, table
<1>5. ASSUME NEW q \in Requests, Insert(q) PROVE Written'
  <2>1. CASE Inserted(q) /\ Done(q)
    BY <1>5, <2>1 DEF Insert, Inserted, Done, Goto
  <2>2. CASE Goto(q, "rollback") /\ UNCHANGED <<table, new, old, tried>>
    BY <1>5, <2>2 DEF Insert, Goto, table
  <2>. QED
    BY <1>5, <2>1, <2>2 DEF Insert
<1>6. ASSUME NEW q \in Requests, Update(q) PROVE Written'
  BY <1>6 DEF Update, Pointed, Goto
<1>7. ASSUME NEW q \in Requests, Cleanup(q) PROVE Written'
  BY <1>7 DEF Cleanup, Done, Goto, table
<1>8. ASSUME NEW q \in Requests, Rollback(q) PROVE Written'
  BY <1>8 DEF Rollback, Done, Goto, table
<1>9. ASSUME NEW q \in Requests, WriteFails(q) PROVE Written'
  <2>1. CASE UNCHANGED <<table, unanswered>>
    BY <1>9, <2>1 DEF WriteFails, Fault, Goto, table
  <2>2. CASE pc[q] = "insert" /\ Inserted(q) /\ unanswered' = unanswered \cup {ChurchOf[q]}
    BY <1>9, <2>2 DEF WriteFails, Inserted, Fault, Goto
  <2>3. CASE pc[q] = "update" /\ Pointed(q) /\ unanswered' = unanswered \cup {ChurchOf[q]}
    BY <1>9, <2>3 DEF WriteFails, Pointed, Fault, Goto
  <2>. QED
    BY <1>9, <2>1, <2>2, <2>3 DEF WriteFails
<1>10. ASSUME NEW q \in Requests, Fail(q) PROVE Written'
  BY <1>10, NewAssetIsNew DEF Fail, Fault, Done, Goto, table
<1>11. CASE UNCHANGED vars
  BY <1>11 DEF vars
<1>. HIDE DEF Inv, TypeOK, Shape, Apart, Written, Replaced
<1>. QED
  BY <1>1, <1>2, <1>3, <1>4, <1>5, <1>6, <1>7, <1>8, <1>9, <1>10, <1>11
  DEF Next, Serve

\* What is to be deleted is not written any more, and not pointed at when it is deleted.
LEMMA ReplacedNext == ASSUME Inv, [Next]_vars PROVE Replaced'
<1>. USE OrganisationsAssumption
        DEF Inv, TypeOK, Shape, Apart, Written, Replaced
<1>1. ASSUME NEW q \in Requests, Register(q) PROVE Replaced'
  <2>1. pc[q] = "idle"
    BY <1>1 DEF Register, Alone
  <2>2. UNCHANGED <<logo, new, old>>
    BY <1>1 DEF Register, table
  <2>3. \A r \in Requests : r # q => pc'[r] = pc[r]
    BY <1>1 DEF Register, Goto
  <2>4. old[q] = NoAsset /\ new[q] = NoAsset
    BY <2>1
  <2>. QED
    BY <2>2, <2>3, <2>4
<1>2. ASSUME NEW q \in Requests, ReplaceLogo(q) PROVE Replaced'
  BY <1>2 DEF ReplaceLogo, Registered, Goto, Fault, table
<1>3. ASSUME NEW q \in Requests, Upload(q) PROVE Replaced'
  BY <1>3, NewAssetIsNew DEF Upload, Goto, table
<1>4. ASSUME NEW q \in Requests, Probe(q) PROVE Replaced'
  <2>1. /\ UNCHANGED <<logo, new, old>> /\ pc[q] = "probe" /\ pc'[q] \in {"probe", "insert"}
        /\ \A r \in Requests : r # q => pc'[r] = pc[r]
    BY <1>4 DEF Probe, Goto, table
  <2>. QED
    BY <2>1, ZenonT(60)
<1>5. ASSUME NEW q \in Requests, Insert(q) PROVE Replaced'
  <2>1. CASE Inserted(q) /\ Done(q)
    BY <1>5, <2>1 DEF Insert, Inserted, Done, Goto
  <2>2. CASE Goto(q, "rollback") /\ UNCHANGED <<table, new, old, tried>>
    BY <1>5, <2>2 DEF Insert, Goto, table
  <2>. QED
    BY <1>5, <2>1, <2>2 DEF Insert
<1>6. ASSUME NEW q \in Requests, Update(q) PROVE Replaced'
  <2>1. UNCHANGED <<new, old>> /\ pc[q] = "update" /\ pc' = [pc EXCEPT ![q] = "cleanup"]
    BY <1>6 DEF Update, Goto
  <2>2. logo' = [logo EXCEPT ![ChurchOf[q]] = new[q]]
    BY <1>6 DEF Update, Pointed
  <2>3. ASSUME NEW p \in Requests, old[p] # NoAsset PROVE new[q] # old[p]
    BY <2>1, <2>3
  <2>4. ASSUME NEW p \in Requests, old[p] # NoAsset, NEW c \in Churches, logo'[c] = old[p]
        PROVE  c # ChurchOf[q] /\ logo[c] = old[p]
    BY <2>2, <2>3, <2>4
  <2>5. ASSUME NEW p \in Requests, old[p] # NoAsset, NEW c \in Churches, logo'[c] = old[p]
        PROVE  c = ChurchOf[p] /\ pc'[p] # "cleanup"
    BY <2>1, <2>4, <2>5
  <2>. QED
    BY <2>1, <2>5
<1>7. ASSUME NEW q \in Requests, Cleanup(q) PROVE Replaced'
  BY <1>7 DEF Cleanup, Done, Goto, table
<1>8. ASSUME NEW q \in Requests, Rollback(q) PROVE Replaced'
  BY <1>8 DEF Rollback, Done, Goto, table
<1>9. ASSUME NEW q \in Requests, WriteFails(q) PROVE Replaced'
  <2>1. CASE UNCHANGED <<table, unanswered>>
    BY <1>9, <2>1 DEF WriteFails, Fault, Goto, table
  <2>2. CASE pc[q] = "insert" /\ Inserted(q) /\ unanswered' = unanswered \cup {ChurchOf[q]}
    BY <1>9, <2>2 DEF WriteFails, Inserted, Fault, Goto
  <2>3. CASE pc[q] = "update" /\ Pointed(q) /\ unanswered' = unanswered \cup {ChurchOf[q]}
    BY <1>9, <2>3 DEF WriteFails, Pointed, Fault, Goto
  <2>. QED
    BY <1>9, <2>1, <2>2, <2>3 DEF WriteFails
<1>10. ASSUME NEW q \in Requests, Fail(q) PROVE Replaced'
  BY <1>10, NewAssetIsNew DEF Fail, Fault, Done, Goto, table
<1>11. CASE UNCHANGED vars
  BY <1>11 DEF vars
<1>. HIDE DEF Inv, TypeOK, Shape, Apart, Written, Replaced
<1>. QED
  BY <1>1, <1>2, <1>3, <1>4, <1>5, <1>6, <1>7, <1>8, <1>9, <1>10, <1>11
  DEF Next, Serve

\* An uploaded file stays until it is written.
LEMMA KeptNext == ASSUME Inv, [Next]_vars PROVE Kept'
<1>. USE OrganisationsAssumption
        DEF Inv, TypeOK, Shape, Apart, Written, Replaced, Kept
<1>1. ASSUME NEW q \in Requests, Register(q) PROVE Kept'
  BY <1>1 DEF Register, Goto, table, Alone
<1>2. ASSUME NEW q \in Requests, ReplaceLogo(q) PROVE Kept'
  BY <1>2 DEF ReplaceLogo, Registered, Goto, Fault, table
<1>3. ASSUME NEW q \in Requests, Upload(q) PROVE Kept'
  BY <1>3, NewAssetIsNew DEF Upload, Goto, table
<1>4. ASSUME NEW q \in Requests, Probe(q) PROVE Kept'
  BY <1>4 DEF Probe, Goto, table
<1>5. ASSUME NEW q \in Requests, Insert(q) PROVE Kept'
  <2>1. CASE Inserted(q) /\ Done(q)
    BY <1>5, <2>1 DEF Insert, Inserted, Done, Goto
  <2>2. CASE Goto(q, "rollback") /\ UNCHANGED <<table, new, old, tried>>
    BY <1>5, <2>2 DEF Insert, Goto, table
  <2>. QED
    BY <1>5, <2>1, <2>2 DEF Insert
<1>6. ASSUME NEW q \in Requests, Update(q) PROVE Kept'
  BY <1>6 DEF Update, Pointed, Goto
<1>7. ASSUME NEW q \in Requests, Cleanup(q) PROVE Kept'
  BY <1>7 DEF Cleanup, Done, Goto, table
<1>8. ASSUME NEW q \in Requests, Rollback(q) PROVE Kept'
  BY <1>8 DEF Rollback, Done, Goto, table
<1>9. ASSUME NEW q \in Requests, WriteFails(q) PROVE Kept'
  <2>1. CASE UNCHANGED <<table, unanswered>>
    BY <1>9, <2>1 DEF WriteFails, Fault, Goto, table
  <2>2. CASE pc[q] = "insert" /\ Inserted(q) /\ unanswered' = unanswered \cup {ChurchOf[q]}
    BY <1>9, <2>2 DEF WriteFails, Inserted, Fault, Goto
  <2>3. CASE pc[q] = "update" /\ Pointed(q) /\ unanswered' = unanswered \cup {ChurchOf[q]}
    BY <1>9, <2>3 DEF WriteFails, Pointed, Fault, Goto
  <2>. QED
    BY <1>9, <2>1, <2>2, <2>3 DEF WriteFails
<1>10. ASSUME NEW q \in Requests, Fail(q) PROVE Kept'
  BY <1>10, NewAssetIsNew DEF Fail, Fault, Done, Goto, table
<1>11. CASE UNCHANGED vars
  BY <1>11 DEF vars
<1>. HIDE DEF Inv, TypeOK, Shape, Apart, Written, Replaced, Kept
<1>. QED
  BY <1>1, <1>2, <1>3, <1>4, <1>5, <1>6, <1>7, <1>8, <1>9, <1>10, <1>11
  DEF Next, Serve

\* Logos are stored.
LEMMA BrokenOnlyUnansweredNext == ASSUME Inv, [Next]_vars PROVE BrokenOnlyUnanswered'
<1>. USE OrganisationsAssumption
        DEF Inv, TypeOK, Shape, Apart, Written, Replaced, Kept, BrokenOnlyUnanswered
<1>1. ASSUME NEW q \in Requests, Register(q) PROVE BrokenOnlyUnanswered'
  BY <1>1 DEF Register, Goto, table, Alone
<1>2. ASSUME NEW q \in Requests, ReplaceLogo(q) PROVE BrokenOnlyUnanswered'
  BY <1>2 DEF ReplaceLogo, Registered, Goto, Fault, table
<1>3. ASSUME NEW q \in Requests, Upload(q) PROVE BrokenOnlyUnanswered'
  BY <1>3, NewAssetIsNew DEF Upload, Goto, table
<1>4. ASSUME NEW q \in Requests, Probe(q) PROVE BrokenOnlyUnanswered'
  BY <1>4 DEF Probe, Goto, table
<1>5. ASSUME NEW q \in Requests, Insert(q) PROVE BrokenOnlyUnanswered'
  <2>1. CASE Inserted(q) /\ Done(q)
    BY <1>5, <2>1 DEF Insert, Inserted, Done, Goto
  <2>2. CASE Goto(q, "rollback") /\ UNCHANGED <<table, new, old, tried>>
    BY <1>5, <2>2 DEF Insert, Goto, table
  <2>. QED
    BY <1>5, <2>1, <2>2 DEF Insert
<1>6. ASSUME NEW q \in Requests, Update(q) PROVE BrokenOnlyUnanswered'
  BY <1>6 DEF Update, Pointed, Goto
<1>7. ASSUME NEW q \in Requests, Cleanup(q) PROVE BrokenOnlyUnanswered'
  BY <1>7 DEF Cleanup, Done, Goto, table
<1>8. ASSUME NEW q \in Requests, Rollback(q) PROVE BrokenOnlyUnanswered'
  BY <1>8 DEF Rollback, Done, Goto, table
<1>9. ASSUME NEW q \in Requests, WriteFails(q) PROVE BrokenOnlyUnanswered'
  <2>1. CASE UNCHANGED <<table, unanswered>>
    BY <1>9, <2>1 DEF WriteFails, Fault, Goto, table
  <2>2. CASE pc[q] = "insert" /\ Inserted(q) /\ unanswered' = unanswered \cup {ChurchOf[q]}
    BY <1>9, <2>2 DEF WriteFails, Inserted, Fault, Goto
  <2>3. CASE pc[q] = "update" /\ Pointed(q) /\ unanswered' = unanswered \cup {ChurchOf[q]}
    BY <1>9, <2>3 DEF WriteFails, Pointed, Fault, Goto
  <2>. QED
    BY <1>9, <2>1, <2>2, <2>3 DEF WriteFails
<1>10. ASSUME NEW q \in Requests, Fail(q) PROVE BrokenOnlyUnanswered'
  BY <1>10, NewAssetIsNew DEF Fail, Fault, Done, Goto, table
<1>11. CASE UNCHANGED vars
  BY <1>11 DEF vars
<1>. HIDE DEF Inv, TypeOK, Shape, Apart, Written, Replaced, Kept, BrokenOnlyUnanswered
<1>. QED
  BY <1>1, <1>2, <1>3, <1>4, <1>5, <1>6, <1>7, <1>8, <1>9, <1>10, <1>11
  DEF Next, Serve

LEMMA InitInv == ASSUME Init PROVE Inv
<1>1. TypeOK /\ Shape /\ Apart
  BY OrganisationsAssumption DEF Init, TypeOK, Shape, Apart
<1>2. Written /\ Replaced /\ Kept /\ BrokenOnlyUnanswered
  BY DEF Init, Written, Replaced, Kept, BrokenOnlyUnanswered
<1>. QED
  BY <1>1, <1>2 DEF Inv

LEMMA InvNext == ASSUME Inv, [Next]_vars PROVE Inv'
<1>1. TypeOK' /\ Shape' /\ Apart'
  BY TypeOKNext, ShapeNext, ApartNext
<1>2. Written' /\ Replaced' /\ Kept' /\ BrokenOnlyUnanswered'
  BY WrittenNext, ReplacedNext, KeptNext, BrokenOnlyUnansweredNext
<1>. QED
  BY <1>1, <1>2 DEF Inv

\* The logo a church points at is stored, unless a write to that church was
\* applied and reported as failed.
THEOREM LogosStand == Spec => []BrokenOnlyUnanswered
<1>1. Init => Inv
  BY InitInv
<1>2. Inv /\ [Next]_vars => Inv'
  BY InvNext
<1>3. Inv => BrokenOnlyUnanswered
  BY DEF Inv
<1>. QED
  BY <1>1, <1>2, <1>3, PTL DEF Spec

-----------------------------------------------------------------------------
(* Files that nobody needs any more.                                       *)

\* Requests that have yet to write their row; the churches at least one of them
\* will take the present logo away from; and the files that are left over even if
\* every request now goes through.
Pending == {q \in Requests : pc[q] \in {"upload", "probe", "insert", "update"}}
Matched == {c \in Churches : \E q \in Pending : ChurchOf[q] = c /\ old[q] = logo[c]}
Lost == {a \in stored :
    /\ \A c \in Churches : logo[c] # a
    /\ \A q \in Requests :
          /\ new[q] = a => pc[q] = "cleanup"
          /\ old[q] = a => pc[q] = "rollback"}

\* Each request that writes may lose a file, but for one that replaces the present
\* logo: what is lost and may be lost is paid for.
PaidFor == Cardinality(Lost) + Cardinality(Pending) <= faults + Cardinality(Matched)

RowShape ==
    /\ IsFiniteSet(stored)
    /\ \A c \in Churches : ~Registered(c) => logo[c] = NoAsset
    /\ \A q \in Requests : pc[q] = "update" => Registered(ChurchOf[q])

LEMMA RowShapeNext == ASSUME Inv, RowShape, [Next]_vars PROVE RowShape'
<1>. USE OrganisationsAssumption DEF Inv, TypeOK, Shape
<1>1. IsFiniteSet(stored')
  <2>1. \/ stored' = stored
        \/ \E a : stored' = stored \cup {a}
        \/ \E a : stored' = stored \ {a}
    BY DEF Next, Serve, Register, ReplaceLogo, Upload, Probe, Insert, Update, Cleanup, Rollback,
           WriteFails, Fail, vars
  <2>2. IsFiniteSet(stored)
    BY DEF RowShape
  <2>3. ASSUME NEW a, stored' = stored \cup {a} PROVE IsFiniteSet(stored')
    <3>1. IsFiniteSet(stored \cup {a})
      BY <2>2, FS_AddElement
    <3> QED BY <2>3, <3>1, Zenon
  <2>4. ASSUME NEW a, stored' = stored \ {a} PROVE IsFiniteSet(stored')
    <3>1. IsFiniteSet(stored \ {a})
      BY <2>2, FS_RemoveElement
    <3> QED BY <2>4, <3>1, Zenon
  <2> QED BY <2>1, <2>2, <2>3, <2>4
<1>2. ASSUME NEW c \in Churches, Registered(c) PROVE Registered(c)'
  <2>1. \/ slug' = slug
        \/ \E q \in Requests : Inserted(q) /\ pc[q] = "insert"
    BY DEF Next, Serve, Register, ReplaceLogo, Upload, Probe, Insert, Update, Cleanup, Rollback,
           WriteFails, Pointed, Fail, vars, table
  <2>2. ASSUME NEW q \in Requests, Inserted(q), pc[q] = "insert" PROVE slug'[c] # NoSlug
    BY <1>2, <2>2, CandidatesAreSlugs DEF Inserted, Registered
  <2> QED BY <1>2, <2>1, <2>2 DEF Registered
<1>3. ASSUME NEW c \in Churches, ~Registered(c)' PROVE logo'[c] = NoAsset
  <2>1. logo[c] = NoAsset
    BY <1>2, <1>3 DEF RowShape
  <2>2. CASE logo' = logo
    BY <2>1, <2>2
  <2>3. CASE logo' # logo
    <3>1. PICK q \in Requests :
              \/ Inserted(q) /\ pc[q] = "insert"
              \/ Pointed(q) /\ pc[q] = "update"
      BY <2>3 DEF Next, Serve, Register, ReplaceLogo, Upload, Probe, Insert, Update, Cleanup,
                  Rollback, WriteFails, Fail, vars, table
    <3>2. c # ChurchOf[q]
      <4>1. CASE Inserted(q) /\ pc[q] = "insert"
        BY <1>3, <3>1, <4>1, CandidatesAreSlugs DEF Inserted, Registered
      <4>2. CASE Pointed(q) /\ pc[q] = "update"
        BY <1>2, <1>3, <4>2 DEF RowShape
      <4> QED BY <3>1, <4>1, <4>2
    <3> QED BY <2>1, <3>1, <3>2 DEF Inserted, Pointed
  <2> QED BY <2>2, <2>3
<1>4. ASSUME NEW q \in Requests, pc'[q] = "update" PROVE Registered(ChurchOf[q])'
  <2>1. pc[q] = "update" \/ Registered(ChurchOf[q])
    BY <1>4 DEF Next, Serve, Register, ReplaceLogo, Upload, Probe, Insert, Update, Cleanup,
                Rollback, WriteFails, Fail, vars, Goto, Done
  <2> QED BY <1>2, <2>1 DEF RowShape
<1> QED BY <1>1, <1>2, <1>3, <1>4 DEF RowShape

\* These sets are finite, now and after a step.
LEMMA FiniteSets ==
    ASSUME IsFiniteSet(Requests), OrganisationsAssumption
    PROVE  /\ IsFiniteSet(Pending) /\ IsFiniteSet(Matched) /\ IsFiniteSet(Matched')
           /\ IsFiniteSet(stored) => IsFiniteSet(Lost)
<1> DEFINE T == {ChurchOf[q] : q \in Requests}
<1>1. ChurchOf \in Surjection(Requests, T)
  BY OrganisationsAssumption DEF Surjection, OrganisationsAssumption
<1>2. IsFiniteSet(T)
  BY <1>1, FS_Surjection
<1>3. Matched \in SUBSET T /\ Matched' \in SUBSET T
  BY DEF Matched, Pending
<1>4. Pending \in SUBSET Requests /\ Lost \in SUBSET stored
  BY DEF Pending, Lost
<1> HIDE DEF T
<1> QED BY <1>2, <1>3, <1>4, FS_Subset

\* How many elements a set may gain or lose.
LEMMA Grows ==
    ASSUME NEW S, IsFiniteSet(S), NEW T, NEW x, T \subseteq S \cup {x}
    PROVE  /\ IsFiniteSet(T) /\ Cardinality(T) <= Cardinality(S) + 1
           /\ Cardinality(T) \in Nat /\ Cardinality(S) \in Nat
           /\ T \subseteq S => Cardinality(T) <= Cardinality(S)
           /\ x \in S /\ x \notin T => Cardinality(T) <= Cardinality(S) - 1
<1>1. /\ IsFiniteSet(S \cup {x}) /\ IsFiniteSet(S \ {x})
      /\ Cardinality(S \cup {x}) = IF x \in S THEN Cardinality(S) ELSE Cardinality(S) + 1
      /\ Cardinality(S \ {x}) = IF x \in S THEN Cardinality(S) - 1 ELSE Cardinality(S)
  BY FS_AddElement, FS_RemoveElement
<1>2. IsFiniteSet(T) /\ Cardinality(T) <= Cardinality(S \cup {x})
  BY <1>1, FS_Subset
<1>3. Cardinality(T) \in Nat /\ Cardinality(S) \in Nat
  BY <1>2, FS_CardinalityType
<1>4. T \subseteq S => Cardinality(T) <= Cardinality(S)
  BY FS_Subset
<1>5. x \in S /\ x \notin T => Cardinality(T) <= Cardinality(S \ {x})
  <2> SUFFICES ASSUME x \in S, x \notin T PROVE Cardinality(T) <= Cardinality(S \ {x})
    OBVIOUS
  <2>1. T \in SUBSET (S \ {x})
    OBVIOUS
  <2> QED BY <1>1, <2>1, FS_Subset
<1> QED BY <1>1, <1>2, <1>3, <1>4, <1>5

LEMMA GrowsByTwo ==
    ASSUME NEW S, IsFiniteSet(S), NEW T, NEW x, NEW y, T \subseteq S \cup {x, y}
    PROVE  Cardinality(T) <= Cardinality(S) + 2
<1>1. /\ IsFiniteSet(S \cup {x}) /\ Cardinality(S \cup {x}) <= Cardinality(S) + 1
      /\ Cardinality(S \cup {x}) \in Nat /\ Cardinality(S) \in Nat
  BY Grows
<1>2. T \subseteq (S \cup {x}) \cup {y}
  OBVIOUS
<1>3. Cardinality(T) <= Cardinality(S \cup {x}) + 1 /\ Cardinality(T) \in Nat
  BY <1>1, <1>2, Grows
<1> QED BY <1>1, <1>3

\* The balance of a request that starts or goes on ...
LEMMA StartBalance ==
    ASSUME IsFiniteSet(Requests), OrganisationsAssumption, IsFiniteSet(stored), PaidFor,
           faults \in Nat, NEW q, NEW c, NEW x,
           Lost' \subseteq Lost \cup {x}, Pending' \subseteq Pending \cup {q},
           Matched \subseteq Matched',
           \/ Lost' \subseteq Lost /\ c \notin Matched /\ c \in Matched' /\ faults' = faults
           \/ Lost' \subseteq Lost /\ faults' = faults + 1
           \/ Lost' \subseteq Lost /\ Pending' \subseteq Pending /\ faults' = faults
           \/ Pending' \subseteq Pending /\ faults' = faults + 1
    PROVE  PaidFor'
<1>1. IsFiniteSet(Lost) /\ IsFiniteSet(Pending) /\ IsFiniteSet(Matched) /\ IsFiniteSet(Matched')
  BY FiniteSets
<1>2. /\ Cardinality(Lost') <= Cardinality(Lost) + 1
      /\ Cardinality(Lost') \in Nat /\ Cardinality(Lost) \in Nat
      /\ Lost' \subseteq Lost => Cardinality(Lost') <= Cardinality(Lost)
  BY <1>1, Grows
<1>3. /\ Cardinality(Pending') <= Cardinality(Pending) + 1
      /\ Cardinality(Pending') \in Nat /\ Cardinality(Pending) \in Nat
      /\ Pending' \subseteq Pending => Cardinality(Pending') <= Cardinality(Pending)
  BY <1>1, Grows
<1>4. /\ Cardinality(Matched) <= Cardinality(Matched')
      /\ Cardinality(Matched') \in Nat /\ Cardinality(Matched) \in Nat
      /\ c \notin Matched /\ c \in Matched' => Cardinality(Matched) <= Cardinality(Matched') - 1
  BY <1>1, Grows, Matched \subseteq Matched' \cup {c}
<1> DEFINE l == Cardinality(Lost)      ll == Cardinality(Lost')
           p == Cardinality(Pending)   pp == Cardinality(Pending')
           m == Cardinality(Matched)   mm == Cardinality(Matched')
<1>5. /\ ll \in Nat /\ l \in Nat /\ ll <= l + 1 /\ (Lost' \subseteq Lost => ll <= l)
      /\ pp \in Nat /\ p \in Nat /\ pp <= p + 1 /\ (Pending' \subseteq Pending => pp <= p)
      /\ mm \in Nat /\ m \in Nat /\ m <= mm
      /\ c \notin Matched /\ c \in Matched' => m <= mm - 1
  BY <1>2, <1>3, <1>4
<1>6. l + p <= faults + m
  BY DEF PaidFor
<1> HIDE DEF l, p, m, ll, pp, mm
<1>7. ll + pp <= faults' + mm
  BY <1>5, <1>6
<1> QED BY <1>7 DEF PaidFor, ll, pp, mm

\* ... and of one that has written its row, or gives up.
LEMMA EndBalance ==
    ASSUME IsFiniteSet(Requests), OrganisationsAssumption, IsFiniteSet(stored), PaidFor,
           faults \in Nat, NEW q \in Pending, NEW c, NEW x, NEW y,
           Lost' \subseteq Lost \cup {x, y}, Pending' \subseteq Pending, q \notin Pending',
           Matched \ {c} \subseteq Matched',
           \/ Matched \subseteq Matched'
           \/ Lost' \subseteq Lost /\ faults' = faults
           \/ Lost' \subseteq Lost \cup {x} /\ faults' = faults + 1,
           \/ Lost' \subseteq Lost \cup {x} /\ faults' = faults
           \/ faults' = faults + 1
    PROVE  PaidFor'
<1>1. IsFiniteSet(Lost) /\ IsFiniteSet(Pending) /\ IsFiniteSet(Matched) /\ IsFiniteSet(Matched')
  BY FiniteSets
<1>2. IsFiniteSet(Lost') /\ Cardinality(Lost') <= Cardinality(Lost) + 2
  <2>1. IsFiniteSet(Lost \cup {x, y})
    <3>1. IsFiniteSet((Lost \cup {x}) \cup {y})
      BY <1>1, FS_AddElement
    <3>2. (Lost \cup {x}) \cup {y} = Lost \cup {x, y}
      OBVIOUS
    <3> QED BY <3>1, <3>2
  <2> QED BY <1>1, <2>1, GrowsByTwo, FS_Subset
<1>3. /\ Cardinality(Lost') \in Nat /\ Cardinality(Lost) \in Nat
      /\ Lost' \subseteq Lost => Cardinality(Lost') <= Cardinality(Lost)
      /\ Lost' \subseteq Lost \cup {x} => Cardinality(Lost') <= Cardinality(Lost) + 1
  <2>1. Cardinality(Lost') \in Nat /\ Cardinality(Lost) \in Nat
    BY <1>1, <1>2, FS_CardinalityType
  <2>2. Lost' \subseteq Lost \cup {x} => Cardinality(Lost') <= Cardinality(Lost) + 1
    BY <1>1, Grows
  <2>3. Lost' \subseteq Lost => Cardinality(Lost') <= Cardinality(Lost)
    BY <1>1, FS_Subset
  <2> QED BY <2>1, <2>2, <2>3
<1>4. /\ Cardinality(Pending') <= Cardinality(Pending) - 1
      /\ Cardinality(Pending') \in Nat /\ Cardinality(Pending) \in Nat
  BY <1>1, Grows, Pending' \subseteq Pending \cup {q}
<1>5. /\ Cardinality(Matched) <= Cardinality(Matched') + 1
      /\ Cardinality(Matched') \in Nat /\ Cardinality(Matched) \in Nat
      /\ Matched \subseteq Matched' => Cardinality(Matched) <= Cardinality(Matched')
  <2>1. Matched \subseteq Matched' \cup {c}
    OBVIOUS
  <2>2. Matched \subseteq Matched' => Cardinality(Matched) <= Cardinality(Matched')
    BY <1>1, FS_Subset
  <2> QED BY <1>1, <2>1, <2>2, Grows
<1> DEFINE l == Cardinality(Lost)      ll == Cardinality(Lost')
           p == Cardinality(Pending)   pp == Cardinality(Pending')
           m == Cardinality(Matched)   mm == Cardinality(Matched')
<1>6. /\ ll \in Nat /\ l \in Nat /\ ll <= l + 2
      /\ Lost' \subseteq Lost => ll <= l
      /\ Lost' \subseteq Lost \cup {x} => ll <= l + 1
      /\ pp \in Nat /\ p \in Nat /\ pp <= p - 1
      /\ mm \in Nat /\ m \in Nat /\ m <= mm + 1
      /\ Matched \subseteq Matched' => m <= mm
  BY <1>2, <1>3, <1>4, <1>5
<1>7. l + p <= faults + m
  BY DEF PaidFor
<1> HIDE DEF l, p, m, ll, pp, mm
<1>8. ll + pp <= faults' + mm
  BY <1>6, <1>7
<1> QED BY <1>8 DEF PaidFor, ll, pp, mm

\* Every step keeps the balance: <1>w for a write that was applied, <1>g for one that
\* was not, <1>d for the deletion at the end.
LEMMA PaidForNext ==
    ASSUME IsFiniteSet(Requests), Inv, RowShape, PaidFor, [Next]_vars
    PROVE  PaidFor'
<1>. USE OrganisationsAssumption DEF Inv, TypeOK, Shape
<1>0. faults \in Nat /\ IsFiniteSet(stored)
  BY DEF RowShape
<1>c. ASSUME NEW q \in Requests PROVE ChurchOf[q] \in Churches
  OBVIOUS
<1>1. ASSUME NEW q \in Requests, Register(q) PROVE PaidFor'
  <2> DEFINE c == ChurchOf[q]
  <2>1. /\ pc[q] = "idle" /\ logo[c] = NoAsset /\ old[q] = NoAsset /\ new[q] = NoAsset
        /\ \A r \in Requests : ChurchOf[r] = c => pc[r] = "idle"
    BY <1>1 DEF Register, Alone, RowShape
  <2>2. /\ UNCHANGED <<logo, stored, new, old, faults>>
        /\ \A r \in Requests \ {q} : pc'[r] = pc[r]
        /\ pc'[q] \in {"upload", "probe"}
    BY <1>1 DEF Register, Goto, table
  <2>3. Lost' \subseteq Lost
    BY <2>1, <2>2 DEF Lost
  <2>4. Pending' \subseteq Pending \cup {q}
    BY <2>2 DEF Pending
  <2>5. c \notin Matched
    BY <2>1 DEF Matched, Pending
  <2>6. c \in Matched' /\ Matched \subseteq Matched'
    BY <2>1, <2>2 DEF Matched, Pending
  <2> QED BY <1>0, <2>2, <2>3, <2>4, <2>5, <2>6, StartBalance
<1>2. ASSUME NEW q \in Requests, ReplaceLogo(q) PROVE PaidFor'
  <2> DEFINE c == ChurchOf[q]
  <2>1. /\ pc[q] = "idle" /\ UNCHANGED <<logo, stored, new>>
        /\ \A r \in Requests \ {q} : pc'[r] = pc[r] /\ old'[r] = old[r]
        /\ pc'[q] = "upload" /\ old'[q] = logo[c]
        /\ old[q] = NoAsset
    BY <1>2 DEF ReplaceLogo, Goto, table
  <2>2. Lost' \subseteq Lost
    <3> SUFFICES ASSUME NEW a \in Lost' PROVE a \in Lost
      OBVIOUS
    <3>1. a \in stored /\ \A d \in Churches : logo[d] # a
      BY <2>1 DEF Lost
    <3>2. new[q] # a /\ old[q] # a
      BY <2>1, <3>1
    <3>3. \A r \in Requests : /\ new[r] = a => pc[r] = "cleanup"
                              /\ old[r] = a => pc[r] = "rollback"
      BY <2>1, <3>2 DEF Lost
    <3> QED BY <3>1, <3>3 DEF Lost
  <2>3. Pending' \subseteq Pending \cup {q}
    BY <2>1 DEF Pending
  <2>4. c \in Matched' /\ Matched \subseteq Matched'
    BY <2>1 DEF Matched, Pending
  <2>5. CASE Alone(q)
    <3>1. c \notin Matched
      BY <2>5 DEF Alone, Matched, Pending
    <3> QED BY <1>0, <1>2, <2>2, <2>3, <2>4, <2>5, <3>1, StartBalance DEF ReplaceLogo
  <2>6. CASE ~Alone(q)
    BY <1>0, <1>2, <2>2, <2>3, <2>4, <2>6, StartBalance DEF ReplaceLogo, Fault
  <2> QED BY <2>5, <2>6
<1>3. ASSUME NEW q \in Requests, Upload(q) PROVE PaidFor'
  <2>1. /\ UNCHANGED <<logo, old, faults>> /\ stored' = stored \cup {NewAsset}
        /\ pc[q] = "upload" /\ new[q] = NoAsset
        /\ \A r \in Requests \ {q} : pc'[r] = pc[r] /\ new'[r] = new[r]
        /\ pc'[q] \in {"update", "probe"} /\ new'[q] = NewAsset
    BY <1>3 DEF Upload, Goto, table
  <2>2. Lost' \subseteq Lost
    <3> SUFFICES ASSUME NEW a \in Lost' PROVE a \in Lost
      OBVIOUS
    <3>1. a \in stored \cup {NewAsset} /\ \A d \in Churches : logo[d] # a
      BY <2>1 DEF Lost
    <3>2. a # NewAsset
      BY <2>1 DEF Lost
    <3>3. new[q] # a
      BY <2>1, <1>3, <3>1, <3>2
    <3>4. \A r \in Requests : /\ new[r] = a => pc[r] = "cleanup"
                              /\ old[r] = a => pc[r] = "rollback"
      BY <2>1, <3>3 DEF Lost
    <3> QED BY <3>1, <3>2, <3>4 DEF Lost
  <2>3. Pending' \subseteq Pending /\ Matched \subseteq Matched'
    BY <2>1 DEF Pending, Matched
  <2> QED BY <1>0, <2>1, <2>2, <2>3, StartBalance
<1>4. ASSUME NEW q \in Requests, Probe(q) PROVE PaidFor'
  <2>1. /\ UNCHANGED <<logo, old, new, stored, faults>> /\ pc[q] = "probe"
        /\ \A r \in Requests \ {q} : pc'[r] = pc[r]
        /\ pc'[q] \in {"insert", "probe"}
    BY <1>4 DEF Probe, Goto, table
  <2>2. Lost' \subseteq Lost
    BY <2>1 DEF Lost
  <2>3. Pending' \subseteq Pending /\ Matched \subseteq Matched'
    BY <2>1 DEF Pending, Matched
  <2> QED BY <1>0, <2>1, <2>2, <2>3, StartBalance
<1>w. ASSUME NEW q \in Requests, pc[q] \in {"insert", "update"},
             logo' = [logo EXCEPT ![ChurchOf[q]] = new[q]], stored' = stored,
             \A r \in Requests \ {q} : pc'[r] = pc[r] /\ new'[r] = new[r] /\ old'[r] = old[r],
             \/ faults' = faults /\ pc[q] = "insert" /\ pc'[q] = "idle"
             \/ faults' = faults /\ pc[q] = "update" /\ pc'[q] = "cleanup" /\ UNCHANGED <<new, old>>
             \/ faults' = faults + 1 /\ pc'[q] = "rollback" /\ UNCHANGED <<new, old>>
      PROVE  PaidFor'
  <2> DEFINE c == ChurchOf[q]
             L == logo[c]
  <2>0. logo'[c] = new[q] /\ \A d \in Churches \ {c} : logo'[d] = logo[d]
    BY <1>w
  <2>1. Pending' \subseteq Pending /\ q \in Pending /\ q \notin Pending'
    BY <1>w DEF Pending
  <2>2. Matched \ {c} \subseteq Matched'
    <3> SUFFICES ASSUME NEW d \in Matched, d # c PROVE d \in Matched'
      OBVIOUS
    <3>1. PICK r \in Pending : ChurchOf[r] = d /\ old[r] = logo[d]
      BY DEF Matched
    <3>2. r # q /\ pc'[r] = pc[r] /\ old'[r] = old[r] /\ r \in Requests /\ d \in Churches
      BY <1>w, <3>1 DEF Pending, Matched
    <3>3. r \in Pending' /\ logo'[d] = logo[d]
      BY <2>0, <3>1, <3>2 DEF Pending
    <3> QED BY <3>1, <3>2, <3>3 DEF Matched
  <2>3. Lost' \subseteq Lost \cup {old[q], L}
    <3> SUFFICES ASSUME NEW a \in Lost', a # old[q], a # L PROVE a \in Lost
      OBVIOUS
    <3>1. a \in stored /\ \A d \in Churches : logo'[d] # a
      BY <1>w DEF Lost
    <3>2. \A d \in Churches : logo[d] # a
      BY <2>0, <3>1
    <3>3. a # new[q]
      BY <2>0, <3>1
    <3>4. ASSUME NEW r \in Requests
          PROVE  /\ new[r] = a => pc[r] = "cleanup"
                 /\ old[r] = a => pc[r] = "rollback"
      <4>1. CASE r = q
        BY <3>3, <4>1
      <4>2. CASE r # q
        <5>1. new'[r] = a => pc'[r] = "cleanup"
          BY DEF Lost
        <5>2. old'[r] = a => pc'[r] = "rollback"
          BY DEF Lost
        <5> QED BY <1>w, <4>2, <5>1, <5>2
      <4> QED BY <4>1, <4>2
    <3> QED BY <3>1, <3>2, <3>4 DEF Lost
  <2>4. faults' = faults => Lost' \subseteq Lost \cup {L}
    <3> SUFFICES ASSUME faults' = faults, old[q] \in Lost' PROVE old[q] \in Lost \cup {L}
      BY <2>3
    <3>1. old[q] \in Assets
      BY <1>w DEF Lost
    <3>2. pc[q] = "update" /\ pc'[q] = "cleanup" /\ old' = old
      BY <1>0, <1>w, <3>1
    <3> QED BY <3>2 DEF Lost
  <2>5. c \in Matched => \/ Lost' \subseteq Lost /\ faults' = faults
                         \/ Lost' \subseteq Lost \cup {old[q]} /\ faults' = faults + 1
    <3> SUFFICES ASSUME c \in Matched, L \in Lost', L # old[q] \/ faults' = faults
                 PROVE  FALSE
      BY <1>w, <2>3, <2>4
    <3>1. PICK r \in Pending : ChurchOf[r] = c /\ old[r] = L
      BY DEF Matched
    <3>2. L \in Assets /\ L # NoAsset
      BY <1>w DEF Lost
    <3>3. r \in Requests /\ pc[r] \in {"upload", "update"}
      BY <3>1, <3>2 DEF Pending
    <3>4. CASE r = q
      <4>1. faults' = faults /\ pc'[q] = "cleanup" /\ old' = old
        BY <1>0, <1>w, <3>1, <3>3, <3>4
      <4> QED BY <3>1, <3>4, <4>1 DEF Lost
    <3>5. CASE r # q
      <4>1. pc'[r] \in {"upload", "update"} /\ old'[r] = L
        BY <1>w, <3>1, <3>3, <3>5
      <4> QED BY <3>3, <4>1 DEF Lost
    <3> QED BY <3>4, <3>5
  <2>t. Matched \subseteq Matched' \/ c \in Matched
    BY <2>2
  <2> HIDE DEF L, c
  <2>6. CASE faults' = faults
    <3>1. Lost' \subseteq Lost \cup {L, L}
      BY <2>4, <2>6
    <3>2. Matched \subseteq Matched' \/ Lost' \subseteq Lost
      BY <1>0, <2>5, <2>6, <2>t
    <3>3. Lost' \subseteq Lost \cup {L} /\ faults' = faults
      BY <2>4, <2>6
    <3> QED BY <1>0, <2>1, <2>2, <3>1, <3>2, <3>3, EndBalance
  <2>7. CASE faults' = faults + 1
    <3>1. Matched \subseteq Matched' \/ Lost' \subseteq Lost \cup {old[q]}
      BY <2>5, <2>t
    <3> QED BY <1>0, <2>1, <2>2, <2>3, <2>7, <3>1, EndBalance
  <2> QED BY <1>w, <2>6, <2>7
<1>g. ASSUME NEW q \in Pending, UNCHANGED <<logo, stored>>,
             \A r \in Requests \ {q} : pc'[r] = pc[r] /\ new'[r] = new[r] /\ old'[r] = old[r],
             UNCHANGED <<new, old>> /\ pc'[q] = "rollback",
             \/ faults' = faults + 1
             \/ pc[q] = "insert" /\ faults' = faults
      PROVE  PaidFor'
  <2> DEFINE c == ChurchOf[q]
  <2>1. Pending' \subseteq Pending /\ q \notin Pending' /\ q \in Requests
    BY <1>g DEF Pending
  <2>2. Matched \ {c} \subseteq Matched'
    BY <1>g DEF Matched, Pending
  <2>3. ASSUME NEW a \in Lost', a # old[q] PROVE a \in Lost
    <3>1. a \in stored /\ \A d \in Churches : logo[d] # a
      BY <1>g DEF Lost
    <3>2. new[q] # a
      BY <1>g, <2>1 DEF Lost
    <3>3. \A r \in Requests : /\ new[r] = a => pc[r] = "cleanup"
                              /\ old[r] = a => pc[r] = "rollback"
      BY <1>g, <2>3, <3>2 DEF Lost
    <3> QED BY <3>1, <3>3 DEF Lost
  <2>4. /\ Lost' \subseteq Lost \cup {old[q]}
        /\ Lost' \subseteq Lost \cup {old[q], old[q]}
    BY <2>3
  <2>5. pc[q] = "insert" => Lost' \subseteq Lost
    <3> SUFFICES ASSUME pc[q] = "insert", NEW a \in Lost' PROVE a \in Lost
      OBVIOUS
    <3>1. old[q] = NoAsset /\ a \in Assets
      BY <1>g, <2>1 DEF Lost
    <3> QED BY <2>3, <3>1
  <2>6. Lost' \subseteq Lost => Lost' \subseteq Lost \cup {old[q]}
    OBVIOUS
  <2> HIDE DEF c
  <2>7. CASE faults' = faults + 1
    BY <1>0, <2>1, <2>2, <2>4, <2>7, EndBalance
  <2>8. CASE pc[q] = "insert" /\ faults' = faults
    <3>1. Lost' \subseteq Lost /\ faults' = faults
      BY <2>5, <2>8
    <3> QED BY <1>0, <2>1, <2>2, <2>4, <3>1, EndBalance
  <2> QED BY <1>g, <2>7, <2>8
<1>5. ASSUME NEW q \in Requests, Insert(q) PROVE PaidFor'
  <2>1. CASE Inserted(q) /\ Done(q)
    <3>1. /\ logo' = [logo EXCEPT ![ChurchOf[q]] = new[q]] /\ stored' = stored
          /\ \A r \in Requests \ {q} : pc'[r] = pc[r] /\ new'[r] = new[r] /\ old'[r] = old[r]
          /\ pc[q] = "insert" /\ pc'[q] = "idle" /\ faults' = faults
      BY <1>5, <2>1 DEF Insert, Inserted, Done, Goto
    <3> QED BY <1>w, <3>1
  <2>2. CASE Goto(q, "rollback") /\ UNCHANGED <<table, new, old, tried>>
    <3>1. /\ q \in Pending /\ UNCHANGED <<logo, stored, new, old>> /\ pc[q] = "insert"
          /\ \A r \in Requests \ {q} : pc'[r] = pc[r] /\ new'[r] = new[r] /\ old'[r] = old[r]
          /\ pc'[q] = "rollback" /\ faults' = faults
      BY <1>5, <2>2 DEF Insert, Goto, table, Pending
    <3> QED BY <1>g, <3>1
  <2> QED BY <1>5, <2>1, <2>2 DEF Insert
<1>6. ASSUME NEW q \in Requests, Update(q) PROVE PaidFor'
  <2>1. /\ logo' = [logo EXCEPT ![ChurchOf[q]] = new[q]] /\ stored' = stored
        /\ \A r \in Requests \ {q} : pc'[r] = pc[r]
        /\ pc[q] = "update" /\ pc'[q] = "cleanup" /\ UNCHANGED <<new, old, faults>>
    BY <1>6 DEF Update, Pointed, Goto
  <2> QED BY <1>w, <2>1
<1>d. ASSUME NEW q \in Requests, Done(q), logo' = logo, pc[q] \in {"cleanup", "rollback"},
             stored' \subseteq stored,
             \/ faults' = faults /\ pc[q] = "cleanup" /\ stored' = stored \ {old[q]}
             \/ faults' = faults /\ pc[q] = "rollback" /\ stored' = stored \ {new[q]}
             \/ faults' = faults + 1
      PROVE  PaidFor'
  <2> DEFINE x == IF pc[q] = "cleanup" THEN old[q] ELSE new[q]
  <2>1. /\ \A r \in Requests \ {q} : pc'[r] = pc[r] /\ new'[r] = new[r] /\ old'[r] = old[r]
        /\ pc'[q] = "idle" /\ new'[q] = NoAsset /\ old'[q] = NoAsset
    BY <1>d DEF Done, Goto
  <2>2. Pending' \subseteq Pending /\ Matched \subseteq Matched'
    BY <1>d, <2>1 DEF Pending, Matched
  <2>3. Lost' \subseteq Lost \cup {x}
    <3> SUFFICES ASSUME NEW a \in Lost', a # x PROVE a \in Lost
      OBVIOUS
    <3>1. /\ new[q] = a => pc[q] = "cleanup"
          /\ old[q] = a => pc[q] = "rollback"
      BY <1>d
    <3>2. ASSUME NEW r \in Requests, r # q
          PROVE  /\ new[r] = a => pc[r] = "cleanup"
                 /\ old[r] = a => pc[r] = "rollback"
      BY <2>1, <3>2 DEF Lost
    <3>3. a \in stored /\ \A d \in Churches : logo[d] # a
      BY <1>d DEF Lost
    <3> QED BY <3>1, <3>2, <3>3 DEF Lost
  <2>4. faults' = faults => Lost' \subseteq Lost
    <3>1. faults' = faults => x \notin stored'
      BY <1>0, <1>d
    <3>2. Lost' \subseteq stored'
      BY DEF Lost
    <3> HIDE DEF x
    <3> QED BY <2>3, <3>1, <3>2
  <2> HIDE DEF x
  <2> QED BY <1>0, <1>d, <2>2, <2>3, <2>4, StartBalance
<1>7. ASSUME NEW q \in Requests, Cleanup(q) \/ Rollback(q) PROVE PaidFor'
  <2>1. /\ Done(q) /\ logo' = logo /\ faults' = faults /\ stored' \subseteq stored
        /\ \/ pc[q] = "cleanup" /\ stored' = stored \ {old[q]}
           \/ pc[q] = "rollback" /\ stored' = stored \ {new[q]}
    BY <1>7 DEF Cleanup, Rollback, table
  <2> QED BY <1>d, <2>1
<1>8. ASSUME NEW q \in Requests, WriteFails(q) PROVE PaidFor'
  <2>1. /\ pc[q] \in {"insert", "update"} /\ faults' = faults + 1 /\ pc'[q] = "rollback"
        /\ UNCHANGED <<stored, new, old>>
        /\ \A r \in Requests \ {q} : pc'[r] = pc[r] /\ new'[r] = new[r] /\ old'[r] = old[r]
    BY <1>8 DEF WriteFails, Fault, Goto
  <2>2. CASE UNCHANGED <<table, unanswered>>
    <3>1. q \in Pending /\ logo' = logo
      BY <2>1, <2>2 DEF Pending, table
    <3> QED BY <1>g, <2>1, <3>1
  <2>3. CASE Inserted(q) \/ Pointed(q)
    <3>1. logo' = [logo EXCEPT ![ChurchOf[q]] = new[q]]
      BY <2>3 DEF Inserted, Pointed
    <3> QED BY <1>w, <2>1, <3>1
  <2> QED BY <1>8, <2>2, <2>3 DEF WriteFails
<1>9. ASSUME NEW q \in Requests, Fail(q) PROVE PaidFor'
  <2>1. /\ pc[q] # "idle" /\ faults' = faults + 1 /\ Done(q) /\ logo' = logo
    BY <1>9 DEF Fail, Fault, table
  <2>2. CASE pc[q] \in {"cleanup", "rollback"}
    <3>1. stored' \subseteq stored
      BY <1>9, <2>2 DEF Fail
    <3> QED BY <1>d, <2>1, <2>2, <3>1
  <2>3. CASE q \in Pending
    <3> DEFINE c == ChurchOf[q]
               x == IF pc[q] = "upload" THEN NewAsset ELSE new[q]
               y == old[q]
    <3>1. /\ \A r \in Requests \ {q} : pc'[r] = pc[r] /\ new'[r] = new[r] /\ old'[r] = old[r]
          /\ pc'[q] = "idle" /\ new'[q] = NoAsset /\ old'[q] = NoAsset
      BY <2>1 DEF Done, Goto
    <3>2. Pending' \subseteq Pending /\ q \notin Pending'
      BY <3>1 DEF Pending
    <3>3. Matched \ {c} \subseteq Matched'
      BY <2>1, <3>1 DEF Matched, Pending
    <3>4. stored' \subseteq stored \cup {x} /\ (pc[q] = "upload" => new[q] = NoAsset)
      BY <1>9, <2>3 DEF Fail, Pending
    <3>5. Lost' \subseteq Lost \cup {x, y}
      <4> SUFFICES ASSUME NEW a \in Lost', a # x, a # y PROVE a \in Lost
        OBVIOUS
      <4>1. a \in stored /\ \A d \in Churches : logo[d] # a
        BY <2>1, <3>4 DEF Lost
      <4>2. new[q] # a
        BY <3>4, <4>1
      <4>3. \A r \in Requests : /\ new[r] = a => pc[r] = "cleanup"
                                /\ old[r] = a => pc[r] = "rollback"
        <5> SUFFICES ASSUME NEW r \in Requests, r # q
                     PROVE  /\ new[r] = a => pc[r] = "cleanup"
                            /\ old[r] = a => pc[r] = "rollback"
          BY <4>2
        <5>1. /\ new'[r] = a => pc'[r] = "cleanup"
              /\ old'[r] = a => pc'[r] = "rollback"
          BY DEF Lost
        <5> QED BY <3>1, <5>1
      <4> QED BY <4>1, <4>3 DEF Lost
    <3>6. Matched \subseteq Matched' \/ Lost' \subseteq Lost \cup {x}
      <4> SUFFICES ASSUME c \in Matched, c \notin Matched', y \in Lost' PROVE FALSE
        BY <3>3, <3>5
      <4>1. PICK r \in Pending : ChurchOf[r] = c /\ old[r] = logo[c]
        BY DEF Matched
      <4>2. CASE r = q
        BY <2>1, <4>1, <4>2 DEF Lost
      <4>3. CASE r # q
        BY <2>1, <3>1, <4>1, <4>3 DEF Matched, Pending
      <4> QED BY <4>2, <4>3
    <3> HIDE DEF x, y, c
    <3> QED BY <1>0, <2>1, <2>3, <3>2, <3>3, <3>5, <3>6, EndBalance
  <2> QED BY <2>1, <2>2, <2>3 DEF Pending
<1>10. CASE UNCHANGED vars
  <2>1. Lost' = Lost /\ Pending' = Pending /\ Matched' = Matched /\ faults' = faults
    BY <1>10 DEF vars, Lost, Pending, Matched
  <2> QED BY <2>1 DEF PaidFor
<1>. HIDE DEF Inv, TypeOK, Shape
<1>. QED
  BY <1>1, <1>2, <1>3, <1>4, <1>5, <1>6, <1>7, <1>8, <1>9, <1>10 DEF Next, Serve


LEMMA PaidForInit == ASSUME Init PROVE RowShape /\ PaidFor
<1>1. stored = {} /\ faults = 0 /\ \A q \in Requests : pc[q] = "idle"
  BY DEF Init
<1>2. RowShape
  BY <1>1, FS_EmptySet DEF Init, RowShape
<1>3. Pending = {} /\ Lost = {} /\ Matched = {}
  BY <1>1 DEF Pending, Lost, Matched
<1> QED BY <1>1, <1>2, <1>3, FS_EmptySet DEF PaidFor

\* No more churches than requests have a replacement under way.
LEMMA MatchedAtMostPending ==
    ASSUME IsFiniteSet(Requests), OrganisationsAssumption
    PROVE  Cardinality(Matched) <= Cardinality(Pending)
<1> DEFINE P == {q \in Pending : old[q] = logo[ChurchOf[q]]}
           F == [q \in P |-> ChurchOf[q]]
<1>1. IsFiniteSet(Pending) /\ IsFiniteSet(P) /\ Cardinality(P) <= Cardinality(Pending)
  <2>1. P \in SUBSET Pending
    OBVIOUS
  <2> QED BY <2>1, FiniteSets, FS_Subset
<1>2. F \in Surjection(P, Matched)
  <2>1. \A q \in P : F[q] \in Matched
    BY DEF Matched, Pending, OrganisationsAssumption
  <2>2. \A c \in Matched : \E q \in P : F[q] = c
    BY DEF Matched
  <2> QED BY <2>1, <2>2 DEF Surjection
<1>3. Cardinality(Matched) <= Cardinality(P) /\ Cardinality(Matched) \in Nat
  <2> HIDE DEF P, F
  <2> QED BY <1>1, <1>2, FS_Surjection, FS_CardinalityType
<1> QED BY <1>1, <1>3, FS_CardinalityType

\* However registrations and replacements overlap, and whichever calls fail
\* (createOrganisation and setLogo of org.service.ts, which retry nothing): files
\* nobody needs are at most as many as failing calls and overlapping replacements.
THEOREM StraysArePaidFor == ASSUME IsFiniteSet(Requests) PROVE Spec => []StraysPaidFor
<1> DEFINE Paid == Inv /\ RowShape /\ PaidFor
<1>1. Init => Paid
  BY InitInv, PaidForInit
<1>2. Paid /\ [Next]_vars => Paid'
  BY InvNext, RowShapeNext, PaidForNext
<1>3. Paid => StraysPaidFor
  <2> SUFFICES ASSUME Inv, RowShape, PaidFor PROVE StraysPaidFor
    OBVIOUS
  <2> DEFINE S == {a \in stored : ~Needed(a)}
  <2>1. IsFiniteSet(Lost) /\ IsFiniteSet(Pending) /\ IsFiniteSet(Matched)
    BY OrganisationsAssumption, FiniteSets DEF RowShape
  <2>2. S \in SUBSET Lost
    BY DEF Lost, Needed
  <2>3. Cardinality(S) <= Cardinality(Lost) /\ IsFiniteSet(S)
    BY <2>1, <2>2, FS_Subset
  <2>4. Cardinality(Matched) <= Cardinality(Pending)
    BY OrganisationsAssumption, MatchedAtMostPending
  <2>5. Cardinality(S) \in Nat /\ Cardinality(Lost) \in Nat /\ faults \in Nat
        /\ Cardinality(Pending) \in Nat /\ Cardinality(Matched) \in Nat
    BY <2>1, <2>3, OrganisationsAssumption, FS_CardinalityType DEF Inv, TypeOK
  <2>6. Cardinality(S) <= faults
    <3> HIDE DEF S
    <3> QED BY <2>3, <2>4, <2>5 DEF PaidFor
  <2> QED BY <2>6 DEF StraysPaidFor
<1> QED
  BY <1>1, <1>2, <1>3, PTL DEF Spec

=============================================================================
