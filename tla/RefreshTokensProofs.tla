------------------------- MODULE RefreshTokensProofs -------------------------
(***************************************************************************)
(* For any number of members, devices, tabs and tokens: a spent token      *)
(* obtains nothing any more, nobody is taken for a thief, and no session   *)
(* is left behind, without a glitch of that member's own.                  *)
(*                                                                         *)
(* The argument: a token stays with one device from the moment it is       *)
(* inserted (Owners, Apart), and as long as a member has had no glitch     *)
(* each of the member's devices has at most one request under way, so that *)
(* a revoked token is still held only while its successor is on its way    *)
(* (Orderly, Underway).                                                    *)
(***************************************************************************)
EXTENDS RefreshTokens, TLAPS

Carry == \A q \in Tabs : carried[q] = NoToken <=> pc[q] = "idle"
Rows == \A t \in Tokens : row[t] = "none" => owner[t] = NoMember

Owners ==
    /\ user \in [Devices -> Members]
    /\ \A d \in Devices : held[d] # NoToken => owner[held[d]] = user[d]
    /\ \A q \in Tabs : carried[q] # NoToken => owner[carried[q]] = Whose(q)

Apart ==
    /\ \A d, e \in Devices : held[d] = held[e] /\ held[d] # NoToken => d = e
    /\ \A q \in Tabs, d \in Devices :
            carried[q] = held[d] /\ held[d] # NoToken => DeviceOf[q] = d
    /\ \A q, r \in Tabs :
            carried[q] = carried[r] /\ carried[q] # NoToken => DeviceOf[q] = DeviceOf[r]

Steps == \A q \in Tabs :
    /\ pc[q] \in {"issue", "revokeAll"} => row[carried[q]] = "revoked"
    /\ pc[q] = "refused" => row[carried[q]] \in {"expired", "revoked"}

SpentRevoked == \A t \in spent : row[t] = "revoked"

Orderly == \A q \in Tabs : Whose(q) \notin glitched =>
    /\ pc[q] # "revokeAll"
    /\ \A r \in Tabs : DeviceOf[r] = DeviceOf[q] /\ pc[r] # "idle" /\ pc[q] # "idle" => r = q
    /\ pc[q] \in {"revoke", "issue", "refused"} => held[DeviceOf[q]] = carried[q]
    /\ pc[q] = "answer" =>
            /\ row[carried[q]] # "revoked"
            /\ held[DeviceOf[q]] = NoToken \/ row[held[DeviceOf[q]]] = "revoked"

Underway == \A d \in Devices :
    user[d] \notin glitched /\ held[d] # NoToken /\ row[held[d]] = "revoked" =>
        \E q \in Tabs : DeviceOf[q] = d /\ pc[q] \in {"issue", "answer"}

Inv ==
    /\ TypeOK /\ Carry /\ Rows /\ Owners /\ Apart /\ Steps
    /\ SpentRevoked /\ SpentForGood
    /\ Orderly /\ Underway /\ AlarmHasACause /\ StraysHaveACause
-----------------------------------------------------------------------------
\* What an inserted token is: one that nobody holds or carries.
LEMMA Inserted ==
    ASSUME NEW q \in Tabs, NewToken(q)
    PROVE  \E t \in Fresh :
               /\ row' = [row EXCEPT ![t] = "active"]
               /\ owner' = [owner EXCEPT ![t] = Whose(q)]
               /\ carried' = [carried EXCEPT ![q] = t]
               /\ spent' = (spent \cup {carried[q]}) \ {t, NoToken}
               /\ pc' = [pc EXCEPT ![q] = "answer"]
<1>. DEFINE t == CHOOSE t \in Fresh : TRUE
<1>1. t \in Fresh
  BY DEF NewToken
<1>. QED
  BY <1>1 DEF NewToken

\* The type invariant.
LEMMA TypeOKNext == ASSUME Inv, [Next]_vars PROVE TypeOK'
<1>. USE RefreshTokensAssumption
        DEF Inv, boundVars, TypeOK, Carry, Owners
<1>1. ASSUME NEW q \in Tabs, SignIn(q), UNCHANGED user PROVE TypeOK'
  BY <1>1, Inserted DEF SignIn, Sends, Glitch, Fresh, Carrying, Whose
<1>2. ASSUME NEW q \in Tabs, Read(q), UNCHANGED user PROVE TypeOK'
  BY <1>2 DEF Read, Sends, Glitch, tableVars, Whose
<1>3. ASSUME NEW q \in Tabs, Revoke(q), UNCHANGED user PROVE TypeOK'
  BY <1>3 DEF Revoke, Whose
<1>4. ASSUME NEW q \in Tabs, Issue(q), UNCHANGED user PROVE TypeOK'
  BY <1>4, Inserted DEF Issue, Fresh, Carrying, Whose
<1>5. ASSUME NEW q \in Tabs, RevokeAll(q), UNCHANGED user PROVE TypeOK'
  BY <1>5 DEF RevokeAll, Live, Whose
<1>6. ASSUME NEW q \in Tabs, Refused(q), UNCHANGED user PROVE TypeOK'
  BY <1>6 DEF Refused, Done, tableVars, Whose
<1>7. ASSUME NEW q \in Tabs, Answer(q), UNCHANGED user PROVE TypeOK'
  BY <1>7 DEF Answer, Done, tableVars, Whose
<1>8. ASSUME NEW q \in Tabs, Fail(q) PROVE TypeOK'
  BY <1>8 DEF Fail, Glitch, Done, tableVars, Whose
<1>9. ASSUME NEW t \in Tokens, Expire(t) PROVE TypeOK'
  BY <1>9 DEF Expire, Whose
<1>10. CASE UNCHANGED vars
  BY <1>10 DEF vars, Whose, Fresh, Carrying
<1>. HIDE DEF Inv, TypeOK, Carry, Owners
<1>. QED
  BY <1>1, <1>2, <1>3, <1>4, <1>5, <1>6, <1>7, <1>8, <1>9, <1>10
  DEF Next, Use, Serve

\* A request carries a token until it is done.
LEMMA CarryNext == ASSUME Inv, [Next]_vars PROVE Carry'
<1>. USE RefreshTokensAssumption
        DEF Inv, boundVars, TypeOK, Carry
<1>1. ASSUME NEW q \in Tabs, SignIn(q), UNCHANGED user PROVE Carry'
  BY <1>1, Inserted DEF SignIn, Sends, Glitch, Fresh, Carrying, Whose
<1>2. ASSUME NEW q \in Tabs, Read(q), UNCHANGED user PROVE Carry'
  BY <1>2 DEF Read, Sends, Glitch, tableVars
<1>3. ASSUME NEW q \in Tabs, Revoke(q), UNCHANGED user PROVE Carry'
  BY <1>3 DEF Revoke
<1>4. ASSUME NEW q \in Tabs, Issue(q), UNCHANGED user PROVE Carry'
  BY <1>4, Inserted DEF Issue, Fresh, Carrying, Whose
<1>5. ASSUME NEW q \in Tabs, RevokeAll(q), UNCHANGED user PROVE Carry'
  BY <1>5 DEF RevokeAll, Live
<1>6. ASSUME NEW q \in Tabs, Refused(q), UNCHANGED user PROVE Carry'
  BY <1>6 DEF Refused, Done, tableVars
<1>7. ASSUME NEW q \in Tabs, Answer(q), UNCHANGED user PROVE Carry'
  BY <1>7 DEF Answer, Done, tableVars
<1>8. ASSUME NEW q \in Tabs, Fail(q) PROVE Carry'
  BY <1>8 DEF Fail, Glitch, Done, tableVars
<1>9. ASSUME NEW t \in Tokens, Expire(t) PROVE Carry'
  BY <1>9 DEF Expire
<1>10. CASE UNCHANGED vars
  BY <1>10 DEF vars, Whose, Fresh, Carrying
<1>. HIDE DEF Inv, TypeOK, Carry
<1>. QED
  BY <1>1, <1>2, <1>3, <1>4, <1>5, <1>6, <1>7, <1>8, <1>9, <1>10
  DEF Next, Use, Serve

\* Only a row that was inserted has an owner.
LEMMA RowsNext == ASSUME Inv, [Next]_vars PROVE Rows'
<1>. USE RefreshTokensAssumption
        DEF Inv, boundVars, TypeOK, Carry, Rows, Owners
<1>1. ASSUME NEW q \in Tabs, SignIn(q), UNCHANGED user PROVE Rows'
  BY <1>1, Inserted DEF SignIn, Sends, Glitch, Fresh, Carrying, Whose
<1>2. ASSUME NEW q \in Tabs, Read(q), UNCHANGED user PROVE Rows'
  BY <1>2 DEF Read, Sends, Glitch, tableVars
<1>3. ASSUME NEW q \in Tabs, Revoke(q), UNCHANGED user PROVE Rows'
  BY <1>3 DEF Revoke
<1>4. ASSUME NEW q \in Tabs, Issue(q), UNCHANGED user PROVE Rows'
  BY <1>4, Inserted DEF Issue, Fresh, Carrying, Whose
<1>5. ASSUME NEW q \in Tabs, RevokeAll(q), UNCHANGED user PROVE Rows'
  BY <1>5 DEF RevokeAll, Live
<1>6. ASSUME NEW q \in Tabs, Refused(q), UNCHANGED user PROVE Rows'
  BY <1>6 DEF Refused, Done, tableVars
<1>7. ASSUME NEW q \in Tabs, Answer(q), UNCHANGED user PROVE Rows'
  BY <1>7 DEF Answer, Done, tableVars
<1>8. ASSUME NEW q \in Tabs, Fail(q) PROVE Rows'
  BY <1>8 DEF Fail, Glitch, Done, tableVars
<1>9. ASSUME NEW t \in Tokens, Expire(t) PROVE Rows'
  BY <1>9 DEF Expire
<1>10. CASE UNCHANGED vars
  BY <1>10 DEF vars, Whose, Fresh, Carrying
<1>. HIDE DEF Inv, TypeOK, Carry, Rows, Owners
<1>. QED
  BY <1>1, <1>2, <1>3, <1>4, <1>5, <1>6, <1>7, <1>8, <1>9, <1>10
  DEF Next, Use, Serve

\* A token belongs to the member whose device has it.
LEMMA OwnersNext == ASSUME Inv, [Next]_vars PROVE Owners'
<1>. USE RefreshTokensAssumption
        DEF Inv, boundVars, TypeOK, Carry, Owners
<1>1. ASSUME NEW q \in Tabs, SignIn(q), UNCHANGED user PROVE Owners'
  BY <1>1, Inserted DEF SignIn, Sends, Glitch, Fresh, Carrying, Whose
<1>2. ASSUME NEW q \in Tabs, Read(q), UNCHANGED user PROVE Owners'
  BY <1>2 DEF Read, Sends, Glitch, tableVars, Whose
<1>3. ASSUME NEW q \in Tabs, Revoke(q), UNCHANGED user PROVE Owners'
  BY <1>3 DEF Revoke, Whose
<1>4. ASSUME NEW q \in Tabs, Issue(q), UNCHANGED user PROVE Owners'
  BY <1>4, Inserted DEF Issue, Fresh, Carrying, Whose
<1>5. ASSUME NEW q \in Tabs, RevokeAll(q), UNCHANGED user PROVE Owners'
  BY <1>5 DEF RevokeAll, Live, Whose
<1>6. ASSUME NEW q \in Tabs, Refused(q), UNCHANGED user PROVE Owners'
  BY <1>6 DEF Refused, Done, tableVars, Whose
<1>7. ASSUME NEW q \in Tabs, Answer(q), UNCHANGED user PROVE Owners'
  BY <1>7 DEF Answer, Done, tableVars, Whose
<1>8. ASSUME NEW q \in Tabs, Fail(q) PROVE Owners'
  BY <1>8 DEF Fail, Glitch, Done, tableVars, Whose
<1>9. ASSUME NEW t \in Tokens, Expire(t) PROVE Owners'
  BY <1>9 DEF Expire, Whose
<1>10. CASE UNCHANGED vars
  BY <1>10 DEF vars, Whose, Fresh, Carrying
<1>. HIDE DEF Inv, TypeOK, Carry, Owners
<1>. QED
  BY <1>1, <1>2, <1>3, <1>4, <1>5, <1>6, <1>7, <1>8, <1>9, <1>10
  DEF Next, Use, Serve

\* A token is with one device.
LEMMA ApartNext == ASSUME Inv, [Next]_vars PROVE Apart'
<1>. USE RefreshTokensAssumption
        DEF Inv, boundVars, TypeOK, Carry, Apart
<1>1. ASSUME NEW q \in Tabs, SignIn(q), UNCHANGED user PROVE Apart'
  BY <1>1, Inserted DEF SignIn, Sends, Glitch, Fresh, Carrying, Whose
<1>2. ASSUME NEW q \in Tabs, Read(q), UNCHANGED user PROVE Apart'
  BY <1>2 DEF Read, Sends, Glitch, tableVars
<1>3. ASSUME NEW q \in Tabs, Revoke(q), UNCHANGED user PROVE Apart'
  BY <1>3 DEF Revoke
<1>4. ASSUME NEW q \in Tabs, Issue(q), UNCHANGED user PROVE Apart'
  BY <1>4, Inserted DEF Issue, Fresh, Carrying, Whose
<1>5. ASSUME NEW q \in Tabs, RevokeAll(q), UNCHANGED user PROVE Apart'
  BY <1>5 DEF RevokeAll, Live
<1>6. ASSUME NEW q \in Tabs, Refused(q), UNCHANGED user PROVE Apart'
  BY <1>6 DEF Refused, Done, tableVars
<1>7. ASSUME NEW q \in Tabs, Answer(q), UNCHANGED user PROVE Apart'
  BY <1>7 DEF Answer, Done, tableVars
<1>8. ASSUME NEW q \in Tabs, Fail(q) PROVE Apart'
  BY <1>8 DEF Fail, Glitch, Done, tableVars
<1>9. ASSUME NEW t \in Tokens, Expire(t) PROVE Apart'
  BY <1>9 DEF Expire
<1>10. CASE UNCHANGED vars
  BY <1>10 DEF vars, Whose, Fresh, Carrying
<1>. HIDE DEF Inv, TypeOK, Carry, Apart
<1>. QED
  BY <1>1, <1>2, <1>3, <1>4, <1>5, <1>6, <1>7, <1>8, <1>9, <1>10
  DEF Next, Use, Serve

\* What the rows of the tokens under way say.
LEMMA StepsNext == ASSUME Inv, [Next]_vars PROVE Steps'
<1>. USE RefreshTokensAssumption
        DEF Inv, boundVars, TypeOK, Carry, Steps, Rows, Owners
<1>1. ASSUME NEW q \in Tabs, SignIn(q), UNCHANGED user PROVE Steps'
  BY <1>1, Inserted DEF SignIn, Sends, Glitch, Fresh, Carrying, Whose
<1>2. ASSUME NEW q \in Tabs, Read(q), UNCHANGED user PROVE Steps'
  BY <1>2 DEF Read, Sends, Glitch, tableVars
<1>3. ASSUME NEW q \in Tabs, Revoke(q), UNCHANGED user PROVE Steps'
  BY <1>3 DEF Revoke
<1>4. ASSUME NEW q \in Tabs, Issue(q), UNCHANGED user PROVE Steps'
  BY <1>4, Inserted DEF Issue, Fresh, Carrying, Whose
<1>5. ASSUME NEW q \in Tabs, RevokeAll(q), UNCHANGED user PROVE Steps'
  BY <1>5 DEF RevokeAll, Live
<1>6. ASSUME NEW q \in Tabs, Refused(q), UNCHANGED user PROVE Steps'
  BY <1>6 DEF Refused, Done, tableVars
<1>7. ASSUME NEW q \in Tabs, Answer(q), UNCHANGED user PROVE Steps'
  BY <1>7 DEF Answer, Done, tableVars
<1>8. ASSUME NEW q \in Tabs, Fail(q) PROVE Steps'
  BY <1>8 DEF Fail, Glitch, Done, tableVars
<1>9. ASSUME NEW t \in Tokens, Expire(t) PROVE Steps'
  BY <1>9 DEF Expire
<1>10. CASE UNCHANGED vars
  BY <1>10 DEF vars, Whose, Fresh, Carrying
<1>. HIDE DEF Inv, TypeOK, Carry, Steps, Rows, Owners
<1>. QED
  BY <1>1, <1>2, <1>3, <1>4, <1>5, <1>6, <1>7, <1>8, <1>9, <1>10
  DEF Next, Use, Serve

\* Spent tokens are revoked.
LEMMA SpentRevokedNext == ASSUME Inv, [Next]_vars PROVE SpentRevoked'
<1>. USE RefreshTokensAssumption
        DEF Inv, boundVars, TypeOK, Carry, Rows, Owners, Steps, SpentRevoked
<1>1. ASSUME NEW q \in Tabs, SignIn(q), UNCHANGED user PROVE SpentRevoked'
  BY <1>1, Inserted DEF SignIn, Sends, Glitch, Fresh, Carrying, Whose
<1>2. ASSUME NEW q \in Tabs, Read(q), UNCHANGED user PROVE SpentRevoked'
  BY <1>2 DEF Read, Sends, Glitch, tableVars, Whose
<1>3. ASSUME NEW q \in Tabs, Revoke(q), UNCHANGED user PROVE SpentRevoked'
  BY <1>3 DEF Revoke, Whose
<1>4. ASSUME NEW q \in Tabs, Issue(q), UNCHANGED user PROVE SpentRevoked'
  BY <1>4, Inserted DEF Issue, Fresh, Carrying, Whose
<1>5. ASSUME NEW q \in Tabs, RevokeAll(q), UNCHANGED user PROVE SpentRevoked'
  BY <1>5 DEF RevokeAll, Live, Whose
<1>6. ASSUME NEW q \in Tabs, Refused(q), UNCHANGED user PROVE SpentRevoked'
  BY <1>6 DEF Refused, Done, tableVars, Whose
<1>7. ASSUME NEW q \in Tabs, Answer(q), UNCHANGED user PROVE SpentRevoked'
  BY <1>7 DEF Answer, Done, tableVars, Whose
<1>8. ASSUME NEW q \in Tabs, Fail(q) PROVE SpentRevoked'
  BY <1>8 DEF Fail, Glitch, Done, tableVars, Whose
<1>9. ASSUME NEW t \in Tokens, Expire(t) PROVE SpentRevoked'
  BY <1>9 DEF Expire, Whose
<1>10. CASE UNCHANGED vars
  BY <1>10 DEF vars, Whose, Fresh, Carrying
<1>. HIDE DEF Inv, TypeOK, Carry, Rows, Owners, Steps, SpentRevoked
<1>. QED
  BY <1>1, <1>2, <1>3, <1>4, <1>5, <1>6, <1>7, <1>8, <1>9, <1>10
  DEF Next, Use, Serve

\* A request that presented a spent token is refused.
LEMMA SpentForGoodNext == ASSUME Inv, [Next]_vars PROVE SpentForGood'
<1>. USE RefreshTokensAssumption
        DEF Inv, boundVars, TypeOK, Carry, SpentRevoked, SpentForGood
<1>1. ASSUME NEW q \in Tabs, SignIn(q), UNCHANGED user PROVE SpentForGood'
  BY <1>1, Inserted DEF SignIn, Sends, Glitch, Fresh, Carrying, Whose
<1>2. ASSUME NEW q \in Tabs, Read(q), UNCHANGED user PROVE SpentForGood'
  BY <1>2 DEF Read, Sends, Glitch, tableVars
<1>3. ASSUME NEW q \in Tabs, Revoke(q), UNCHANGED user PROVE SpentForGood'
  BY <1>3 DEF Revoke
<1>4. ASSUME NEW q \in Tabs, Issue(q), UNCHANGED user PROVE SpentForGood'
  BY <1>4, Inserted DEF Issue, Fresh, Carrying, Whose
<1>5. ASSUME NEW q \in Tabs, RevokeAll(q), UNCHANGED user PROVE SpentForGood'
  BY <1>5 DEF RevokeAll, Live
<1>6. ASSUME NEW q \in Tabs, Refused(q), UNCHANGED user PROVE SpentForGood'
  BY <1>6 DEF Refused, Done, tableVars
<1>7. ASSUME NEW q \in Tabs, Answer(q), UNCHANGED user PROVE SpentForGood'
  BY <1>7 DEF Answer, Done, tableVars
<1>8. ASSUME NEW q \in Tabs, Fail(q) PROVE SpentForGood'
  BY <1>8 DEF Fail, Glitch, Done, tableVars
<1>9. ASSUME NEW t \in Tokens, Expire(t) PROVE SpentForGood'
  BY <1>9 DEF Expire
<1>10. CASE UNCHANGED vars
  BY <1>10 DEF vars, Whose, Fresh, Carrying
<1>. HIDE DEF Inv, TypeOK, Carry, SpentRevoked, SpentForGood
<1>. QED
  BY <1>1, <1>2, <1>3, <1>4, <1>5, <1>6, <1>7, <1>8, <1>9, <1>10
  DEF Next, Use, Serve

\* Without a glitch a device has one request under way.
LEMMA OrderlyNext == ASSUME Inv, [Next]_vars PROVE Orderly'
<1>. USE RefreshTokensAssumption
        DEF Inv, boundVars, TypeOK, Carry, Owners, Apart, Steps, Orderly, Underway
<1>1. ASSUME NEW q \in Tabs, SignIn(q), UNCHANGED user PROVE Orderly'
  BY <1>1, Inserted DEF SignIn, Sends, Glitch, Fresh, Carrying, Whose
<1>2. ASSUME NEW q \in Tabs, Read(q), UNCHANGED user PROVE Orderly'
  BY <1>2 DEF Read, Sends, Glitch, tableVars, Whose
<1>3. ASSUME NEW q \in Tabs, Revoke(q), UNCHANGED user PROVE Orderly'
  BY <1>3 DEF Revoke, Whose
<1>4. ASSUME NEW q \in Tabs, Issue(q), UNCHANGED user PROVE Orderly'
  BY <1>4, Inserted DEF Issue, Fresh, Carrying, Whose
<1>5. ASSUME NEW q \in Tabs, RevokeAll(q), UNCHANGED user PROVE Orderly'
  BY <1>5 DEF RevokeAll, Live, Whose
<1>6. ASSUME NEW q \in Tabs, Refused(q), UNCHANGED user PROVE Orderly'
  BY <1>6 DEF Refused, Done, tableVars, Whose
<1>7. ASSUME NEW q \in Tabs, Answer(q), UNCHANGED user PROVE Orderly'
  BY <1>7 DEF Answer, Done, tableVars, Whose
<1>8. ASSUME NEW q \in Tabs, Fail(q) PROVE Orderly'
  BY <1>8 DEF Fail, Glitch, Done, tableVars, Whose
<1>9. ASSUME NEW t \in Tokens, Expire(t) PROVE Orderly'
  BY <1>9 DEF Expire, Whose
<1>10. CASE UNCHANGED vars
  BY <1>10 DEF vars, Whose, Fresh, Carrying
<1>. HIDE DEF Inv, TypeOK, Carry, Owners, Apart, Steps, Orderly, Underway
<1>. QED
  BY <1>1, <1>2, <1>3, <1>4, <1>5, <1>6, <1>7, <1>8, <1>9, <1>10
  DEF Next, Use, Serve

\* Without a glitch a revoked token is held only while the next is on its way.
LEMMA UnderwayNext == ASSUME Inv, [Next]_vars PROVE Underway'
<1>. USE RefreshTokensAssumption
        DEF Inv, boundVars, TypeOK, Carry, Owners, Apart, Steps, Orderly, Underway
<1>1. ASSUME NEW q \in Tabs, SignIn(q), UNCHANGED user PROVE Underway'
  BY <1>1, Inserted DEF SignIn, Sends, Glitch, Fresh, Carrying, Whose
<1>2. ASSUME NEW q \in Tabs, Read(q), UNCHANGED user PROVE Underway'
  BY <1>2 DEF Read, Sends, Glitch, tableVars, Whose
<1>3. ASSUME NEW q \in Tabs, Revoke(q), UNCHANGED user PROVE Underway'
  BY <1>3 DEF Revoke, Whose
<1>4. ASSUME NEW q \in Tabs, Issue(q), UNCHANGED user PROVE Underway'
  BY <1>4, Inserted DEF Issue, Fresh, Carrying, Whose
<1>5. ASSUME NEW q \in Tabs, RevokeAll(q), UNCHANGED user PROVE Underway'
  BY <1>5 DEF RevokeAll, Live, Whose
<1>6. ASSUME NEW q \in Tabs, Refused(q), UNCHANGED user PROVE Underway'
  BY <1>6 DEF Refused, Done, tableVars, Whose
<1>7. ASSUME NEW q \in Tabs, Answer(q), UNCHANGED user PROVE Underway'
  BY <1>7 DEF Answer, Done, tableVars, Whose
<1>8. ASSUME NEW q \in Tabs, Fail(q) PROVE Underway'
  BY <1>8 DEF Fail, Glitch, Done, tableVars, Whose
<1>9. ASSUME NEW t \in Tokens, Expire(t) PROVE Underway'
  BY <1>9 DEF Expire, Whose
<1>10. CASE UNCHANGED vars
  BY <1>10 DEF vars, Whose, Fresh, Carrying
<1>. HIDE DEF Inv, TypeOK, Carry, Owners, Apart, Steps, Orderly, Underway
<1>. QED
  BY <1>1, <1>2, <1>3, <1>4, <1>5, <1>6, <1>7, <1>8, <1>9, <1>10
  DEF Next, Use, Serve

\* Reuse is seen only after a glitch.
LEMMA AlarmHasACauseNext == ASSUME Inv, [Next]_vars PROVE AlarmHasACause'
<1>. USE RefreshTokensAssumption
        DEF Inv, boundVars, TypeOK, Carry, Owners, Orderly, AlarmHasACause
<1>1. ASSUME NEW q \in Tabs, SignIn(q), UNCHANGED user PROVE AlarmHasACause'
  BY <1>1, Inserted DEF SignIn, Sends, Glitch, Fresh, Carrying, Whose
<1>2. ASSUME NEW q \in Tabs, Read(q), UNCHANGED user PROVE AlarmHasACause'
  BY <1>2 DEF Read, Sends, Glitch, tableVars, Whose
<1>3. ASSUME NEW q \in Tabs, Revoke(q), UNCHANGED user PROVE AlarmHasACause'
  BY <1>3 DEF Revoke, Whose
<1>4. ASSUME NEW q \in Tabs, Issue(q), UNCHANGED user PROVE AlarmHasACause'
  BY <1>4, Inserted DEF Issue, Fresh, Carrying, Whose
<1>5. ASSUME NEW q \in Tabs, RevokeAll(q), UNCHANGED user PROVE AlarmHasACause'
  BY <1>5 DEF RevokeAll, Live, Whose
<1>6. ASSUME NEW q \in Tabs, Refused(q), UNCHANGED user PROVE AlarmHasACause'
  BY <1>6 DEF Refused, Done, tableVars, Whose
<1>7. ASSUME NEW q \in Tabs, Answer(q), UNCHANGED user PROVE AlarmHasACause'
  BY <1>7 DEF Answer, Done, tableVars, Whose
<1>8. ASSUME NEW q \in Tabs, Fail(q) PROVE AlarmHasACause'
  BY <1>8 DEF Fail, Glitch, Done, tableVars, Whose
<1>9. ASSUME NEW t \in Tokens, Expire(t) PROVE AlarmHasACause'
  BY <1>9 DEF Expire, Whose
<1>10. CASE UNCHANGED vars
  BY <1>10 DEF vars, Whose, Fresh, Carrying
<1>. HIDE DEF Inv, TypeOK, Carry, Owners, Orderly, AlarmHasACause
<1>. QED
  BY <1>1, <1>2, <1>3, <1>4, <1>5, <1>6, <1>7, <1>8, <1>9, <1>10
  DEF Next, Use, Serve

\* A live token is left behind only by a glitch.
LEMMA StraysHaveACauseNext == ASSUME Inv, [Next]_vars PROVE StraysHaveACause'
<1>. USE RefreshTokensAssumption
        DEF Inv, boundVars, TypeOK, Carry, Rows, Owners, Steps, Orderly, StraysHaveACause
<1>1. ASSUME NEW q \in Tabs, SignIn(q), UNCHANGED user PROVE StraysHaveACause'
  BY <1>1, Inserted DEF SignIn, Sends, Glitch, Fresh, Carrying, Whose
<1>2. ASSUME NEW q \in Tabs, Read(q), UNCHANGED user PROVE StraysHaveACause'
  BY <1>2 DEF Read, Sends, Glitch, tableVars, Fresh, Carrying, Whose
<1>3. ASSUME NEW q \in Tabs, Revoke(q), UNCHANGED user PROVE StraysHaveACause'
  BY <1>3 DEF Revoke, Fresh, Carrying, Whose
<1>4. ASSUME NEW q \in Tabs, Issue(q), UNCHANGED user PROVE StraysHaveACause'
  BY <1>4, Inserted DEF Issue, Fresh, Carrying, Whose
<1>5. ASSUME NEW q \in Tabs, RevokeAll(q), UNCHANGED user PROVE StraysHaveACause'
  BY <1>5 DEF RevokeAll, Live, Fresh, Carrying, Whose
<1>6. ASSUME NEW q \in Tabs, Refused(q), UNCHANGED user PROVE StraysHaveACause'
  BY <1>6 DEF Refused, Done, tableVars, Fresh, Carrying, Whose
<1>7. ASSUME NEW q \in Tabs, Answer(q), UNCHANGED user PROVE StraysHaveACause'
  BY <1>7 DEF Answer, Done, tableVars, Fresh, Carrying, Whose
<1>8. ASSUME NEW q \in Tabs, Fail(q) PROVE StraysHaveACause'
  BY <1>8 DEF Fail, Glitch, Done, tableVars, Fresh, Carrying, Whose
<1>9. ASSUME NEW t \in Tokens, Expire(t) PROVE StraysHaveACause'
  BY <1>9 DEF Expire, Fresh, Carrying, Whose
<1>10. CASE UNCHANGED vars
  BY <1>10 DEF vars, Whose, Fresh, Carrying
<1>. HIDE DEF Inv, TypeOK, Carry, Rows, Owners, Steps, Orderly, StraysHaveACause
<1>. QED
  BY <1>1, <1>2, <1>3, <1>4, <1>5, <1>6, <1>7, <1>8, <1>9, <1>10
  DEF Next, Use, Serve

LEMMA InitInv == ASSUME Init PROVE Inv
<1>1. TypeOK /\ Carry /\ Rows
  BY RefreshTokensAssumption DEF Init, TypeOK, Carry, Rows
<1>2. Owners /\ Apart
  BY RefreshTokensAssumption DEF Init, Owners, Apart
<1>3. Steps /\ SpentRevoked /\ SpentForGood
  BY DEF Init, Steps, SpentRevoked, SpentForGood
<1>4. Orderly /\ Underway
  BY RefreshTokensAssumption DEF Init, Orderly, Underway
<1>5. AlarmHasACause /\ StraysHaveACause
  BY DEF Init, AlarmHasACause, StraysHaveACause, Fresh
<1>. QED
  BY <1>1, <1>2, <1>3, <1>4, <1>5 DEF Inv

LEMMA Invariance == Spec => []Inv
<1>1. Init => Inv
  BY InitInv
<1>2. Inv /\ [Next]_vars => Inv'
  <2>. SUFFICES ASSUME Inv, [Next]_vars PROVE Inv'
    OBVIOUS
  <2>1. TypeOK' /\ Carry' /\ Rows' /\ Owners' /\ Apart' /\ Steps'
    BY TypeOKNext, CarryNext, RowsNext, OwnersNext, ApartNext, StepsNext
  <2>2. SpentRevoked' /\ SpentForGood' /\ Orderly' /\ Underway'
    BY SpentRevokedNext, SpentForGoodNext, OrderlyNext, UnderwayNext
  <2>3. AlarmHasACause' /\ StraysHaveACause'
    BY AlarmHasACauseNext, StraysHaveACauseNext
  <2>. QED
    BY <2>1, <2>2, <2>3 DEF Inv
<1>. QED
  BY <1>1, <1>2, PTL DEF Spec
-----------------------------------------------------------------------------
\* The tables and requests keep their shape.
THEOREM SessionTypes == Spec => []TypeOK
<1>1. Inv => TypeOK
  BY DEF Inv
<1>. QED
  BY <1>1, Invariance, PTL

\* A token that has been exchanged, or was issued before a reuse was seen,
\* obtains nothing for whoever presents it from then on.
THEOREM SpentTokensStaySpent == Spec => []SpentForGood
<1>1. Inv => SpentForGood
  BY DEF Inv
<1>. QED
  BY <1>1, Invariance, PTL

\* Sessions are ended as stolen only after a failed, unanswered or overlapping
\* request of the same member.
THEOREM NobodyIsAccused == Spec => []AlarmHasACause
<1>1. Inv => AlarmHasACause
  BY DEF Inv
<1>. QED
  BY <1>1, Invariance, PTL

\* A live session that nobody holds is left behind only by such a request.
THEOREM NoStrays == Spec => []StraysHaveACause
<1>1. Inv => StraysHaveACause
  BY DEF Inv
<1>. QED
  BY <1>1, Invariance, PTL

=============================================================================
