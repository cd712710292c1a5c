-------------------------- MODULE Activation_proofs --------------------------
(***************************************************************************)
(* Proofs about Activation for any number of records, codes, links and     *)
(* concurrent requests, whatever fails.                                    *)
(*                                                                         *)
(* No safety property is inductive by itself.  That a code has one         *)
(* claimant needs that a claimed code stays used, which needs that only    *)
(* issued codes are used (Generate writes rows that are not issued yet)    *)
(* and that a request which is past its reads works with a code.           *)
(*                                                                         *)
(* What is linked and what is left behind follow from a second invariant   *)
(* on top of the first (LoginsOK): a link carries the code and the address *)
(* of the Start that sent it, a request works with an address some link    *)
(* proved for its record, and each identity is owned by one request, which *)
(* alone may link, delete or lose what it made.                            *)
(***************************************************************************)
EXTENDS Activation, TLAPS

(* A request past the reads of Complete knows the code it works with. *)
KnowsCode ==
    \A r \in Requests :
        pc[r] \in {"consume", "claim"} \union Claimed => work[r].code \in Codes

UsedIssued == \A k \in Codes : code[k].used => Issued(k)

CodesOK ==
    /\ KnowsCode
    /\ UsedIssued
    /\ OneLiveCode
    /\ ExclusiveClaim

IInv == TypeOK /\ CodesOK

-----------------------------------------------------------------------------
LEMMA InitTypeOK == Init => TypeOK
  <1> SUFFICES ASSUME Init PROVE TypeOK
    OBVIOUS
  <1>1. NoCode \in CodeRow /\ NoToken \in TokenRow /\ NoAccount \in Account
          /\ NoWork \in Work
    BY ActivationAssumption DEF NoCode, CodeRow, NoToken, TokenRow, NoAccount,
       Account, NoWork, Work
  <1> QED
    BY <1>1, ActivationAssumption DEF Init, TypeOK, Steps

(* The types of what a request changes in its own row of pc and work. *)
LEMMA DoneType ==
    ASSUME TypeOK, NEW r \in Requests, Done(r)
    PROVE  pc' \in [Requests -> Steps] /\ work' \in [Requests -> Work]
  BY DEF TypeOK, Done, Steps, NoWork, Work

LEMMA GoToType ==
    ASSUME TypeOK, NEW r \in Requests, NEW s \in Steps, GoTo(r, s)
    PROVE  pc' \in [Requests -> Steps]
  BY DEF TypeOK, GoTo

LEMMA FaultType ==
    ASSUME TypeOK, Fault \/ UNCHANGED faults
    PROVE  faults' \in 0..MaxFaults
  BY ActivationAssumption DEF TypeOK, Fault

(* The types of a row whose lock changes. *)
LEMMA LockType ==
    ASSUME TypeOK, NEW k, NEW n, k \in Codes => n \in 0..MaxFailures,
           code' = [code EXCEPT ![k].failures = n, ![k].locked = @ \/ n >= MaxFailures]
    PROVE  code' \in [Codes -> CodeRow]
  <1>1. CASE k \notin Codes
    BY <1>1 DEF TypeOK
  <1>2. CASE k \in Codes
    <2>1. code[k] \in CodeRow
      BY <1>2 DEF TypeOK
    <2> DEFINE a == [code[k] EXCEPT !.failures = n]
               b == [a EXCEPT !.locked = @ \/ n >= MaxFailures]
    <2>2. a \in CodeRow
      BY <1>2, <2>1 DEF CodeRow
    <2>3. (a.locked \/ n >= MaxFailures) \in BOOLEAN
      OBVIOUS
    <2> HIDE DEF a
    <2>4. b \in CodeRow
      BY <2>2, <2>3 DEF CodeRow
    <2>5. code' = [code EXCEPT ![k] = b]
      BY <1>2 DEF TypeOK, a
    <2> QED
      BY <2>4, <2>5 DEF TypeOK
  <1> QED
    BY <1>1, <1>2

LEMMA ResetType ==
    ASSUME TypeOK, NEW k,
           code' = [code EXCEPT ![k].failures = 0, ![k].locked = FALSE]
    PROVE  code' \in [Codes -> CodeRow]
  <1>1. CASE k \notin Codes
    BY <1>1 DEF TypeOK
  <1>2. CASE k \in Codes
    <2> DEFINE a == [code[k] EXCEPT !.failures = 0]
               b == [a EXCEPT !.locked = FALSE]
    <2>1. code[k] \in CodeRow
      BY <1>2 DEF TypeOK
    <2>2. a \in CodeRow
      BY <2>1, ActivationAssumption DEF CodeRow
    <2> HIDE DEF a
    <2>3. b \in CodeRow
      BY <2>2 DEF CodeRow
    <2>4. code' = [code EXCEPT ![k] = b]
      BY <1>2 DEF TypeOK, a
    <2> QED
      BY <2>3, <2>4 DEF TypeOK
  <1> QED
    BY <1>1, <1>2

LEMMA StartType ==
    ASSUME TypeOK, NEW r \in People, Start(r)
    PROVE  TypeOK'
  <1> r \in Requests
    BY DEF Requests
  <1> USE DEF settings, tables
  <1>1. ASSUME NEW k \in Codes, StartMismatch(r, k) PROVE TypeOK'
    <2>1. work' \in [Requests -> Work]
      BY <1>1 DEF StartMismatch, TypeOK, Work
    <2> QED
      BY <1>1, <2>1, GoToType DEF StartMismatch, TypeOK, Steps
  <1>2. ASSUME NEW k \in Codes, NEW e \in Emails, StartMatch(r, k, e) PROVE TypeOK'
    <2> DEFINE v == [work[r] EXCEPT !.code = k]
               w == [v EXCEPT !.email = e]
    <2>2. v \in Work
      BY DEF TypeOK, Work
    <2>3. w \in Work
      <3> HIDE DEF v
      <3> QED
        BY <2>2 DEF Work
    <2>4. work' = [work EXCEPT ![r] = w]
      BY <1>2 DEF StartMatch, TypeOK
    <2>1. work' \in [Requests -> Work]
      <3> HIDE DEF w
      <3> QED
        BY <2>3, <2>4 DEF TypeOK
    <2> QED
      BY <1>2, <2>1, GoToType DEF StartMatch, TypeOK, Steps
  <1>3. CASE RecordFailure(r)
    <2> DEFINE k == work[r].code
               n == IF code[k].failures < MaxFailures THEN code[k].failures + 1
                                                      ELSE MaxFailures
    <2>1. k \in Codes => n \in 0..MaxFailures
      BY ActivationAssumption DEF TypeOK, CodeRow
    <2>2. code' = [code EXCEPT ![k].failures = n, ![k].locked = @ \/ n >= MaxFailures]
      BY <1>3 DEF RecordFailure
    <2> HIDE DEF k, n
    <2>3. code' \in [Codes -> CodeRow]
      BY <2>1, <2>2, LockType
    <2> QED
      BY <1>3, <2>3, DoneType DEF RecordFailure, TypeOK
  <1>4. CASE ResetFailures(r)
    <2> DEFINE k == work[r].code
    <2>1. code' = [code EXCEPT ![k].failures = 0, ![k].locked = FALSE]
      BY <1>4 DEF ResetFailures
    <2> HIDE DEF k
    <2>2. code' \in [Codes -> CodeRow]
      BY <2>1, ResetType
    <2> QED
      BY <1>4, <2>2, GoToType DEF ResetFailures, TypeOK, Steps
  <1>5. CASE EmailInUse(r)
    BY <1>5, DoneType DEF EmailInUse, TypeOK
  <1>6. ASSUME NEW t \in Tokens, CreateEmailToken(r, t) PROVE TypeOK'
    <2>1. token' \in [Tokens -> TokenRow]
      BY <1>6 DEF CreateEmailToken, TypeOK, TokenRow, Work, NoToken
    <2> QED
      BY <1>6, <2>1, DoneType DEF CreateEmailToken, TypeOK
  <1> QED
    BY <1>1, <1>2, <1>3, <1>4, <1>5, <1>6 DEF Start

(* The types of rows in which one column changes. *)
LEMMA CodeUsedType ==
    ASSUME TypeOK, NEW x, NEW v \in BOOLEAN,
           code' = [code EXCEPT ![x].used = v]
    PROVE  code' \in [Codes -> CodeRow]
  <1>1. CASE x \notin Codes
    BY <1>1 DEF TypeOK
  <1>2. CASE x \in Codes
    <2> DEFINE b == [code[x] EXCEPT !.used = v]
    <2>1. code[x] \in CodeRow
      BY <1>2 DEF TypeOK
    <2>2. b \in CodeRow
      BY <2>1 DEF CodeRow
    <2>3. code' = [code EXCEPT ![x] = b]
      BY <1>2 DEF TypeOK
    <2> QED
      BY <2>2, <2>3 DEF TypeOK
  <1> QED
    BY <1>1, <1>2

LEMMA TokenUsedType ==
    ASSUME TypeOK, NEW x, NEW v \in BOOLEAN,
           token' = [token EXCEPT ![x].used = v]
    PROVE  token' \in [Tokens -> TokenRow]
  <1>1. CASE x \notin Tokens
    BY <1>1 DEF TypeOK
  <1>2. CASE x \in Tokens
    <2> DEFINE b == [token[x] EXCEPT !.used = v]
    <2>1. token[x] \in TokenRow
      BY <1>2 DEF TypeOK
    <2>2. b \in TokenRow
      BY <2>1 DEF TokenRow
    <2>3. token' = [token EXCEPT ![x] = b]
      BY <1>2 DEF TypeOK
    <2> QED
      BY <2>2, <2>3 DEF TypeOK
  <1> QED
    BY <1>1, <1>2

LEMMA RoleType ==
    ASSUME TypeOK, NEW x, NEW v \in BOOLEAN,
           account' = [account EXCEPT ![x].role = v]
    PROVE  account' \in [Users -> Account]
  <1>1. CASE x \notin Users
    BY <1>1 DEF TypeOK
  <1>2. CASE x \in Users
    <2> DEFINE b == [account[x] EXCEPT !.role = v]
    <2>1. account[x] \in Account
      BY <1>2 DEF TypeOK
    <2>2. b \in Account
      BY <2>1 DEF Account
    <2>3. account' = [account EXCEPT ![x] = b]
      BY <1>2 DEF TypeOK
    <2> QED
      BY <2>2, <2>3 DEF TypeOK
  <1> QED
    BY <1>1, <1>2

LEMMA WorkUserType ==
    ASSUME TypeOK, NEW x, NEW v \in Users,
           work' = [work EXCEPT ![x].user = v]
    PROVE  work' \in [Requests -> Work]
  <1>1. CASE x \notin Requests
    BY <1>1 DEF TypeOK
  <1>2. CASE x \in Requests
    <2> DEFINE b == [work[x] EXCEPT !.user = v]
    <2>1. work[x] \in Work
      BY <1>2 DEF TypeOK
    <2>2. b \in Work
      BY <2>1 DEF Work
    <2>3. work' = [work EXCEPT ![x] = b]
      BY <1>2 DEF TypeOK
    <2> QED
      BY <2>2, <2>3 DEF TypeOK
  <1> QED
    BY <1>1, <1>2

(* The rows a request of Complete writes. *)
LEMMA CompleteType ==
    ASSUME TypeOK, KnowsCode, NEW r \in People, Complete(r)
    PROVE  TypeOK'
  <1> r \in Requests
    BY DEF Requests
  <1> USE DEF settings, tables
  <1>1. ASSUME NEW t \in Tokens, BeginComplete(r, t) PROVE TypeOK'
    <2>1. token[t].code \in Codes \union {None} /\ token[t].email \in Emails \union {None}
      BY DEF TypeOK, TokenRow
    <2> DEFINE c == token[t].code
               e == token[t].email
               w1 == [work[r] EXCEPT !.token = t]
               w2 == [w1 EXCEPT !.code = c]
               w3 == [w2 EXCEPT !.email = e]
    <2>2. work' = [work EXCEPT ![r] = w3]
      BY <1>1 DEF BeginComplete, TypeOK
    <2> HIDE DEF c, e
    <2>3. w1 \in Work
      BY DEF TypeOK, Work
    <2> HIDE DEF w1
    <2>4. w2 \in Work
      BY <2>1, <2>3 DEF Work, c
    <2> HIDE DEF w2
    <2>5. w3 \in Work
      BY <2>1, <2>4 DEF Work, e
    <2> HIDE DEF w3
    <2>6. work' \in [Requests -> Work]
      BY <2>2, <2>5 DEF TypeOK
    <2> QED
      BY <1>1, <2>6, GoToType DEF BeginComplete, TypeOK, Steps
  <1>2. CASE ConsumeToken(r)
    <2>1. token' \in [Tokens -> TokenRow]
      BY <1>2, TokenUsedType DEF ConsumeToken, TypeOK
    <2>2. work' \in [Requests -> Work] /\ pc' \in [Requests -> Steps]
      BY <1>2, DoneType, GoToType DEF ConsumeToken, TypeOK, Steps
    <2> QED
      BY <1>2, <2>1, <2>2 DEF ConsumeToken, TypeOK
  <1>3. CASE ClaimCode(r)
    <2>1. code' \in [Codes -> CodeRow]
      BY <1>3, CodeUsedType DEF ClaimCode, TypeOK
    <2>2. work' \in [Requests -> Work] /\ pc' \in [Requests -> Steps]
      BY <1>3, DoneType, GoToType DEF ClaimCode, TypeOK, Steps
    <2> QED
      BY <1>3, <2>1, <2>2 DEF ClaimCode, TypeOK
  <1>4. CASE CheckEmail(r)
    BY <1>4, GoToType DEF CheckEmail, TypeOK, Steps
  <1>5. ASSUME NEW u \in Users, CreateAccount(r, u) PROVE TypeOK'
    <2>1. code[work[r].code].rec \in Records \union {None}
      BY <1>5 DEF CreateAccount, KnowsCode, Claimed, TypeOK, CodeRow
    <2>2. work[r].email \in Emails \union {None}
      BY DEF TypeOK, Work
    <2>3. account' \in [Users -> Account]
      BY <1>5, <2>1, <2>2 DEF CreateAccount, TypeOK, Account
    <2>4. work' \in [Requests -> Work]
      BY <1>5, WorkUserType DEF CreateAccount, TypeOK
    <2>5. pc' \in [Requests -> Steps]
      BY <1>5, GoToType DEF CreateAccount, Steps
    <2>6. faults' \in 0..MaxFaults
      BY <1>5, FaultType DEF CreateAccount
    <2> QED
      BY <1>5, <2>3, <2>4, <2>5, <2>6 DEF CreateAccount, TypeOK
  <1>6. CASE CreateAccountFails(r)
    BY <1>6, GoToType DEF CreateAccountFails, TypeOK, Steps
  <1>7. CASE CreateRow(r)
    <2>1. users' \in [Users -> Emails \union {None}]
      BY <1>7 DEF CreateRow, TypeOK, Work
    <2>2. pc' \in [Requests -> Steps]
      BY <1>7, GoToType DEF CreateRow, Steps
    <2>3. faults' \in 0..MaxFaults
      BY <1>7, FaultType DEF CreateRow
    <2> QED
      BY <1>7, <2>1, <2>2, <2>3 DEF CreateRow, TypeOK
  <1>8. CASE AssignRole(r)
    <2>1. account' \in [Users -> Account]
      BY <1>8, RoleType DEF AssignRole, TypeOK
    <2>2. pc' \in [Requests -> Steps]
      BY <1>8, GoToType DEF AssignRole, Steps
    <2> QED
      BY <1>8, <2>1, <2>2 DEF AssignRole, TypeOK
  <1>9. CASE LinkRecord(r)
    <2>1. login' \in [Records -> Users \union {None}]
      BY <1>9 DEF LinkRecord, TypeOK, Work
    <2>2. pc' \in [Requests -> Steps] /\ work' \in [Requests -> Work]
      BY <1>9, GoToType, DoneType DEF LinkRecord, Steps, TypeOK
    <2>3. faults' \in 0..MaxFaults
      BY <1>9, FaultType DEF LinkRecord
    <2> QED
      BY <1>9, <2>1, <2>2, <2>3 DEF LinkRecord, TypeOK
  <1>10. CASE UndoAccount(r)
    <2>0. NoAccount \in Account
      BY DEF NoAccount, Account
    <2>1. account' \in [Users -> Account]
      BY <1>10, <2>0 DEF UndoAccount, TypeOK
    <2>2. pc' \in [Requests -> Steps]
      BY <1>10, GoToType DEF UndoAccount, Steps
    <2>3. faults' \in 0..MaxFaults
      BY <1>10, FaultType DEF UndoAccount
    <2> QED
      BY <1>10, <2>1, <2>2, <2>3 DEF UndoAccount, TypeOK
  <1>11. CASE UndoRow(r)
    <2>1. users' \in [Users -> Emails \union {None}]
      BY <1>11 DEF UndoRow, TypeOK
    <2>2. login' \in [Records -> Users \union {None}]
      BY <1>11 DEF UndoRow, TypeOK
    <2>3. pc' \in [Requests -> Steps]
      BY <1>11, GoToType DEF UndoRow, Steps
    <2>4. faults' \in 0..MaxFaults
      BY <1>11, FaultType DEF UndoRow
    <2> QED
      BY <1>11, <2>1, <2>2, <2>3, <2>4 DEF UndoRow, TypeOK
  <1>12. CASE ReleaseCode(r)
    <2>1. code' \in [Codes -> CodeRow]
      BY <1>12, CodeUsedType DEF ReleaseCode, TypeOK
    <2>2. faults' \in 0..MaxFaults
      BY <1>12, FaultType DEF ReleaseCode
    <2> QED
      BY <1>12, <2>1, <2>2, DoneType DEF ReleaseCode, TypeOK
  <1> QED
    BY <1>1, <1>2, <1>3, <1>4, <1>5, <1>6, <1>7, <1>8, <1>9, <1>10, <1>11, <1>12
       DEF Complete

LEMMA AdminType ==
    ASSUME TypeOK, NEW a \in Admins, Administer(a)
    PROVE  TypeOK'
  <1> a \in Requests
    BY DEF Requests
  <1> USE DEF settings, tables
  <1>1. ASSUME NEW T \in SUBSET Records, BeginGenerate(a, T) PROVE TypeOK'
    <2>1. work' \in [Requests -> Work]
      BY <1>1 DEF BeginGenerate, TypeOK, Work
    <2> QED
      BY <1>1, <2>1, GoToType DEF BeginGenerate, TypeOK, Steps
  <1>2. ASSUME NEW b \in Batches, IssueCodes(a, b) PROVE TypeOK'
    <2> DEFINE T == work[a].targets
    <2>1. T \subseteq Records
      BY DEF TypeOK, Work
    <2>2. PICK new \in [T -> {k \in Codes : ~Issued(k)}] :
            code' = [k \in Codes |->
                IF \E p \in T : new[p] = k
                THEN [NoCode EXCEPT !.rec = CHOOSE p \in T : new[p] = k, !.batch = b]
                ELSE IF Live(k) /\ code[k].rec \in T
                THEN [code[k] EXCEPT !.revoked = TRUE]
                ELSE code[k]]
      BY <1>2 DEF IssueCodes
    <2> HIDE DEF T
    <2>3. ASSUME NEW k \in Codes PROVE code'[k] \in CodeRow
      <3>1. CASE \E p \in T : new[p] = k
        <4> DEFINE p == CHOOSE p \in T : new[p] = k
        <4>1. p \in Records
          BY <2>1, <3>1
        <4>2. code'[k] = [NoCode EXCEPT !.rec = p, !.batch = b]
          BY <2>2, <3>1
        <4> HIDE DEF p
        <4>3. code'[k] = [rec |-> p, batch |-> b, used |-> FALSE, revoked |-> FALSE,
                          expired |-> FALSE, failures |-> 0, locked |-> FALSE]
          BY <4>2 DEF NoCode
        <4> QED
          BY <4>1, <4>3, ActivationAssumption DEF CodeRow
      <3>2. CASE ~\E p \in T : new[p] = k
        <4>1. code[k] \in CodeRow
          BY DEF TypeOK
        <4>2. [code[k] EXCEPT !.revoked = TRUE] \in CodeRow
          BY <4>1 DEF CodeRow
        <4> QED
          BY <2>2, <3>2, <4>1, <4>2
      <3> QED
        BY <3>1, <3>2
    <2>4. code' \in [Codes -> CodeRow]
      BY <2>2, <2>3
    <2> QED
      BY <1>2, <2>4, DoneType DEF IssueCodes, TypeOK
  <1>3. ASSUME NEW u \in Users, BeginDeleteOrphan(a, u) PROVE TypeOK'
    <2>1. work' \in [Requests -> Work]
      BY <1>3, WorkUserType DEF BeginDeleteOrphan
    <2> QED
      BY <1>3, <2>1, GoToType DEF BeginDeleteOrphan, TypeOK, Steps
  <1>4. CASE DeleteOrphan(a)
    <2>1. NoAccount \in Account
      BY DEF NoAccount, Account
    <2>2. account' \in [Users -> Account]
      BY <1>4, <2>1 DEF DeleteOrphan, TypeOK
    <2> QED
      BY <1>4, <2>2, DoneType DEF DeleteOrphan, TypeOK
  <1> QED
    BY <1>1, <1>2, <1>3, <1>4 DEF Administer

LEMMA NextType == TypeOK /\ KnowsCode /\ [Next]_vars => TypeOK'
  <1> SUFFICES ASSUME TypeOK, KnowsCode, [Next]_vars PROVE TypeOK'
    OBVIOUS
  <1> USE DEF settings, tables
  <1>1. ASSUME NEW r \in People, Start(r) \/ Complete(r) PROVE TypeOK'
    BY <1>1, StartType, CompleteType
  <1>2. ASSUME NEW r \in People, Die(r) PROVE TypeOK'
    BY <1>2, DoneType, FaultType DEF Die, TypeOK, Requests
  <1>3. ASSUME NEW a \in Admins, Administer(a) PROVE TypeOK'
    BY <1>3, AdminType
  <1>4. ASSUME NEW r \in Requests, Abandon(r) PROVE TypeOK'
    BY <1>4, DoneType DEF Abandon, TypeOK
  <1>5. ASSUME NEW roles \in SUBSET Roles, NEW w \in BOOLEAN, UpdateSettings(roles, w)
        PROVE  TypeOK'
    BY <1>5 DEF UpdateSettings, TypeOK
  <1>6. ASSUME NEW b \in Batches, RevokeBatch(b) PROVE TypeOK'
    <2>1. ASSUME NEW k \in Codes PROVE [code[k] EXCEPT !.revoked = TRUE] \in CodeRow
      BY DEF TypeOK, CodeRow
    <2>2. code' \in [Codes -> CodeRow]
      BY <1>6, <2>1 DEF RevokeBatch, TypeOK
    <2> QED
      BY <1>6, <2>2 DEF RevokeBatch, TypeOK
  <1>7. ASSUME NEW k \in Codes, ExpireCode(k) \/ LockEnds(k) PROVE TypeOK'
    <2>1. code[k] \in CodeRow
      BY DEF TypeOK
    <2>2. [code[k] EXCEPT !.expired = TRUE] \in CodeRow
            /\ [code[k] EXCEPT !.locked = FALSE] \in CodeRow
      BY <2>1 DEF CodeRow
    <2>3. code' \in [Codes -> CodeRow]
      BY <1>7, <2>2 DEF ExpireCode, LockEnds, TypeOK
    <2> QED
      BY <1>7, <2>3 DEF ExpireCode, LockEnds, TypeOK
  <1>8. ASSUME NEW t \in Tokens, ExpireToken(t) PROVE TypeOK'
    <2>1. [token[t] EXCEPT !.expired = TRUE] \in TokenRow
      BY DEF TypeOK, TokenRow
    <2>2. token' \in [Tokens -> TokenRow]
      BY <1>8, <2>1 DEF ExpireToken, TypeOK
    <2> QED
      BY <1>8, <2>2 DEF ExpireToken, TypeOK
  <1>9. CASE UNCHANGED vars
    BY <1>9 DEF vars, TypeOK
  <1> QED
    BY <1>1, <1>2, <1>3, <1>4, <1>5, <1>6, <1>7, <1>8, <1>9 DEF Next

-----------------------------------------------------------------------------
Working == {"consume", "claim"} \union Claimed

(* What the steps have in common that neither claim nor release a code and *)
(* insert none: codes keep their record and stay used, unused or revoked   *)
(* as they are, and no request begins to hold a claim.                     *)
Quiet ==
    /\ \A k \in Codes : /\ code'[k].rec = code[k].rec
                        /\ code'[k].used = code[k].used
                        /\ code[k].revoked => code'[k].revoked
    /\ \A r \in Requests :
         \/ pc'[r] \notin Working
         \/ pc'[r] \in {"consume", "claim"} /\ work'[r].code \in Codes
         \/ pc[r] \in Claimed /\ pc'[r] \in Claimed /\ work'[r].code = work[r].code

LEMMA QuietKeeps ==
    ASSUME TypeOK, KnowsCode, UsedIssued, OneLiveCode, ExclusiveClaim, Quiet
    PROVE  KnowsCode' /\ UsedIssued' /\ OneLiveCode' /\ ExclusiveClaim'
  <1>1. KnowsCode'
    BY DEF Quiet, KnowsCode, Working
  <1>2. UsedIssued'
    BY DEF Quiet, UsedIssued, Issued
  <1>3. \A k \in Codes : Live(k)' => Live(k)
    BY DEF Quiet, Live, Issued, TypeOK, CodeRow
  <1>4. OneLiveCode'
    BY <1>3 DEF Quiet, OneLiveCode
  <1>5. \A r \in Requests : pc'[r] \in Claimed =>
          pc[r] \in Claimed /\ work'[r].code = work[r].code
    BY DEF Quiet, Working, Claimed
  <1>6. ExclusiveClaim'
    BY <1>5 DEF Quiet, ExclusiveClaim, KnowsCode
  <1> QED
    BY <1>1, <1>2, <1>4, <1>6

(* A request that stays where it is is quiet. *)
LEMMA StayQuiet ==
    ASSUME KnowsCode, NEW q \in Requests, pc'[q] = pc[q], work'[q].code = work[q].code
    PROVE  \/ pc'[q] \notin Working
           \/ pc'[q] \in {"consume", "claim"} /\ work'[q].code \in Codes
           \/ pc[q] \in Claimed /\ pc'[q] \in Claimed /\ work'[q].code = work[q].code
  BY DEF KnowsCode, Working

LEMMA DoneQuiet ==
    ASSUME TypeOK, KnowsCode, NEW r \in Requests, Done(r),
           \A k \in Codes : /\ code'[k].rec = code[k].rec
                            /\ code'[k].used = code[k].used
                            /\ code[k].revoked => code'[k].revoked
    PROVE  Quiet
  <1>1. pc'[r] = "idle" /\ \A q \in Requests \ {r} : pc'[q] = pc[q] /\ work'[q] = work[q]
    BY DEF Done, TypeOK
  <1>2. pc'[r] \notin Working
    BY <1>1 DEF Working, Claimed
  <1> QED
    BY <1>1, <1>2, StayQuiet DEF Quiet

LEMMA GoToQuiet ==
    ASSUME TypeOK, KnowsCode, NEW r \in Requests, NEW s \in Steps, GoTo(r, s),
           \A q \in Requests \ {r} : work'[q] = work[q],
           \/ s \notin Working
           \/ s \in {"consume", "claim"} /\ work'[r].code \in Codes
           \/ pc[r] \in Claimed /\ s \in Claimed /\ work'[r].code = work[r].code,
           \A k \in Codes : /\ code'[k].rec = code[k].rec
                            /\ code'[k].used = code[k].used
                            /\ code[k].revoked => code'[k].revoked
    PROVE  Quiet
  <1>1. pc'[r] = s /\ \A q \in Requests \ {r} : pc'[q] = pc[q]
    BY DEF GoTo, TypeOK
  <1> QED
    BY <1>1, StayQuiet DEF Quiet

LEMMA StartQuiet ==
    ASSUME TypeOK, KnowsCode, NEW r \in People, Start(r)
    PROVE  Quiet
  <1> r \in Requests
    BY DEF Requests
  <1> USE DEF tables
  <1>1. ASSUME NEW k \in Codes, StartMismatch(r, k) PROVE Quiet
    BY <1>1, GoToQuiet DEF StartMismatch, Steps, Working, Claimed, TypeOK
  <1>2. ASSUME NEW k \in Codes, NEW e \in Emails, StartMatch(r, k, e) PROVE Quiet
    BY <1>2, GoToQuiet DEF StartMatch, Steps, Working, Claimed, TypeOK
  <1>3. CASE RecordFailure(r)
    <2>1. \A k \in Codes : code'[k].rec = code[k].rec /\ code'[k].used = code[k].used
                             /\ code'[k].revoked = code[k].revoked
      BY <1>3 DEF RecordFailure, TypeOK, CodeRow
    <2> QED
      BY <1>3, <2>1, DoneQuiet DEF RecordFailure
  <1>4. CASE ResetFailures(r)
    <2>1. \A k \in Codes : code'[k].rec = code[k].rec /\ code'[k].used = code[k].used
                             /\ code'[k].revoked = code[k].revoked
      BY <1>4 DEF ResetFailures, TypeOK, CodeRow
    <2> QED
      BY <1>4, <2>1, GoToQuiet DEF ResetFailures, Steps, Working, Claimed
  <1>5. CASE EmailInUse(r)
    BY <1>5, DoneQuiet DEF EmailInUse
  <1>6. ASSUME NEW t \in Tokens, CreateEmailToken(r, t) PROVE Quiet
    BY <1>6, DoneQuiet DEF CreateEmailToken
  <1> QED
    BY <1>1, <1>2, <1>3, <1>4, <1>5, <1>6 DEF Start

(* Complete, but for the two steps that claim and release. *)
LEMMA CompleteQuiet ==
    ASSUME TypeOK, KnowsCode, NEW r \in People, Complete(r),
           ~(ClaimCode(r) /\ Usable(work[r].code)),
           ~(ReleaseCode(r) /\ code' # code)
    PROVE  Quiet
  <1> r \in Requests
    BY DEF Requests
  <1> USE DEF tables
  <1>0. \A q \in Requests : work[q] \in Work
    BY DEF TypeOK
  <1>1. ASSUME NEW t \in Tokens, BeginComplete(r, t) PROVE Quiet
    <2>1. token[t].code \in Codes
      BY <1>1 DEF BeginComplete, Valid, TypeOK, TokenRow
    <2>2. work'[r].code = token[t].code /\ \A q \in Requests \ {r} : work'[q] = work[q]
      BY <1>0, <1>1 DEF BeginComplete, TypeOK, Work
    <2> QED
      BY <1>1, <2>1, <2>2, GoToQuiet DEF BeginComplete, Steps
  <1>2. CASE ConsumeToken(r)
    <2>1. CASE Valid(work[r].token)
      <3>1. work[r].code \in Codes
        BY <1>2 DEF ConsumeToken, KnowsCode
      <3> QED
        BY <1>2, <2>1, <3>1, GoToQuiet DEF ConsumeToken, Steps
    <2>2. CASE ~Valid(work[r].token)
      BY <1>2, <2>2, DoneQuiet DEF ConsumeToken
    <2> QED
      BY <2>1, <2>2
  <1>3. CASE ClaimCode(r)
    BY <1>3, DoneQuiet DEF ClaimCode
  <1>4. CASE CheckEmail(r)
    BY <1>4, GoToQuiet DEF CheckEmail, Steps, Claimed
  <1>5. ASSUME NEW u \in Users, CreateAccount(r, u) PROVE Quiet
    <2>1. work'[r].code = work[r].code /\ \A q \in Requests \ {r} : work'[q] = work[q]
      BY <1>0, <1>5 DEF CreateAccount, TypeOK, Work
    <2> QED
      BY <1>5, <2>1, GoToQuiet DEF CreateAccount, Steps, Claimed
  <1>6. CASE CreateAccountFails(r)
    BY <1>6, GoToQuiet DEF CreateAccountFails, Steps, Claimed
  <1>7. CASE CreateRow(r)
    BY <1>7, GoToQuiet DEF CreateRow, Steps, Claimed
  <1>8. CASE AssignRole(r)
    BY <1>8, GoToQuiet DEF AssignRole, Steps, Claimed
  <1>9. CASE LinkRecord(r)
    BY <1>9, GoToQuiet, DoneQuiet DEF LinkRecord, Steps, Claimed
  <1>10. CASE UndoAccount(r)
    BY <1>10, GoToQuiet DEF UndoAccount, Steps, Claimed
  <1>11. CASE UndoRow(r)
    BY <1>11, GoToQuiet DEF UndoRow, Steps, Claimed
  <1>12. CASE ReleaseCode(r)
    BY <1>12, DoneQuiet DEF ReleaseCode
  <1> QED
    BY <1>1, <1>2, <1>3, <1>4, <1>5, <1>6, <1>7, <1>8, <1>9, <1>10, <1>11, <1>12
       DEF Complete

(* ClaimActivationCode: a usable code is not claimed by anyone. *)
LEMMA ClaimKeeps ==
    ASSUME TypeOK, KnowsCode, UsedIssued, OneLiveCode, ExclusiveClaim,
           NEW r \in People, ClaimCode(r), Usable(work[r].code)
    PROVE  KnowsCode' /\ UsedIssued' /\ OneLiveCode' /\ ExclusiveClaim'
  <1> DEFINE k == work[r].code
  <1> r \in Requests
    BY DEF Requests
  <1>1. k \in Codes
    BY DEF ClaimCode, KnowsCode
  <1>2. /\ \A j \in Codes : code'[j].rec = code[j].rec /\ code'[j].revoked = code[j].revoked
        /\ \A j \in Codes \ {k} : code'[j].used = code[j].used
        /\ code'[k].used
    BY <1>1 DEF ClaimCode, TypeOK, CodeRow
  <1>3. work' = work /\ pc' = [pc EXCEPT ![r] = "email"]
    BY DEF ClaimCode, GoTo
  <1>4. KnowsCode'
    BY <1>1, <1>3 DEF KnowsCode, TypeOK
  <1>5. UsedIssued'
    BY <1>1, <1>2 DEF UsedIssued, Issued, Usable, Live
  <1>6. \A j \in Codes : Live(j)' => Live(j)
    BY <1>1, <1>2 DEF Live, Issued
  <1>7. OneLiveCode'
    BY <1>2, <1>6 DEF OneLiveCode
  <1>8. \A q \in Requests \ {r} : pc'[q] \in Claimed => pc[q] \in Claimed /\ work[q].code # k
    BY <1>3 DEF ExclusiveClaim, Usable, Live, TypeOK
  <1>9. \A q \in Requests : pc'[q] \in Claimed => code'[work'[q].code].used
    BY <1>2, <1>3, <1>8 DEF ExclusiveClaim, KnowsCode
  <1>10. ExclusiveClaim'
    BY <1>3, <1>8, <1>9 DEF ExclusiveClaim
  <1> QED
    BY <1>4, <1>5, <1>7, <1>10

(* ReleaseActivationCode: the code is held by nobody else, and the unique  *)
(* index refuses a second live one.                                        *)
LEMMA ReleaseKeeps ==
    ASSUME TypeOK, KnowsCode, UsedIssued, OneLiveCode, ExclusiveClaim,
           NEW r \in People, ReleaseCode(r), code' # code
    PROVE  KnowsCode' /\ UsedIssued' /\ OneLiveCode' /\ ExclusiveClaim'
  <1> DEFINE k == work[r].code
  <1> r \in Requests
    BY DEF Requests
  <1>1. k \in Codes /\ pc[r] \in Claimed
    BY DEF ReleaseCode, KnowsCode, Claimed
  <1>2. /\ \A j \in Codes : code'[j].rec = code[j].rec /\ code'[j].revoked = code[j].revoked
        /\ \A j \in Codes \ {k} : code'[j].used = code[j].used
    BY <1>1 DEF ReleaseCode, TypeOK, CodeRow
  <1>3. ~OtherLive(k) \/ code[k].revoked
    BY DEF ReleaseCode
  <1>4. pc'[r] = "idle" /\ \A q \in Requests \ {r} : pc'[q] = pc[q] /\ work'[q] = work[q]
    BY DEF ReleaseCode, Done, TypeOK
  <1>5. KnowsCode'
    BY <1>4 DEF KnowsCode, Claimed
  <1>6. UsedIssued'
    BY <1>1, <1>2 DEF UsedIssued, Issued, ExclusiveClaim
  <1>7. \A j \in Codes \ {k} : Live(j)' => Live(j)
    BY <1>2 DEF Live, Issued
  <1>8. OneLiveCode'
    BY <1>1, <1>2, <1>3, <1>7 DEF OneLiveCode, OtherLive, Live
  <1>9. \A q \in Requests : pc'[q] \in Claimed =>
           /\ q # r /\ pc[q] \in Claimed /\ work'[q].code = work[q].code
           /\ work[q].code \in Codes \ {k}
    BY <1>1, <1>4 DEF ExclusiveClaim, KnowsCode, Claimed
  <1>10. ExclusiveClaim'
    BY <1>2, <1>9 DEF ExclusiveClaim
  <1> QED
    BY <1>5, <1>6, <1>8, <1>10

(* issueCodes: the live codes of the records are revoked before each gets  *)
(* exactly one new row, and rows that are claimed are not touched.         *)
LEMMA IssueKeeps ==
    ASSUME TypeOK, KnowsCode, UsedIssued, OneLiveCode, ExclusiveClaim,
           NEW a \in Admins, NEW b \in Batches, IssueCodes(a, b)
    PROVE  KnowsCode' /\ UsedIssued' /\ OneLiveCode' /\ ExclusiveClaim'
  <1> DEFINE T == work[a].targets
  <1> a \in Requests
    BY DEF Requests
  <1>1. PICK new \in [T -> {k \in Codes : ~Issued(k)}] :
          /\ \A p, q \in T : new[p] = new[q] => p = q
          /\ code' = [k \in Codes |->
                IF \E p \in T : new[p] = k
                THEN [NoCode EXCEPT !.rec = CHOOSE p \in T : new[p] = k, !.batch = b]
                ELSE IF Live(k) /\ code[k].rec \in T
                THEN [code[k] EXCEPT !.revoked = TRUE]
                ELSE code[k]]
    BY DEF IssueCodes
  <1> HIDE DEF T
  <1>2. ASSUME NEW k \in Codes, NEW p \in T, new[p] = k
        PROVE  code'[k].rec = p /\ ~code'[k].used /\ ~Issued(k)
    <2>1. (CHOOSE q \in T : new[q] = k) = p
      BY <1>1, <1>2
    <2>2. code'[k] = [NoCode EXCEPT !.rec = CHOOSE q \in T : new[q] = k, !.batch = b]
      BY <1>1, <1>2
    <2>3. code'[k].rec = p /\ ~code'[k].used
      BY <2>1, <2>2 DEF NoCode
    <2> QED
      BY <1>1, <1>2, <2>3
  <1>3. ASSUME NEW k \in Codes, ~\E p \in T : new[p] = k
        PROVE  /\ code'[k].rec = code[k].rec /\ code'[k].used = code[k].used
               /\ (code'[k].revoked = code[k].revoked \/ code'[k].revoked)
               /\ Live(k) /\ code[k].rec \in T => code'[k].revoked
    <2>1. code'[k] = IF Live(k) /\ code[k].rec \in T
                     THEN [code[k] EXCEPT !.revoked = TRUE] ELSE code[k]
      BY <1>1, <1>3
    <2>2. code[k] \in CodeRow
      BY DEF TypeOK
    <2> QED
      BY <2>1, <2>2 DEF CodeRow
  <1>4. pc'[a] = "idle" /\ \A q \in Requests \ {a} : pc'[q] = pc[q] /\ work'[q] = work[q]
    BY DEF IssueCodes, Done, TypeOK
  <1>5. KnowsCode'
    BY <1>4 DEF KnowsCode, Claimed
  <1>6. \A k \in Codes : code[k].used => code'[k].used
    BY <1>2, <1>3 DEF UsedIssued
  <1>7. UsedIssued'
    BY <1>2, <1>3 DEF UsedIssued, Issued
  <1>8. \A q \in Requests : pc'[q] \in Claimed =>
           pc[q] \in Claimed /\ work'[q].code = work[q].code /\ work[q].code \in Codes
    BY <1>4 DEF KnowsCode, Claimed
  <1>9. ExclusiveClaim'
    BY <1>6, <1>8 DEF ExclusiveClaim
  <1>10. ASSUME NEW j \in Codes, NEW k \in Codes, Live(j)', Live(k)', code'[j].rec = code'[k].rec
         PROVE  j = k
    <2>1. CASE (\E p \in T : new[p] = j) /\ (\E p \in T : new[p] = k)
      BY <1>2, <1>10, <2>1
    <2>2. CASE (\E p \in T : new[p] = j) /\ ~(\E p \in T : new[p] = k)
      BY <1>2, <1>3, <1>10, <2>2 DEF Live, Issued
    <2>3. CASE ~(\E p \in T : new[p] = j) /\ (\E p \in T : new[p] = k)
      BY <1>2, <1>3, <1>10, <2>3 DEF Live, Issued
    <2>4. CASE ~(\E p \in T : new[p] = j) /\ ~(\E p \in T : new[p] = k)
      BY <1>3, <1>10, <2>4 DEF Live, Issued, OneLiveCode
    <2> QED
      BY <2>1, <2>2, <2>3, <2>4
  <1>11. OneLiveCode'
    BY <1>10 DEF OneLiveCode
  <1> QED
    BY <1>5, <1>7, <1>9, <1>11

LEMMA AdminQuiet ==
    ASSUME TypeOK, KnowsCode, NEW a \in Admins, Administer(a),
           \A b \in Batches : ~IssueCodes(a, b)
    PROVE  Quiet
  <1> a \in Requests
    BY DEF Requests
  <1> USE DEF tables
  <1>1. ASSUME NEW T \in SUBSET Records, BeginGenerate(a, T) PROVE Quiet
    BY <1>1, GoToQuiet DEF BeginGenerate, Steps, Working, Claimed, TypeOK
  <1>2. ASSUME NEW u \in Users, BeginDeleteOrphan(a, u) PROVE Quiet
    BY <1>2, GoToQuiet DEF BeginDeleteOrphan, Steps, Working, Claimed, TypeOK
  <1>3. CASE DeleteOrphan(a)
    BY <1>3, DoneQuiet DEF DeleteOrphan
  <1> QED
    BY <1>1, <1>2, <1>3 DEF Administer

(* Steps in which no request takes part. *)
LEMMA RestQuiet ==
    ASSUME TypeOK, KnowsCode, UNCHANGED <<pc, work>>,
           \/ UNCHANGED code
           \/ \E b \in Batches : RevokeBatch(b)
           \/ \E k \in Codes : ExpireCode(k) \/ LockEnds(k)
    PROVE  Quiet
  <1>1. \A k \in Codes : /\ code'[k].rec = code[k].rec
                         /\ code'[k].used = code[k].used
                         /\ code[k].revoked => code'[k].revoked
    BY DEF TypeOK, CodeRow, RevokeBatch, ExpireCode, LockEnds
  <1> QED
    BY <1>1, StayQuiet DEF Quiet

THEOREM Inductive == Spec => []IInv
  <1>1. Init => IInv
    <2> SUFFICES ASSUME Init PROVE IInv
      OBVIOUS
    <2>1. KnowsCode /\ ExclusiveClaim
      BY DEF Init, KnowsCode, ExclusiveClaim, Claimed
    <2>2. UsedIssued /\ OneLiveCode
      BY DEF Init, UsedIssued, OneLiveCode, Live, Issued, NoCode
    <2> QED
      BY <2>1, <2>2, InitTypeOK DEF IInv, CodesOK
  <1>2. IInv /\ [Next]_vars => IInv'
    <2> SUFFICES ASSUME IInv, [Next]_vars PROVE IInv'
      OBVIOUS
    <2>0. TypeOK /\ KnowsCode /\ UsedIssued /\ OneLiveCode /\ ExclusiveClaim
      BY DEF IInv, CodesOK
    <2>1. TypeOK'
      BY <2>0, NextType
    <2>2. Quiet => CodesOK'
      BY <2>0, QuietKeeps DEF CodesOK
    <2>3. ASSUME NEW r \in People, Start(r) PROVE CodesOK'
      BY <2>0, <2>2, <2>3, StartQuiet
    <2>4. ASSUME NEW r \in People, Complete(r) PROVE CodesOK'
      <3>1. CASE ClaimCode(r) /\ Usable(work[r].code)
        BY <2>0, <3>1, ClaimKeeps DEF CodesOK
      <3>2. CASE ReleaseCode(r) /\ code' # code
        BY <2>0, <3>2, ReleaseKeeps DEF CodesOK
      <3>3. CASE ~(ClaimCode(r) /\ Usable(work[r].code)) /\ ~(ReleaseCode(r) /\ code' # code)
        BY <2>0, <2>2, <2>4, <3>3, CompleteQuiet
      <3> QED
        BY <3>1, <3>2, <3>3
    <2>5. ASSUME NEW r \in Requests, Die(r) \/ Abandon(r) PROVE CodesOK'
      <3>1. Done(r) /\ UNCHANGED code
        BY <2>5 DEF Die, Abandon, tables
      <3>2. Quiet
        BY <2>0, <3>1, DoneQuiet
      <3> QED
        BY <2>2, <3>2
    <2>6. ASSUME NEW a \in Admins, Administer(a) PROVE CodesOK'
      <3>1. ASSUME NEW b \in Batches, IssueCodes(a, b) PROVE CodesOK'
        BY <2>0, <3>1, IssueKeeps DEF CodesOK
      <3>2. CASE ~\E b \in Batches : IssueCodes(a, b)
        BY <2>0, <2>2, <2>6, <3>2, AdminQuiet
      <3> QED
        BY <3>1, <3>2
    <2>7. ASSUME UNCHANGED <<pc, work>>,
                 \/ UNCHANGED code
                 \/ \E b \in Batches : RevokeBatch(b)
                 \/ \E k \in Codes : ExpireCode(k) \/ LockEnds(k)
          PROVE  CodesOK'
      BY <2>0, <2>2, <2>7, RestQuiet
    <2>8. ASSUME NEW roles, NEW w, UpdateSettings(roles, w) PROVE CodesOK'
      BY <2>7, <2>8 DEF UpdateSettings, tables
    <2>9. ASSUME NEW b \in Batches, RevokeBatch(b) PROVE CodesOK'
      BY <2>7, <2>9 DEF RevokeBatch
    <2>10. ASSUME NEW k \in Codes, ExpireCode(k) \/ LockEnds(k) PROVE CodesOK'
      BY <2>7, <2>10 DEF ExpireCode, LockEnds
    <2>11. ASSUME NEW t \in Tokens, ExpireToken(t) PROVE CodesOK'
      BY <2>7, <2>11 DEF ExpireToken
    <2>12. ASSUME UNCHANGED vars PROVE CodesOK'
      BY <2>7, <2>12 DEF vars
    <2>13. CodesOK'
      BY <2>3, <2>4, <2>5, <2>6, <2>8, <2>9, <2>10, <2>11, <2>12 DEF Next, Requests
    <2> QED
      BY <2>1, <2>13 DEF IInv
  <1> QED
    BY <1>1, <1>2, PTL DEF Spec

(* Every variable stays in its type. *)
THEOREM TypeCorrect == Spec => []TypeOK
  <1>1. IInv => TypeOK
    BY DEF IInv, CodesOK
  <1> QED
    BY <1>1, Inductive, PTL

(* However generating, revoking, claiming and releasing codes interleave,  *)
(* and whatever fails, no record has two live codes.                       *)
THEOREM AtMostOneLiveCode == Spec => []OneLiveCode
  <1>1. IInv => OneLiveCode
    BY DEF IInv, CodesOK
  <1> QED
    BY <1>1, Inductive, PTL

(* However many people complete with however many links, a code has one    *)
(* claimant, and stays used for as long as it does.                        *)
THEOREM ClaimsExclude == Spec => []ExclusiveClaim
  <1>1. IInv => ExclusiveClaim
    BY DEF IInv, CodesOK
  <1> QED
    BY <1>1, Inductive, PTL

(* CodesConsistent: one live code per record and one claimant per code,    *)
(* for any number of people, codes and faults.                             *)
THEOREM CodesStayConsistent == Spec => []CodesConsistent
  BY TypeCorrect, AtMostOneLiveCode, ClaimsExclude, PTL DEF CodesConsistent

-----------------------------------------------------------------------------
(***************************************************************************)
(* What a login is linked to, and what is left behind.                     *)
(***************************************************************************)

(* The steps at which a request owns an account, a row of users, or both. *)
Owning == OwnsAccount \union OwnsRow

(* A link that was used proved the address e for the record p. *)
ProvedBy(p, e) ==
    \E t \in Tokens : /\ token[t].used /\ token[t].email = e
                      /\ token[t].code \in Codes
                      /\ code[token[t].code].rec = p

Claimants == \A r \in Requests : pc[r] \in Claimed => r \in People

TokensSent ==
    \A t \in Tokens : token[t].code # None =>
        /\ token[t].code \in Codes /\ Issued(token[t].code)
        /\ token[t].email \in Emails

(* The address a request works with, and how it came to it. *)
Addressed(r) ==
    /\ pc[r] \in {"reset", "token"} =>
          /\ work[r].email \in Emails
          /\ work[r].code \in Codes /\ Issued(work[r].code)
    /\ pc[r] = "consume" =>
          /\ work[r].token \in Tokens
          /\ token[work[r].token].code = work[r].code
          /\ token[work[r].token].email = work[r].email
          /\ work[r].code \in Codes
    /\ pc[r] \in {"claim"} \union Claimed =>
          /\ work[r].email \in Emails
          /\ work[r].code \in Codes /\ Issued(work[r].code)
          /\ ProvedBy(code[work[r].code].rec, work[r].email)

(* What a request owns is its own, and in the state of its step; it is not *)
(* linked yet, unless the answer of the link was lost.                     *)
OwnersApart ==
    \A r, q \in Requests : pc[r] \in Owning =>
        /\ work[r].user \in Users
        /\ pc[q] \in Owning /\ work[q].user = work[r].user => q = r

Unlinked(u) == \A p \in Records : login[p] # u

Owned(r) ==
    /\ pc[r] = "row" => users[work[r].user] = None
    /\ pc[r] \in {"role", "link"} => users[work[r].user] = work[r].email
    /\ pc[r] = "link" /\ account[work[r].user] # NoAccount => account[work[r].user].role
    /\ pc[r] \in {"row", "role", "link"} => Unlinked(work[r].user)
    /\ faults = 0 /\ pc[r] \in Owning => Unlinked(work[r].user)
    /\ faults = 0 /\ pc[r] = "undo_created" => users[work[r].user] = None

Linked(p) ==
    login[p] # None =>
        /\ users[login[p]] \in Emails
        /\ ProvedBy(p, users[login[p]])
        /\ account[login[p]] # NoAccount => account[login[p]].role

OwnershipOK ==
    /\ OwnersApart
    /\ \A r \in Requests : Owned(r)
    /\ \A p \in Records : Linked(p)

(* What NothingLeftBehind says of one identity. *)
Accounted(u) ==
    /\ account[u] # NoAccount =>
         \/ \E p \in Records : login[p] = u
         \/ \E r \in People : pc[r] \in OwnsAccount /\ work[r].user = u
    /\ users[u] # None =>
         \/ \E p \in Records : login[p] = u
         \/ \E r \in People : pc[r] \in OwnsRow /\ work[r].user = u

LoginsOK ==
    /\ Claimants
    /\ TokensSent
    /\ \A r \in Requests : Addressed(r)
    /\ OwnershipOK
    /\ NothingLeftBehind
    /\ ClaimResolved

-----------------------------------------------------------------------------
(* An issued code stays with its record. *)
LEMMA RecordsStay ==
    ASSUME TypeOK, KnowsCode, [Next]_vars, NEW k \in Codes, Issued(k)
    PROVE  code'[k].rec = code[k].rec /\ Issued(k)'
  <1>1. code[k] \in CodeRow
    BY DEF TypeOK
  <1> SUFFICES code'[k].rec = code[k].rec
    BY DEF Issued
  <1> USE DEF tables
  <1>2. ASSUME NEW r \in People, RecordFailure(r) \/ ResetFailures(r)
        PROVE  code'[k].rec = code[k].rec
    <2>1. CASE RecordFailure(r)
      BY <1>1, <2>1 DEF RecordFailure, TypeOK, CodeRow
    <2>2. CASE ResetFailures(r)
      BY <1>1, <2>2 DEF ResetFailures, TypeOK, CodeRow
    <2> QED
      BY <1>2, <2>1, <2>2
  <1>3. ASSUME NEW r \in People, ClaimCode(r) \/ ReleaseCode(r)
        PROVE  code'[k].rec = code[k].rec
    BY <1>1, <1>3 DEF ClaimCode, ReleaseCode, TypeOK, CodeRow
  <1>8. ASSUME NEW r \in People, Start(r) \/ Complete(r),
               ~(RecordFailure(r) \/ ResetFailures(r)), ~(ClaimCode(r) \/ ReleaseCode(r))
        PROVE  UNCHANGED code
    BY <1>8 DEF Start, Complete, StartMismatch, StartMatch, EmailInUse, CreateEmailToken,
       BeginComplete, ConsumeToken, CheckEmail, CreateAccount, CreateAccountFails,
       CreateRow, AssignRole, LinkRecord, UndoAccount, UndoRow
  <1>4. ASSUME NEW a \in Admins, NEW b \in Batches, IssueCodes(a, b)
        PROVE  code'[k].rec = code[k].rec
    <2> DEFINE T == work[a].targets
    <2>1. PICK new \in [T -> {j \in Codes : ~Issued(j)}] :
          code' = [j \in Codes |->
                IF \E p \in T : new[p] = j
                THEN [NoCode EXCEPT !.rec = CHOOSE p \in T : new[p] = j, !.batch = b]
                ELSE IF Live(j) /\ code[j].rec \in T
                THEN [code[j] EXCEPT !.revoked = TRUE]
                ELSE code[j]]
      BY <1>4 DEF IssueCodes
    <2> HIDE DEF T
    <2>2. ~\E p \in T : new[p] = k
      BY <2>1
    <2>3. code'[k] = IF Live(k) /\ code[k].rec \in T
                     THEN [code[k] EXCEPT !.revoked = TRUE] ELSE code[k]
      BY <2>1, <2>2
    <2> QED
      BY <1>1, <2>3 DEF CodeRow
  <1>5. CASE UNCHANGED code
    BY <1>5
  <1>6. ASSUME NEW b \in Batches, RevokeBatch(b) PROVE code'[k].rec = code[k].rec
    BY <1>1, <1>6 DEF RevokeBatch, CodeRow
  <1>7. ASSUME NEW j \in Codes, ExpireCode(j) \/ LockEnds(j) PROVE code'[k].rec = code[k].rec
    BY <1>1, <1>7 DEF ExpireCode, LockEnds, TypeOK, CodeRow
  <1> QED
    BY <1>2, <1>3, <1>4, <1>5, <1>6, <1>7, <1>8 DEF Next, Administer, BeginGenerate,
       BeginDeleteOrphan, DeleteOrphan, Die, Abandon, UpdateSettings, ExpireToken, vars

(* Only a Start that sends a link, a Complete that consumes one and the     *)
(* clock change the links.                                                 *)
LEMMA TokensMove ==
    ASSUME [Next]_vars
    PROVE  \/ UNCHANGED token
           \/ \E r \in People : ConsumeToken(r) \/ \E s \in Tokens : CreateEmailToken(r, s)
           \/ \E s \in Tokens : ExpireToken(s)
  <1> USE DEF tables
  <1>1. ASSUME NEW r \in People, Start(r)
        PROVE  UNCHANGED token \/ \E s \in Tokens : CreateEmailToken(r, s)
    BY <1>1 DEF Start, StartMismatch, StartMatch, RecordFailure, ResetFailures, EmailInUse
  <1>2. ASSUME NEW r \in People, Complete(r)
        PROVE  UNCHANGED token \/ ConsumeToken(r)
    BY <1>2 DEF Complete, BeginComplete, ClaimCode, CheckEmail, CreateAccount,
       CreateAccountFails, CreateRow, AssignRole, LinkRecord, UndoAccount, UndoRow, ReleaseCode
  <1>3. ASSUME NEW a \in Admins, Administer(a)
        PROVE  UNCHANGED token
    BY <1>3 DEF Administer, BeginGenerate, IssueCodes, BeginDeleteOrphan, DeleteOrphan
  <1>4. \/ UNCHANGED token
        \/ \E r \in People : Start(r) \/ Complete(r)
        \/ \E a \in Admins : Administer(a)
        \/ \E s \in Tokens : ExpireToken(s)
    BY DEF Next, Die, Abandon, UpdateSettings, RevokeBatch, ExpireCode, LockEnds, vars
  <1> QED
    BY <1>1, <1>2, <1>3, <1>4

(* A link that was sent keeps its code and its address, and stays used. *)
LEMMA TokensStay ==
    ASSUME TypeOK, [Next]_vars, NEW t \in Tokens, token[t].code # None
    PROVE  /\ token'[t].code = token[t].code
           /\ token'[t].email = token[t].email
           /\ token[t].used => token'[t].used
  <1>1. token[t] \in TokenRow /\ token[t] # NoToken
    BY DEF TypeOK, NoToken
  <1> USE DEF tables
  <1>2. ASSUME NEW r \in People, NEW s \in Tokens, CreateEmailToken(r, s)
        PROVE  token'[t] = token[t]
    BY <1>1, <1>2 DEF CreateEmailToken, TypeOK
  <1>3. ASSUME NEW r \in People, ConsumeToken(r)
        PROVE  \/ token'[t] = token[t]
               \/ token'[t] = [token[t] EXCEPT !.used = TRUE]
    BY <1>3 DEF ConsumeToken, TypeOK
  <1>4. ASSUME NEW s \in Tokens, ExpireToken(s)
        PROVE  \/ token'[t] = token[t]
               \/ token'[t] = [token[t] EXCEPT !.expired = TRUE]
    BY <1>4 DEF ExpireToken, TypeOK
  <1>5. CASE UNCHANGED token
    BY <1>5
  <1> QED
    BY <1>1, <1>2, <1>3, <1>4, <1>5, TokensMove DEF TokenRow

(* What was proved stays proved. *)
LEMMA ProvedStays ==
    ASSUME TypeOK, KnowsCode, [Next]_vars, NEW p \in Records, NEW e, ProvedBy(p, e)
    PROVE  ProvedBy(p, e)'
  <1>1. PICK t \in Tokens : /\ token[t].used /\ token[t].email = e
                            /\ token[t].code \in Codes
                            /\ code[token[t].code].rec = p
    BY DEF ProvedBy
  <1>2. token[t].code # None /\ Issued(token[t].code)
    BY <1>1, ActivationAssumption DEF Issued
  <1> QED
    BY <1>1, <1>2, TokensStay, RecordsStay DEF ProvedBy

-----------------------------------------------------------------------------
(* Steps that neither create, link nor undo anything: they may delete an   *)
(* account, and a stop ends a request and is counted.                      *)
Calm ==
    /\ UNCHANGED <<login, users>>
    /\ \A u \in Users : account'[u] \in {account[u], NoAccount}
    /\ faults' = faults \/ faults' = faults + 1
    /\ \A q \in Requests :
          /\ pc'[q] \in Owning => pc'[q] = pc[q] /\ work'[q] = work[q]
          /\ faults' = 0 /\ pc[q] \in Owning => pc'[q] = pc[q]

Builds(r) ==
    \/ \E u \in Users : CreateAccount(r, u)
    \/ CreateRow(r)
    \/ AssignRole(r)
    \/ LinkRecord(r)
    \/ UndoAccount(r)
    \/ UndoRow(r)

(* Every step is calm or one of the six. *)
LEMMA CalmOrBuilds ==
    ASSUME TypeOK, [Next]_vars
    PROVE  Calm \/ \E r \in People : Builds(r)
  <1> USE DEF tables, Owning, OwnsAccount, OwnsRow
  <1>0. faults \in Nat
    BY ActivationAssumption DEF TypeOK
  <1>1. ASSUME NEW r \in People, Start(r) PROVE Calm
    BY <1>1 DEF Start, StartMismatch, StartMatch, RecordFailure, ResetFailures,
       EmailInUse, CreateEmailToken, Calm, GoTo, Done, TypeOK, Requests
  <1>2. ASSUME NEW r \in People, Complete(r), ~Builds(r) PROVE Calm
    BY <1>0, <1>2 DEF Complete, Builds, BeginComplete, ConsumeToken, ClaimCode, CheckEmail,
       CreateAccountFails, ReleaseCode, Fault, Calm, GoTo, Done, TypeOK, Requests
  <1>3. ASSUME NEW r \in Requests, Die(r) \/ Abandon(r) PROVE Calm
    BY <1>0, <1>3 DEF Die, Abandon, Fault, Calm, Done, TypeOK
  <1>4. ASSUME NEW a \in Admins, Administer(a) PROVE Calm
    BY <1>4 DEF Administer, BeginGenerate, IssueCodes, BeginDeleteOrphan, DeleteOrphan,
       Calm, GoTo, Done, TypeOK, Requests
  <1>5. CASE UNCHANGED <<login, users, account, faults, pc, work>>
    BY <1>5 DEF Calm
  <1> QED
    BY <1>1, <1>2, <1>3, <1>4, <1>5 DEF Next, UpdateSettings, RevokeBatch, ExpireCode,
       LockEnds, ExpireToken, vars, Requests

-----------------------------------------------------------------------------
(* Only the public requests claim. *)
LEMMA ClaimantsStep ==
    ASSUME TypeOK, Claimants, [Next]_vars
    PROVE  Claimants'
  <1> USE DEF Claimants, Claimed
  <1>1. ASSUME NEW r \in People, Start(r) \/ Complete(r) PROVE Claimants'
    <2>1. \A q \in Requests \ {r} : pc'[q] = pc[q]
      BY <1>1 DEF Start, Complete, StartMismatch, StartMatch, RecordFailure, ResetFailures,
         EmailInUse, CreateEmailToken, BeginComplete, ConsumeToken, ClaimCode, CheckEmail,
         CreateAccount, CreateAccountFails, CreateRow, AssignRole, LinkRecord,
         UndoAccount, UndoRow, ReleaseCode, GoTo, Done, TypeOK
    <2> QED
      BY <1>1, <2>1
  <1>2. ASSUME NEW a \in Admins, Administer(a) PROVE Claimants'
    BY <1>2 DEF Administer, BeginGenerate, IssueCodes, BeginDeleteOrphan, DeleteOrphan,
       GoTo, Done, TypeOK, Requests
  <1>3. ASSUME NEW r \in Requests, Die(r) \/ Abandon(r) PROVE Claimants'
    BY <1>3 DEF Die, Abandon, Done, TypeOK
  <1>4. CASE UNCHANGED pc
    BY <1>4
  <1> QED
    BY <1>1, <1>2, <1>3, <1>4 DEF Next, UpdateSettings, RevokeBatch, ExpireCode,
       LockEnds, ExpireToken, vars, Requests

(* A link carries the code and the address of the Start that sent it. *)
LEMMA TokensSentStep ==
    ASSUME TypeOK, KnowsCode, TokensSent, \A r \in Requests : Addressed(r), [Next]_vars
    PROVE  TokensSent'
  <1> SUFFICES ASSUME NEW t \in Tokens, token'[t].code # None
               PROVE  /\ token'[t].code \in Codes /\ Issued(token[t].code)'
                      /\ token'[t].email \in Emails
    BY DEF TokensSent
  <1>1. CASE token[t].code # None
    BY <1>1, TokensStay, RecordsStay DEF TokensSent
  <1>2. CASE token[t].code = None
    <2>1. token' # token
      BY <1>2
    <2>2. token[t] \in TokenRow
      BY DEF TypeOK
    <2>3. ASSUME NEW r \in People, ConsumeToken(r) PROVE token'[t].code = token[t].code
      BY <2>2, <2>3 DEF ConsumeToken, TypeOK, TokenRow, tables
    <2>4. ASSUME NEW s \in Tokens, ExpireToken(s) PROVE token'[t].code = token[t].code
      BY <2>2, <2>4 DEF ExpireToken, TypeOK, TokenRow
    <2>5. PICK r \in People, s \in Tokens : CreateEmailToken(r, s)
      BY <1>2, <2>1, <2>3, <2>4, TokensMove
    <2>6. s = t
      BY <1>2, <2>5 DEF CreateEmailToken, TypeOK
    <2>7. /\ token'[t].code = work[r].code /\ token'[t].email = work[r].email
          /\ pc[r] = "token" /\ UNCHANGED code
      BY <2>5, <2>6 DEF CreateEmailToken, TypeOK, NoToken
    <2> QED
      BY <2>7 DEF Addressed, Requests, Issued
  <1> QED
    BY <1>1, <1>2

(* What a request works with stays what it is. *)
SameWork(q) ==
    /\ work'[q].code = work[q].code
    /\ work'[q].email = work[q].email
    /\ work'[q].token = work[q].token

Onward(q) ==
    \/ /\ SameWork(q)
       /\ pc'[q] \in {"reset", "token"} => pc[q] \in {"reset", "token"}
       /\ pc'[q] = "consume" => pc[q] = "consume"
       /\ pc'[q] \in {"claim"} \union Claimed => pc[q] \in {"claim"} \union Claimed
    \/ pc'[q] \in {"idle", "miss", "issue", "delete_account"}

LEMMA OnwardKeeps ==
    ASSUME TypeOK, KnowsCode, TokensSent, [Next]_vars,
           NEW q \in Requests, Addressed(q), Onward(q)
    PROVE  Addressed(q)'
  <1>1. CASE pc'[q] \in {"idle", "miss", "issue", "delete_account"}
    BY <1>1 DEF Addressed, Claimed
  <1>2. CASE SameWork(q) /\ pc'[q] \in {"reset", "token"} /\ pc[q] \in {"reset", "token"}
    BY <1>2, RecordsStay DEF Addressed, SameWork, Claimed
  <1>3. CASE SameWork(q) /\ pc'[q] = "consume" /\ pc[q] = "consume"
    <2>1. token[work[q].token].code # None
      BY <1>3, ActivationAssumption DEF Addressed
    <2> QED
      BY <1>3, <2>1, TokensStay DEF Addressed, SameWork, Claimed
  <1>4. CASE /\ SameWork(q)
             /\ pc'[q] \in {"claim"} \union Claimed
             /\ pc[q] \in {"claim"} \union Claimed
    <2>1. code[work[q].code].rec \in Records /\ work[q].code \in Codes
      BY <1>4 DEF Addressed, Issued, TypeOK, CodeRow
    <2>2. ProvedBy(code[work[q].code].rec, work[q].email)'
      BY <1>4, <2>1, ProvedStays, RecordsStay DEF Addressed, SameWork
    <2> QED
      BY <1>4, <2>1, <2>2, RecordsStay DEF Addressed, SameWork, Claimed
  <1> QED
    BY <1>1, <1>2, <1>3, <1>4 DEF Onward, Addressed

(* Only a Start that matches, a Complete that begins and one that consumes *)
(* its link come to an address.                                            *)
LEMMA OnwardSteps ==
    ASSUME TypeOK, [Next]_vars, NEW q \in Requests, ~Onward(q)
    PROVE  \/ \E k \in Codes, e \in Emails : StartMatch(q, k, e)
           \/ \E t \in Tokens : BeginComplete(q, t)
           \/ ConsumeToken(q)
  <1> USE DEF Onward, SameWork, Claimed
  <1>1. ASSUME NEW r \in People, Start(r)
        PROVE  Onward(q) \/ \E k \in Codes, e \in Emails : StartMatch(q, k, e)
    BY <1>1 DEF Start, StartMismatch, StartMatch, RecordFailure, ResetFailures,
       EmailInUse, CreateEmailToken, GoTo, Done, TypeOK, Work, Requests
  <1>2. ASSUME NEW r \in People, Complete(r)
        PROVE  Onward(q) \/ (\E t \in Tokens : BeginComplete(q, t)) \/ ConsumeToken(q)
    <2>1. ASSUME NEW t \in Tokens, BeginComplete(r, t), r # q PROVE Onward(q)
      BY <2>1 DEF BeginComplete, GoTo, TypeOK, Requests
    <2>2. ASSUME ConsumeToken(r), r # q PROVE Onward(q)
      BY <2>2 DEF ConsumeToken, GoTo, Done, TypeOK, Requests
    <2>3. ASSUME NEW u \in Users, CreateAccount(r, u) PROVE Onward(q)
      BY <2>3 DEF CreateAccount, GoTo, TypeOK, Work, Requests
    <2>4. CASE ClaimCode(r) \/ CheckEmail(r) \/ CreateAccountFails(r) \/ ReleaseCode(r)
      BY <2>4 DEF ClaimCode, CheckEmail, CreateAccountFails, ReleaseCode, GoTo, Done,
         TypeOK, Requests
    <2>5. CASE CreateRow(r) \/ AssignRole(r) \/ LinkRecord(r)
      BY <2>5 DEF CreateRow, AssignRole, LinkRecord, GoTo, Done, TypeOK, Requests
    <2>6. CASE UndoAccount(r) \/ UndoRow(r)
      BY <2>6 DEF UndoAccount, UndoRow, GoTo, TypeOK, Requests
    <2> QED
      BY <1>2, <2>1, <2>2, <2>3, <2>4, <2>5, <2>6 DEF Complete
  <1>3. ASSUME NEW a \in Admins, Administer(a) PROVE Onward(q)
    BY <1>3 DEF Administer, BeginGenerate, IssueCodes, BeginDeleteOrphan, DeleteOrphan,
       GoTo, Done, TypeOK, Work, Requests
  <1>4. ASSUME NEW r \in Requests, Die(r) \/ Abandon(r) PROVE Onward(q)
    BY <1>4 DEF Die, Abandon, Done, TypeOK
  <1>5. CASE UNCHANGED <<pc, work>>
    BY <1>5
  <1> QED
    BY <1>1, <1>2, <1>3, <1>4, <1>5 DEF Next, UpdateSettings, RevokeBatch, ExpireCode,
       LockEnds, ExpireToken, vars, Requests

LEMMA AddressedStep ==
    ASSUME TypeOK, KnowsCode, TokensSent, [Next]_vars, NEW q \in Requests, Addressed(q)
    PROVE  Addressed(q)'
  <1>1. CASE Onward(q)
    BY <1>1, OnwardKeeps
  <1>2. ASSUME NEW k \in Codes, NEW e \in Emails, StartMatch(q, k, e) PROVE Addressed(q)'
    <2>1. pc'[q] = "reset" /\ work'[q].code = k /\ work'[q].email = e
      BY <1>2 DEF StartMatch, GoTo, TypeOK, Work
    <2>2. Issued(k)'
      BY <1>2, RecordsStay DEF StartMatch, Usable, Live
    <2> QED
      BY <2>1, <2>2 DEF Addressed, Claimed
  <1>3. ASSUME NEW t \in Tokens, BeginComplete(q, t) PROVE Addressed(q)'
    <2>1. token[t].code # None /\ UNCHANGED token
      BY <1>3 DEF BeginComplete, Valid, tables
    <2>2. /\ pc'[q] = "consume" /\ work'[q].token = t
          /\ work'[q].code = token[t].code /\ work'[q].email = token[t].email
      BY <1>3 DEF BeginComplete, GoTo, TypeOK, Work
    <2> QED
      BY <2>1, <2>2 DEF Addressed, Claimed, TokensSent
  <1>4. CASE ConsumeToken(q)
    <2>1. CASE Valid(work[q].token)
      <3> DEFINE t == work[q].token
      <3>1. /\ t \in Tokens /\ token[t].code = work[q].code /\ token[t].email = work[q].email
            /\ work[q].code \in Codes
        BY <1>4 DEF ConsumeToken, Addressed
      <3>2. /\ token'[t].used /\ token'[t].code = token[t].code
            /\ token'[t].email = token[t].email
            /\ pc'[q] = "claim" /\ work' = work /\ UNCHANGED code
        BY <1>4, <2>1, <3>1 DEF ConsumeToken, GoTo, TypeOK, TokenRow
      <3>3. work[q].email \in Emails /\ Issued(work[q].code)
        BY <2>1, <3>1 DEF TokensSent, Valid
      <3>4. ProvedBy(code[work[q].code].rec, work[q].email)'
        BY <3>1, <3>2 DEF ProvedBy
      <3> QED
        BY <3>1, <3>2, <3>3, <3>4 DEF Addressed, Claimed, Issued
    <2>2. CASE ~Valid(work[q].token)
      BY <1>4, <2>2 DEF ConsumeToken, Done, TypeOK, Addressed, Claimed
    <2> QED
      BY <2>1, <2>2
  <1> QED
    BY <1>1, <1>2, <1>3, <1>4, OnwardSteps

-----------------------------------------------------------------------------
(* The invariant as a calm step and each of the six find it. *)
LEMMA OwnerFacts ==
    ASSUME TypeOK, OwnershipOK
    PROVE  /\ \A r \in Requests : pc[r] \in Owning => work[r].user \in Users
           /\ \A r, q \in Requests : pc[r] \in Owning /\ pc[q] \in Owning /\ q # r
                 => work[q].user # work[r].user
           /\ \A u \in Users : users[u] = None => Unlinked(u)
           /\ None \notin Users /\ None \notin Emails
           /\ faults \in Nat
  BY ActivationAssumption DEF TypeOK, OwnershipOK, OwnersApart, Linked, Unlinked

LEMMA CalmKeeps ==
    ASSUME TypeOK, KnowsCode, [Next]_vars, Calm, OwnershipOK
    PROVE  /\ OwnershipOK'
           /\ NothingLeftBehind => NothingLeftBehind'
  <1> OwnersApart /\ (\A q \in Requests : Owned(q)) /\ (\A p \in Records : Linked(p))
    BY DEF OwnershipOK
  <1>0. faults \in Nat
    BY OwnerFacts
  <1>1. OwnersApart'
    BY DEF Calm, OwnersApart
  <1>2. ASSUME NEW r \in Requests PROVE Owned(r)'
    <2>1. CASE pc'[r] \notin Owning
      BY <2>1 DEF Owned, Owning, OwnsAccount, OwnsRow
    <2>2. CASE pc'[r] \in Owning
      <3>1. pc'[r] = pc[r] /\ work'[r] = work[r] /\ work[r].user \in Users
        BY <2>2, OwnerFacts DEF Calm
      <3>2. /\ account'[work[r].user] \in {account[work[r].user], NoAccount}
            /\ faults' = 0 => faults = 0
            /\ UNCHANGED <<login, users>>
        BY <1>0, <3>1 DEF Calm
      <3> QED
        BY <3>1, <3>2 DEF Owned, Unlinked
    <2> QED
      BY <2>1, <2>2
  <1>3. ASSUME NEW p \in Records PROVE Linked(p)'
    <2>1. ASSUME login[p] # None PROVE ProvedBy(p, users[login[p]])'
      <3>1. ProvedBy(p, users[login[p]])
        BY <2>1 DEF Linked
      <3>2. PICK e : e = users[login[p]]
        OBVIOUS
      <3>3. ProvedBy(p, e)'
        BY <3>1, <3>2, ProvedStays
      <3>4. users'[login'[p]] = e
        BY <3>2 DEF Calm
      <3> QED
        BY <3>3, <3>4 DEF ProvedBy, Calm
    <2>2. login[p] # None => login[p] \in Users
      BY DEF TypeOK
    <2> QED
      BY <2>1, <2>2 DEF Linked, Calm
  <1>4. ASSUME NothingLeftBehind PROVE NothingLeftBehind'
    <2> SUFFICES ASSUME faults' = 0, NEW u \in Users PROVE Accounted(u)'
      BY DEF NothingLeftBehind, Accounted
    <2>1. faults = 0
      BY <1>0 DEF Calm
    <2>2. \A r \in People : pc[r] \in Owning => pc'[r] = pc[r] /\ work'[r] = work[r]
      BY DEF Calm, Requests
    <2>3. /\ account'[u] # NoAccount => account[u] # NoAccount
          /\ UNCHANGED <<login, users>>
      BY DEF Calm
    <2> QED
      BY <1>4, <2>1, <2>2, <2>3 DEF NothingLeftBehind, Accounted, Owning
  <1> QED
    BY <1>1, <1>2, <1>3, <1>4 DEF OwnershipOK

(* A record whose login a step does not touch. *)
LEMMA LinkedKept ==
    ASSUME TypeOK, KnowsCode, [Next]_vars, NEW p \in Records, Linked(p),
           login'[p] = login[p],
           login[p] # None =>
               /\ users'[login[p]] = users[login[p]]
               /\ account'[login[p]] \in {account[login[p]], NoAccount}
    PROVE  Linked(p)'
  <1>1. CASE login[p] = None
    BY <1>1 DEF Linked
  <1>2. CASE login[p] # None
    <2>1. PICK e : e = users[login[p]]
      OBVIOUS
    <2>2. ProvedBy(p, e)'
      BY <1>2, <2>1, ProvedStays DEF Linked
    <2>3. users'[login'[p]] = e
      BY <1>2, <2>1
    <2>4. ProvedBy(p, users[login[p]])'
      BY <2>2, <2>3 DEF ProvedBy
    <2> QED
      BY <1>2, <2>4 DEF Linked
  <1> QED
    BY <1>1, <1>2

(* The requests other than the one that takes the step. *)
Others(r) == \A q \in Requests \ {r} : pc'[q] = pc[q] /\ work'[q] = work[q]

LEMMA CreateAccountKeeps ==
    ASSUME TypeOK, KnowsCode, [Next]_vars, OwnershipOK,
           NEW r \in People, NEW u \in Users, CreateAccount(r, u)
    PROVE  /\ OwnershipOK'
           /\ NothingLeftBehind => NothingLeftBehind'
  <1> OwnersApart /\ (\A q \in Requests : Owned(q)) /\ (\A p \in Records : Linked(p))
    BY DEF OwnershipOK
  <1> USE DEF Owning, OwnsAccount, OwnsRow, tables
  <1> r \in Requests
    BY DEF Requests
  <1>0. faults \in Nat /\ None \notin Users
    BY OwnerFacts
  <1>1. /\ users[u] = None /\ account[u] = NoAccount /\ Unlinked(u)
        /\ \A q \in Requests : work[q].user # u
    BY OwnerFacts DEF CreateAccount, Fresh
  <1>2. /\ UNCHANGED <<login, users>>
        /\ \A x \in Users \ {u} : account'[x] = account[x]
        /\ Others(r)
    BY DEF CreateAccount, GoTo, TypeOK, Others
  <1>3. \/ pc'[r] = "row" /\ work'[r].user = u /\ faults' = faults
        \/ pc'[r] = "release" /\ faults' = faults + 1
    BY DEF CreateAccount, GoTo, Fault, TypeOK, Work
  <1>4. OwnersApart'
    BY <1>1, <1>2, <1>3 DEF OwnersApart, Others
  <1>5. ASSUME NEW q \in Requests PROVE Owned(q)'
    <2>1. CASE q = r
      BY <1>1, <1>2, <1>3, <2>1 DEF Owned, Unlinked
    <2>2. CASE q # r
      <3>1. pc[q] \in Owning => work[q].user \in Users \ {u}
        BY <1>1, OwnerFacts
      <3> QED
        BY <1>0, <1>2, <1>3, <2>2, <3>1 DEF Owned, Unlinked, Others
    <2> QED
      BY <2>1, <2>2
  <1>6. ASSUME NEW p \in Records PROVE Linked(p)'
    <2>1. login[p] # None => login[p] \in Users \ {u}
      BY <1>1 DEF TypeOK, Unlinked
    <2> QED
      BY <1>2, <2>1, LinkedKept
  <1>7. ASSUME NothingLeftBehind PROVE NothingLeftBehind'
    <2> SUFFICES ASSUME faults' = 0, NEW x \in Users PROVE Accounted(x)'
      BY DEF NothingLeftBehind, Accounted
    <2>1. faults = 0 /\ pc'[r] = "row" /\ work'[r].user = u /\ pc[r] = "create"
      BY <1>0, <1>3 DEF CreateAccount
    <2>2. \A q \in People \ {r} : pc'[q] = pc[q] /\ work'[q] = work[q]
      BY <1>2 DEF Others, Requests
    <2> QED
      BY <1>1, <1>2, <1>7, <2>1, <2>2 DEF NothingLeftBehind, Accounted
  <1> QED
    BY <1>4, <1>5, <1>6, <1>7 DEF OwnershipOK

LEMMA CreateRowKeeps ==
    ASSUME TypeOK, KnowsCode, [Next]_vars, OwnershipOK,
           NEW r \in People, CreateRow(r)
    PROVE  /\ OwnershipOK'
           /\ NothingLeftBehind => NothingLeftBehind'
  <1> OwnersApart /\ (\A q \in Requests : Owned(q)) /\ (\A p \in Records : Linked(p))
    BY DEF OwnershipOK
  <1> USE DEF Owning, OwnsAccount, OwnsRow, tables
  <1> r \in Requests
    BY DEF Requests
  <1>0. faults \in Nat /\ None \notin Users
    BY OwnerFacts
  <1>1. PICK u \in Users : u = work[r].user
    BY OwnerFacts DEF CreateRow
  <1>2. /\ pc[r] = "row" /\ users[u] = None /\ Unlinked(u)
        /\ \A q \in Requests \ {r} : pc[q] \in Owning => work[q].user # u
    BY <1>1, OwnerFacts DEF CreateRow, Owned
  <1>3. /\ UNCHANGED <<login, account, work>>
        /\ \A x \in Users \ {u} : users'[x] = users[x]
        /\ Others(r)
    BY <1>1 DEF CreateRow, GoTo, TypeOK, Others
  <1>4. \/ pc'[r] = "role" /\ users'[u] = work[r].email /\ faults' = faults
        \/ pc'[r] = "undo_created" /\ users'[u] = users[u] /\ faults' = faults
        \/ pc'[r] = "undo_created" /\ faults' = faults + 1
    BY <1>1 DEF CreateRow, GoTo, Fault, TypeOK
  <1>5. OwnersApart'
    BY <1>2, <1>3, <1>4 DEF OwnersApart, Others
  <1>6. ASSUME NEW q \in Requests PROVE Owned(q)'
    <2>1. CASE q = r
      BY <1>0, <1>1, <1>2, <1>3, <1>4, <2>1 DEF Owned, Unlinked
    <2>2. CASE q # r
      <3>1. pc[q] \in Owning => work[q].user \in Users \ {u}
        BY <1>2, <2>2, OwnerFacts
      <3> QED
        BY <1>0, <1>3, <1>4, <2>2, <3>1 DEF Owned, Unlinked, Others
    <2> QED
      BY <2>1, <2>2
  <1>7. ASSUME NEW p \in Records PROVE Linked(p)'
    <2>1. login[p] # None => login[p] \in Users \ {u}
      BY <1>2 DEF TypeOK, Unlinked
    <2> QED
      BY <1>3, <2>1, LinkedKept
  <1>8. ASSUME NothingLeftBehind PROVE NothingLeftBehind'
    <2> SUFFICES ASSUME faults' = 0, NEW x \in Users PROVE Accounted(x)'
      BY DEF NothingLeftBehind, Accounted
    <2>1. faults = 0 /\ pc'[r] \in OwnsAccount /\ (users'[u] # None => pc'[r] = "role")
      BY <1>0, <1>2, <1>4
    <2>2. \A q \in People \ {r} : pc'[q] = pc[q] /\ work'[q] = work[q]
      BY <1>3 DEF Others, Requests
    <2> QED
      BY <1>1, <1>2, <1>3, <1>8, <2>1, <2>2 DEF NothingLeftBehind, Accounted
  <1> QED
    BY <1>5, <1>6, <1>7, <1>8 DEF OwnershipOK

LEMMA AssignRoleKeeps ==
    ASSUME TypeOK, KnowsCode, [Next]_vars, OwnershipOK,
           NEW r \in People, AssignRole(r)
    PROVE  /\ OwnershipOK'
           /\ NothingLeftBehind => NothingLeftBehind'
  <1> OwnersApart /\ (\A q \in Requests : Owned(q)) /\ (\A p \in Records : Linked(p))
    BY DEF OwnershipOK
  <1> USE DEF Owning, OwnsAccount, OwnsRow, tables
  <1> r \in Requests
    BY DEF Requests
  <1>0. None \notin Users
    BY OwnerFacts
  <1>1. PICK u \in Users : u = work[r].user
    BY OwnerFacts DEF AssignRole
  <1>2. /\ pc[r] = "role" /\ users[u] = work[r].email /\ Unlinked(u)
        /\ \A q \in Requests \ {r} : pc[q] \in Owning => work[q].user # u
    BY <1>1, OwnerFacts DEF AssignRole, Owned
  <1>3. /\ UNCHANGED <<login, users, work, faults>>
        /\ \A x \in Users \ {u} : account'[x] = account[x]
        /\ Others(r)
        /\ pc'[r] \in {"link", "undo_account"}
    BY <1>1 DEF AssignRole, GoTo, TypeOK, Others
  <1>4. /\ pc'[r] = "link" => account'[u].role
        /\ account'[u] # NoAccount => account[u] # NoAccount
    BY <1>1 DEF AssignRole, GoTo, TypeOK, Account
  <1>5. OwnersApart'
    BY <1>2, <1>3 DEF OwnersApart, Others
  <1>6. ASSUME NEW q \in Requests PROVE Owned(q)'
    <2>1. CASE q = r
      BY <1>1, <1>2, <1>3, <1>4, <2>1 DEF Owned, Unlinked
    <2>2. CASE q # r
      <3>1. pc[q] \in Owning => work[q].user \in Users \ {u}
        BY <1>2, <2>2, OwnerFacts
      <3> QED
        BY <1>3, <2>2, <3>1 DEF Owned, Unlinked, Others
    <2> QED
      BY <2>1, <2>2
  <1>7. ASSUME NEW p \in Records PROVE Linked(p)'
    <2>1. login[p] # None => login[p] \in Users \ {u}
      BY <1>2 DEF TypeOK, Unlinked
    <2> QED
      BY <1>3, <2>1, LinkedKept
  <1>8. ASSUME NothingLeftBehind PROVE NothingLeftBehind'
    <2> SUFFICES ASSUME faults' = 0, NEW x \in Users PROVE Accounted(x)'
      BY DEF NothingLeftBehind, Accounted
    <2>1. \A q \in People \ {r} : pc'[q] = pc[q] /\ work'[q] = work[q]
      BY <1>3 DEF Others, Requests
    <2> QED
      BY <1>1, <1>2, <1>3, <1>4, <1>8, <2>1 DEF NothingLeftBehind, Accounted
  <1> QED
    BY <1>5, <1>6, <1>7, <1>8 DEF OwnershipOK

LEMMA LinkRecordKeeps ==
    ASSUME TypeOK, KnowsCode, [Next]_vars, OwnershipOK,
           NEW r \in People, Addressed(r), LinkRecord(r)
    PROVE  /\ OwnershipOK'
           /\ NothingLeftBehind => NothingLeftBehind'
  <1> OwnersApart /\ (\A q \in Requests : Owned(q)) /\ (\A p \in Records : Linked(p))
    BY DEF OwnershipOK
  <1> USE DEF Owning, OwnsAccount, OwnsRow, tables
  <1> r \in Requests
    BY DEF Requests
  <1>0. faults \in Nat /\ None \notin Users
    BY OwnerFacts
  <1>1. PICK u \in Users : u = work[r].user
    BY OwnerFacts DEF LinkRecord
  <1>2. /\ pc[r] = "link" /\ users[u] = work[r].email /\ Unlinked(u)
        /\ account[u] # NoAccount => account[u].role
        /\ \A q \in Requests \ {r} : pc[q] \in Owning => work[q].user # u
    BY <1>1, OwnerFacts DEF LinkRecord, Owned
  <1>3. PICK p \in Records : /\ p = code[work[r].code].rec
                             /\ ProvedBy(p, work[r].email)
                             /\ work[r].email \in Emails
    BY <1>2 DEF Addressed, Claimed, Issued, TypeOK, CodeRow
  <1>4. /\ UNCHANGED <<users, account>> /\ Others(r)
        /\ \A o \in Records \ {p} : login'[o] = login[o]
        /\ login'[p] = login[p] \/ (login[p] = None /\ login'[p] = u)
    BY <1>1, <1>3 DEF LinkRecord, GoTo, Done, TypeOK, Others
  <1>5. \/ pc'[r] = "idle" /\ faults' = faults /\ login'[p] = u
        \/ /\ pc'[r] = "undo_account" /\ work'[r] = work[r]
           /\ faults' = faults /\ login' = login
        \/ pc'[r] = "undo_account" /\ work'[r] = work[r] /\ faults' = faults + 1
    BY <1>1, <1>3 DEF LinkRecord, GoTo, Done, Fault, TypeOK
  <1>6. OwnersApart'
    BY <1>1, <1>2, <1>4, <1>5 DEF OwnersApart, Others
  <1>7. ASSUME NEW q \in Requests PROVE Owned(q)'
    <2>1. CASE q = r
      BY <1>0, <1>1, <1>2, <1>4, <1>5, <2>1 DEF Owned, Unlinked
    <2>2. CASE q # r
      <3>1. pc[q] \in Owning => work[q].user \in Users \ {u}
        BY <1>2, <2>2, OwnerFacts
      <3>2. pc[q] \in Owning /\ Unlinked(work[q].user) => Unlinked(work[q].user)'
        BY <1>4, <2>2, <3>1 DEF Unlinked, Others
      <3> QED
        BY <1>0, <1>4, <1>5, <2>2, <3>1, <3>2 DEF Owned, Others
    <2> QED
      BY <2>1, <2>2
  <1>8. ASSUME NEW o \in Records PROVE Linked(o)'
    <2>1. CASE login'[o] = login[o]
      BY <1>4, <2>1, LinkedKept
    <2>2. CASE o = p /\ login'[p] = u
      <3>2. PICK e : e = work[r].email
        OBVIOUS
      <3>3. ProvedBy(p, e)'
        BY <1>3, <3>2, ProvedStays
      <3>4. users'[u] = e
        BY <1>2, <1>4, <3>2
      <3> QED
        BY <1>2, <1>3, <1>4, <2>2, <3>2, <3>3, <3>4 DEF Linked, ProvedBy
    <2> QED
      BY <1>4, <2>1, <2>2
  <1>9. ASSUME NothingLeftBehind PROVE NothingLeftBehind'
    <2> SUFFICES ASSUME faults' = 0, NEW x \in Users PROVE Accounted(x)'
      BY DEF NothingLeftBehind, Accounted
    <2>1. \A q \in People \ {r} : pc'[q] = pc[q] /\ work'[q] = work[q]
      BY <1>4 DEF Others, Requests
    <2>2. \A o \in Records : login[o] = x => login'[o] = x
      BY <1>0, <1>4
    <2> QED
      BY <1>0, <1>1, <1>2, <1>4, <1>5, <1>9, <2>1, <2>2 DEF NothingLeftBehind, Accounted
  <1> QED
    BY <1>6, <1>7, <1>8, <1>9 DEF OwnershipOK

LEMMA UndoAccountKeeps ==
    ASSUME TypeOK, KnowsCode, [Next]_vars, OwnershipOK,
           NEW r \in People, UndoAccount(r)
    PROVE  /\ OwnershipOK'
           /\ NothingLeftBehind => NothingLeftBehind'
  <1> OwnersApart /\ (\A q \in Requests : Owned(q)) /\ (\A p \in Records : Linked(p))
    BY DEF OwnershipOK
  <1> USE DEF Owning, OwnsAccount, OwnsRow, tables
  <1> r \in Requests
    BY DEF Requests
  <1>0. faults \in Nat /\ None \notin Users
    BY OwnerFacts
  <1>1. PICK u \in Users : u = work[r].user
    BY OwnerFacts DEF UndoAccount
  <1>2. \A q \in Requests \ {r} : pc[q] \in Owning => work[q].user # u
    BY <1>1, OwnerFacts DEF UndoAccount
  <1>3. /\ UNCHANGED <<login, users, work>> /\ Others(r)
        /\ \A x \in Users \ {u} : account'[x] = account[x]
        /\ account'[u] \in {account[u], NoAccount}
    BY <1>1 DEF UndoAccount, GoTo, TypeOK, Others
  <1>4. /\ \/ faults' = faults /\ account'[u] = NoAccount
           \/ faults' = faults + 1
        /\ \/ pc[r] = "undo_account" /\ pc'[r] = "undo_row"
           \/ pc[r] = "undo_created" /\ pc'[r] = "release"
    BY <1>1 DEF UndoAccount, GoTo, Fault, TypeOK
  <1>5. OwnersApart'
    BY <1>1, <1>2, <1>3, <1>4 DEF OwnersApart, Others
  <1>6. ASSUME NEW q \in Requests PROVE Owned(q)'
    <2>1. CASE q = r
      BY <1>0, <1>1, <1>3, <1>4, <2>1 DEF Owned, Unlinked
    <2>2. CASE q # r
      <3>1. pc[q] \in Owning => work[q].user \in Users \ {u}
        BY <1>2, <2>2, OwnerFacts
      <3> QED
        BY <1>0, <1>3, <1>4, <2>2, <3>1 DEF Owned, Unlinked, Others
    <2> QED
      BY <2>1, <2>2
  <1>7. ASSUME NEW p \in Records PROVE Linked(p)'
    <2>1. login[p] # None => login[p] \in Users
      BY DEF TypeOK
    <2> QED
      BY <1>3, <2>1, LinkedKept
  <1>8. ASSUME NothingLeftBehind PROVE NothingLeftBehind'
    <2> SUFFICES ASSUME faults' = 0, NEW x \in Users PROVE Accounted(x)'
      BY DEF NothingLeftBehind, Accounted
    <2>1. \A q \in People \ {r} : pc'[q] = pc[q] /\ work'[q] = work[q]
      BY <1>3 DEF Others, Requests
    <2>2. faults = 0 /\ account'[u] = NoAccount
      BY <1>0, <1>4
    <2>3. pc[r] = "undo_created" => users[u] = None
      BY <1>1, <2>2 DEF Owned
    <2> QED
      BY <1>1, <1>3, <1>4, <1>8, <2>1, <2>2, <2>3 DEF NothingLeftBehind, Accounted
  <1> QED
    BY <1>5, <1>6, <1>7, <1>8 DEF OwnershipOK

LEMMA UndoRowKeeps ==
    ASSUME TypeOK, KnowsCode, [Next]_vars, OwnershipOK,
           NEW r \in People, UndoRow(r)
    PROVE  /\ OwnershipOK'
           /\ NothingLeftBehind => NothingLeftBehind'
  <1> OwnersApart /\ (\A q \in Requests : Owned(q)) /\ (\A p \in Records : Linked(p))
    BY DEF OwnershipOK
  <1> USE DEF Owning, OwnsAccount, OwnsRow, tables
  <1> r \in Requests
    BY DEF Requests
  <1>0. faults \in Nat /\ None \notin Users
    BY OwnerFacts
  <1>1. PICK u \in Users : u = work[r].user
    BY OwnerFacts DEF UndoRow
  <1>2. \A q \in Requests \ {r} : pc[q] \in Owning => work[q].user # u
    BY <1>1, OwnerFacts DEF UndoRow
  <1>3. /\ UNCHANGED <<account, work>> /\ Others(r)
        /\ pc[r] = "undo_row" /\ pc'[r] = "release"
        /\ \A x \in Users \ {u} : users'[x] = users[x]
    BY <1>1 DEF UndoRow, GoTo, TypeOK, Others
  <1>4. \/ /\ faults' = faults /\ users'[u] = None
           /\ \A p \in Records : login'[p] = IF login[p] = u THEN None ELSE login[p]
        \/ faults' = faults + 1 /\ UNCHANGED <<users, login>>
    BY <1>1 DEF UndoRow, Fault, TypeOK
  <1>5. OwnersApart'
    BY <1>3 DEF OwnersApart, Others
  <1>6. ASSUME NEW q \in Requests PROVE Owned(q)'
    <2>1. CASE q = r
      BY <1>3, <2>1 DEF Owned
    <2>2. CASE q # r
      <3>1. pc[q] \in Owning => work[q].user \in Users \ {u}
        BY <1>2, <2>2, OwnerFacts
      <3>2. pc[q] \in Owning /\ Unlinked(work[q].user) => Unlinked(work[q].user)'
        BY <1>0, <1>3, <1>4, <2>2, <3>1 DEF Unlinked, Others
      <3> QED
        BY <1>0, <1>3, <1>4, <2>2, <3>1, <3>2 DEF Owned, Others
    <2> QED
      BY <2>1, <2>2
  <1>7. ASSUME NEW p \in Records PROVE Linked(p)'
    <2>1. CASE login'[p] = None
      BY <2>1 DEF Linked
    <2>2. CASE login'[p] # None
      <3>1. login'[p] = login[p] /\ login[p] \in Users
        BY <1>4, <2>2 DEF TypeOK
      <3>2. users'[login[p]] = users[login[p]]
        BY <1>3, <1>4, <2>2, <3>1
      <3> QED
        BY <1>3, <3>1, <3>2, LinkedKept
    <2> QED
      BY <2>1, <2>2
  <1>8. ASSUME NothingLeftBehind PROVE NothingLeftBehind'
    <2> SUFFICES ASSUME faults' = 0, NEW x \in Users PROVE Accounted(x)'
      BY DEF NothingLeftBehind, Accounted
    <2>1. \A q \in People \ {r} : pc'[q] = pc[q] /\ work'[q] = work[q]
      BY <1>3 DEF Others, Requests
    <2>2. faults = 0 /\ users'[u] = None
      BY <1>0, <1>4
    <2>3. \A p \in Records : login'[p] = login[p]
      BY <1>0, <1>1, <1>3, <1>4, <2>2 DEF Owned, Unlinked
    <2> QED
      BY <1>1, <1>3, <1>8, <2>1, <2>2, <2>3 DEF NothingLeftBehind, Accounted
  <1> QED
    BY <1>5, <1>6, <1>7, <1>8 DEF OwnershipOK

LEMMA OwnershipStep ==
    ASSUME TypeOK, KnowsCode, OwnershipOK, \A r \in Requests : Addressed(r), [Next]_vars
    PROVE  /\ OwnershipOK'
           /\ NothingLeftBehind => NothingLeftBehind'
  <1>1. ASSUME NEW r \in People, Builds(r)
        PROVE  OwnershipOK' /\ (NothingLeftBehind => NothingLeftBehind')
    BY <1>1, CreateAccountKeeps, CreateRowKeeps, AssignRoleKeeps, LinkRecordKeeps,
       UndoAccountKeeps, UndoRowKeeps DEF Builds, Requests
  <1> QED
    BY <1>1, CalmOrBuilds, CalmKeeps

-----------------------------------------------------------------------------
(* As long as nothing fails that should not, a login stays. *)
LEMMA LoginsStep ==
    ASSUME TypeOK, OwnershipOK, [Next]_vars, faults' = 0,
           NEW p \in Records, login[p] # None
    PROVE  login'[p] = login[p]
  <1>0. faults \in Nat
    BY OwnerFacts
  <1>1. CASE Calm
    BY <1>1 DEF Calm
  <1>2. ASSUME NEW r \in People, Builds(r) PROVE login'[p] = login[p]
    <2>1. CASE UndoRow(r)
      <3>1. Unlinked(work[r].user)
        BY <1>0, <2>1 DEF UndoRow, Fault, OwnershipOK, Owned, Owning, OwnsRow, Requests
      <3> QED
        BY <2>1, <3>1 DEF UndoRow, Unlinked
    <2>2. CASE LinkRecord(r)
      BY <2>2 DEF LinkRecord, TypeOK
    <2>3. CASE ~UndoRow(r) /\ ~LinkRecord(r)
      BY <1>2, <2>3 DEF Builds, CreateAccount, CreateRow, AssignRole, UndoAccount, tables
    <2> QED
      BY <2>1, <2>2, <2>3
  <1> QED
    BY <1>1, <1>2, CalmOrBuilds

(* A code is used from the step that claims it. *)
LEMMA UsedStep ==
    ASSUME TypeOK, KnowsCode, [Next]_vars,
           NEW k \in Codes, code'[k].used, ~code[k].used
    PROVE  \E r \in People : pc'[r] \in Claimed /\ work'[r].code = k
  <1>1. code[k] \in CodeRow /\ code' # code
    BY DEF TypeOK
  <1> USE DEF tables
  <1>2. ASSUME NEW r \in People, ClaimCode(r)
        PROVE  \E q \in People : pc'[q] \in Claimed /\ work'[q].code = k
    <2>1. work[r].code = k /\ pc'[r] = "email" /\ work' = work
      BY <1>1, <1>2 DEF ClaimCode, GoTo, TypeOK, CodeRow, Requests
    <2> QED
      BY <2>1 DEF Claimed
  <1>3. ASSUME NEW r \in People, RecordFailure(r) \/ ResetFailures(r) \/ ReleaseCode(r)
        PROVE  FALSE
    <2>1. CASE RecordFailure(r)
      BY <1>1, <2>1 DEF RecordFailure, TypeOK, CodeRow
    <2>2. CASE ResetFailures(r)
      BY <1>1, <2>2 DEF ResetFailures, TypeOK, CodeRow
    <2>3. CASE ReleaseCode(r)
      BY <1>1, <2>3 DEF ReleaseCode, TypeOK, CodeRow
    <2> QED
      BY <1>3, <2>1, <2>2, <2>3
  <1>4. ASSUME NEW a \in Admins, NEW b \in Batches, IssueCodes(a, b) PROVE FALSE
    <2> DEFINE T == work[a].targets
    <2>1. PICK new \in [T -> {j \in Codes : ~Issued(j)}] :
          code' = [j \in Codes |->
                IF \E p \in T : new[p] = j
                THEN [NoCode EXCEPT !.rec = CHOOSE p \in T : new[p] = j, !.batch = b]
                ELSE IF Live(j) /\ code[j].rec \in T
                THEN [code[j] EXCEPT !.revoked = TRUE]
                ELSE code[j]]
      BY <1>4 DEF IssueCodes
    <2> HIDE DEF T
    <2>2. \/ \E x, y : code'[k] = [NoCode EXCEPT !.rec = x, !.batch = y]
          \/ code'[k] = [code[k] EXCEPT !.revoked = TRUE]
          \/ code'[k] = code[k]
      BY <2>1
    <2> QED
      BY <1>1, <2>2 DEF NoCode, CodeRow
  <1>5. ASSUME NEW b \in Batches, RevokeBatch(b) PROVE FALSE
    BY <1>1, <1>5 DEF RevokeBatch, CodeRow
  <1>6. ASSUME NEW j \in Codes, ExpireCode(j) \/ LockEnds(j) PROVE FALSE
    BY <1>1, <1>6 DEF ExpireCode, LockEnds, TypeOK, CodeRow
  <1>7. ASSUME NEW r \in People, Start(r) \/ Complete(r)
        PROVE  RecordFailure(r) \/ ResetFailures(r) \/ ReleaseCode(r) \/ ClaimCode(r)
    BY <1>1, <1>7 DEF Start, Complete, StartMismatch, StartMatch, EmailInUse,
       CreateEmailToken, BeginComplete, ConsumeToken, CheckEmail, CreateAccount,
       CreateAccountFails, CreateRow, AssignRole, LinkRecord, UndoAccount, UndoRow
  <1> QED
    BY <1>1, <1>2, <1>3, <1>4, <1>5, <1>6, <1>7 DEF Next, Administer, BeginGenerate,
       BeginDeleteOrphan, DeleteOrphan, Die, Abandon, UpdateSettings, ExpireToken, vars

(* What ClaimResolved says of one code. *)
Another(k) == \E j \in Codes \ {k} : code[j].rec = code[k].rec

Resolved(k) ==
    \/ \E r \in People : pc[r] \in Claimed /\ work[r].code = k
    \/ HasLogin(k)
    \/ Another(k)

LEMMA AnotherStays ==
    ASSUME TypeOK, KnowsCode, [Next]_vars, NEW k \in Codes, Issued(k), Another(k)
    PROVE  Another(k)'
  <1>1. PICK j \in Codes \ {k} : code[j].rec = code[k].rec
    BY DEF Another
  <1>2. Issued(j)
    BY <1>1 DEF Issued
  <1> QED
    BY <1>1, <1>2, RecordsStay DEF Another

(* What a request that has claimed its code may do, when nothing stops it. *)
LEMMA ClaimantStep ==
    ASSUME TypeOK, [Next]_vars, faults' = 0, NEW r \in People, pc[r] \in Claimed
    PROVE  \/ pc'[r] = pc[r] /\ work'[r] = work[r]
           \/ CheckEmail(r) \/ CreateAccountFails(r) \/ CreateRow(r) \/ AssignRole(r)
           \/ \E u \in Users : CreateAccount(r, u)
           \/ LinkRecord(r) \/ UndoAccount(r) \/ UndoRow(r) \/ ReleaseCode(r)
  <1> r \in Requests /\ faults \in Nat
    BY ActivationAssumption DEF TypeOK, Requests
  <1> USE DEF Claimed
  <1>1. ASSUME Start(r) PROVE FALSE
    BY <1>1 DEF Start, StartMismatch, StartMatch, RecordFailure, ResetFailures,
       EmailInUse, CreateEmailToken
  <1>2. ASSUME Complete(r), ~(CheckEmail(r) \/ CreateAccountFails(r) \/ CreateRow(r)),
               ~(\E u \in Users : CreateAccount(r, u)), ~(AssignRole(r) \/ LinkRecord(r)),
               ~(UndoAccount(r) \/ UndoRow(r) \/ ReleaseCode(r))
        PROVE  FALSE
    BY <1>2 DEF Complete, BeginComplete, ConsumeToken, ClaimCode
  <1>3. ASSUME NEW q \in People, q # r, Start(q) \/ Complete(q)
        PROVE  pc'[r] = pc[r] /\ work'[r] = work[r]
    <2>1. CASE Start(q)
      BY <1>3, <2>1 DEF Start, StartMismatch, StartMatch, RecordFailure, ResetFailures,
         EmailInUse, CreateEmailToken, GoTo, Done, TypeOK
    <2>2. CASE Complete(q)
      BY <1>3, <2>2 DEF Complete, BeginComplete, ConsumeToken, ClaimCode, CheckEmail,
         CreateAccount, CreateAccountFails, CreateRow, AssignRole, LinkRecord,
         UndoAccount, UndoRow, ReleaseCode, GoTo, Done, TypeOK
    <2> QED
      BY <1>3, <2>1, <2>2
  <1>4. ASSUME NEW a \in Admins, Administer(a)
        PROVE  pc'[r] = pc[r] /\ work'[r] = work[r]
    BY <1>4 DEF Administer, BeginGenerate, IssueCodes, BeginDeleteOrphan, DeleteOrphan,
       GoTo, Done, TypeOK, Requests
  <1>5. ASSUME NEW q \in Requests, Abandon(q)
        PROVE  pc'[r] = pc[r] /\ work'[r] = work[r]
    BY <1>5 DEF Abandon, Done, TypeOK
  <1>6. ASSUME NEW q \in People, Die(q) PROVE FALSE
    BY <1>6 DEF Die, Fault
  <1>7. CASE UNCHANGED <<pc, work>>
    BY <1>7
  <1> QED
    BY <1>1, <1>2, <1>3, <1>4, <1>5, <1>6, <1>7 DEF Next, UpdateSettings, RevokeBatch,
       ExpireCode, LockEnds, ExpireToken, vars

(* A claim ends with a login, a release, or another code of the record. *)
LEMMA ClaimEnds ==
    ASSUME TypeOK, KnowsCode, [Next]_vars, faults' = 0,
           NEW k \in Codes, Issued(k), code'[k].used,
           NEW r \in People, pc[r] \in Claimed, work[r].code = k,
           OwnershipOK
    PROVE  Resolved(k)'
  <1> r \in Requests /\ faults \in Nat /\ code[k] \in CodeRow
    BY ActivationAssumption DEF TypeOK, Requests
  <1>1. code'[k].rec = code[k].rec
    BY RecordsStay
  <1> USE DEF tables
  <1>2. CASE pc'[r] \in Claimed /\ work'[r].code = k
    BY <1>2 DEF Resolved
  <1>3. CASE LinkRecord(r)
    <2>1. work[r].user \in Users
      BY <1>3 DEF LinkRecord, OwnershipOK, OwnersApart, Owning, OwnsAccount
    <2>2. code[k].rec \in Records /\ None \notin Users
      BY OwnerFacts DEF Issued, CodeRow
    <2>3. CASE login' = [login EXCEPT ![code[k].rec] = work[r].user]
      <3>1. login'[code'[k].rec] = work[r].user
        BY <1>1, <2>2, <2>3 DEF TypeOK
      <3> QED
        BY <2>1, <2>2, <3>1 DEF Resolved, HasLogin
    <2>4. CASE GoTo(r, "undo_account") /\ work' = work
      BY <1>2, <2>4 DEF GoTo, TypeOK, Claimed
    <2> QED
      BY <1>3, <2>3, <2>4 DEF LinkRecord
  <1>4. CASE ReleaseCode(r)
    <2>1. OtherLive(k)
      BY <1>4 DEF ReleaseCode, Fault, TypeOK, CodeRow
    <2>2. Another(k)
      BY <2>1 DEF OtherLive, Another
    <2> QED
      BY <2>2, AnotherStays DEF Resolved
  <1>5. CASE CheckEmail(r) \/ CreateAccountFails(r) \/ CreateRow(r) \/ AssignRole(r)
    BY <1>2, <1>5 DEF CheckEmail, CreateAccountFails, CreateRow, AssignRole, GoTo,
       TypeOK, Claimed
  <1>6. CASE UndoAccount(r) \/ UndoRow(r)
    BY <1>2, <1>6 DEF UndoAccount, UndoRow, GoTo, TypeOK, Claimed
  <1>7. ASSUME NEW u \in Users, CreateAccount(r, u) PROVE Resolved(k)'
    BY <1>2, <1>7 DEF CreateAccount, GoTo, TypeOK, Work, Claimed
  <1>8. CASE pc'[r] = pc[r] /\ work'[r] = work[r]
    BY <1>2, <1>8
  <1> QED
    BY <1>3, <1>4, <1>5, <1>6, <1>7, <1>8, ClaimantStep

LEMMA FaultsGrow ==
    ASSUME TypeOK, [Next]_vars, faults' = 0
    PROVE  faults = 0
  <1>1. faults \in Nat
    BY ActivationAssumption DEF TypeOK
  <1>2. Calm => faults = 0
    BY <1>1 DEF Calm
  <1>3. ASSUME NEW r \in People, Builds(r) PROVE faults = 0
    BY <1>1, <1>3 DEF Builds, CreateAccount, CreateRow, AssignRole, LinkRecord, UndoAccount,
       UndoRow, Fault
  <1> QED
    BY <1>2, <1>3, CalmOrBuilds

LEMMA ClaimResolvedStep ==
    ASSUME TypeOK, KnowsCode, UsedIssued, OwnershipOK, ClaimResolved, [Next]_vars
    PROVE  ClaimResolved'
  <1> SUFFICES ASSUME faults' = 0, NEW k \in Codes, code'[k].used
               PROVE  Resolved(k)'
    BY DEF ClaimResolved, Resolved, Another
  <1>1. CASE ~code[k].used
    BY <1>1, UsedStep DEF Resolved
  <1>2. CASE code[k].used
    <2>1. Issued(k) /\ Resolved(k)
      <3>1. faults = 0
        BY OwnerFacts, FaultsGrow
      <3> QED
        BY <1>2, <3>1 DEF UsedIssued, ClaimResolved, Resolved, Another
    <2>2. CASE \E r \in People : pc[r] \in Claimed /\ work[r].code = k
      BY <2>1, <2>2, ClaimEnds
    <2>3. CASE HasLogin(k)
      <3>1. code[k].rec \in Records /\ code'[k].rec = code[k].rec
        BY <2>1, RecordsStay DEF Issued, TypeOK, CodeRow
      <3>2. login'[code[k].rec] = login[code[k].rec]
        BY <2>3, <3>1, LoginsStep DEF HasLogin
      <3> QED
        BY <2>3, <3>1, <3>2 DEF Resolved, HasLogin
    <2>4. CASE Another(k)
      BY <2>1, <2>4, AnotherStays DEF Resolved
    <2> QED
      BY <2>1, <2>2, <2>3, <2>4 DEF Resolved
  <1> QED
    BY <1>1, <1>2

-----------------------------------------------------------------------------
LEMMA LoginsInit == Init => LoginsOK
  <1> SUFFICES ASSUME Init PROVE LoginsOK
    OBVIOUS
  <1>1. \A r \in Requests : pc[r] = "idle"
    BY DEF Init
  <1>2. Claimants /\ (\A r \in Requests : Addressed(r))
    BY <1>1 DEF Claimants, Addressed, Claimed
  <1>3. TokensSent
    BY DEF TokensSent, Init, NoToken
  <1>4. OwnershipOK
    BY <1>1 DEF OwnershipOK, OwnersApart, Owned, Linked, Init, Owning, OwnsAccount, OwnsRow
  <1>5. NothingLeftBehind
    BY DEF NothingLeftBehind, Init
  <1>6. ClaimResolved
    BY DEF ClaimResolved, Init, NoCode
  <1> QED
    BY <1>2, <1>3, <1>4, <1>5, <1>6 DEF LoginsOK

LEMMA LoginsNext == IInv /\ LoginsOK /\ [Next]_vars => LoginsOK'
  <1> SUFFICES ASSUME IInv, LoginsOK, [Next]_vars PROVE LoginsOK'
    OBVIOUS
  <1> TypeOK /\ KnowsCode /\ UsedIssued
    BY DEF IInv, CodesOK
  <1> Claimants /\ TokensSent /\ (\A r \in Requests : Addressed(r)) /\ OwnershipOK
    BY DEF LoginsOK
  <1>1. Claimants' /\ TokensSent'
    BY ClaimantsStep, TokensSentStep
  <1>2. \A r \in Requests : Addressed(r)'
    BY AddressedStep
  <1>3. OwnershipOK' /\ NothingLeftBehind'
    BY OwnershipStep DEF LoginsOK
  <1>4. ClaimResolved'
    BY ClaimResolvedStep DEF LoginsOK
  <1>5. (\A r \in Requests : Addressed(r))'
    BY <1>2 DEF Requests
  <1> QED
    BY <1>1, <1>3, <1>4, <1>5 DEF LoginsOK

(* What links, requests and identities have to do with each other. *)
THEOREM LoginsInvariant == Spec => [](IInv /\ LoginsOK)
  <1>1. Init => LoginsOK
    BY LoginsInit
  <1>2. IInv /\ LoginsOK /\ [Next]_vars => LoginsOK'
    BY LoginsNext
  <1> QED
    BY <1>1, <1>2, Inductive, PTL DEF Spec

(* Whatever fails, a record is linked to a row of users with an address    *)
(* that a link proved for that very record, and its account has the role   *)
(* (LinkActivatedStudent, LinkActivatedGuardian, after AssignRole).        *)
THEOREM LinksAreProved == Spec => []LinkedLogin
  <1>1. IInv /\ LoginsOK => LinkedLogin
    <2> SUFFICES ASSUME OwnershipOK, NEW p \in Records, login[p] # None
                 PROVE  /\ users[login[p]] \in Proved(p)
                        /\ account[login[p]] # NoAccount => account[login[p]].role
      BY DEF LoginsOK, LinkedLogin
    <2>1. Linked(p)
      BY DEF OwnershipOK
    <2>2. PICK t \in Tokens : /\ token[t].used /\ token[t].email = users[login[p]]
                              /\ code[token[t].code].rec = p
      BY <2>1 DEF Linked, ProvedBy
    <2> QED
      BY <2>1, <2>2 DEF Linked, Proved
  <1> QED
    BY <1>1, LoginsInvariant, PTL

(* Complete and its undo calls leave no account and no row of users that   *)
(* is neither linked nor in the hands of a request, unless an undo call    *)
(* failed, an answer was lost or the server stopped.                       *)
THEOREM NothingIsLeft == Spec => []NothingLeftBehind
  <1>1. LoginsOK => NothingLeftBehind
    BY DEF LoginsOK
  <1> QED
    BY <1>1, LoginsInvariant, PTL

(* With the same reservation, a used code is being worked on, has given    *)
(* its record a login, or belongs to a record with another code            *)
(* (ReleaseActivationCode).                                                *)
THEOREM ClaimsResolve == Spec => []ClaimResolved
  <1>1. LoginsOK => ClaimResolved
    BY DEF LoginsOK
  <1> QED
    BY <1>1, LoginsInvariant, PTL

(* With the same reservation, no step replaces a login or takes it away,   *)
(* not even the undo of another request (LinkRecord, UndoRow).             *)
THEOREM LoginsStay == Spec => LoginKept
  <1>1. IInv /\ LoginsOK /\ [Next]_vars =>
          [\A p \in Records : login[p] # None /\ faults' = 0 => login'[p] = login[p]]_vars
    BY LoginsStep DEF IInv, LoginsOK
  <1> QED
    BY <1>1, LoginsInvariant, PTL DEF Spec, LoginKept

=============================================================================
