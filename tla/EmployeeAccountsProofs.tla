------------------------ MODULE EmployeeAccountsProofs ------------------------
(***************************************************************************)
(* Theorems about EmployeeAccounts, for any number of employees, browsers, *)
(* tokens and changes.                                                     *)
(*                                                                         *)
(* The invariant speaks of one employee, one session or one request at a   *)
(* time.  A step changes the row of one employee, or what one browser has; *)
(* RowStep and BrowserStep say once what such a step must see to, and      *)
(* every action is an instance of one of them.                             *)
(***************************************************************************)
EXTENDS EmployeeAccounts, TLAPS

(* A row's session version counts deactivations, its token is the last one *)
(* handed out, and whoever has no password has set none.                   *)
RowOK(row, d, s, n) ==
    /\ row \in Employee /\ d \in Nat /\ s \in Seq(Nat) /\ n \in Nat
    /\ row.sessionVersion = n
    /\ row.token # None => row.token = d /\ ~row.password
    /\ ~row.password => s = <<>>
    /\ s # <<>> => s = <<d>>

EmployeeOK(e) == Exists(e) => RowOK(employees[e], drawn[e], sets[e], ended[e])

(* A principal has an employee, and the session version of the row as it   *)
(* was after `since` deactivations.                                        *)
PrincipalOK(p) == p # None => Exists(p.of) /\ p.sessionVersion = p.since

(* The row active has read is the row as it is, if its version still is.   *)
SnapshotOK(e, row) ==
    /\ row.version <= employees[e].version
    /\ row.version = employees[e].version => row = employees[e]

RequestOK(q) ==
    q # None =>
        /\ PrincipalOK(q.principal)
        /\ q.at = "authenticated" => q.principal # None
        /\ q.of # None => Exists(q.of)
        /\ q.at \in {"found", "opened"} => q.of # None
        /\ q.at = "opened" => q.row # None /\ q.row.active # q.active /\ SnapshotOK(q.of, q.row)

Accounts ==
    /\ AccountsTypeOK
    /\ \A e \in People : EmployeeOK(e)
    /\ \A b \in Browsers : PrincipalOK(sessions[b]) /\ RequestOK(requests[b])
-----------------------------------------------------------------------------
LEMMA InitAccounts == ASSUME Init PROVE Accounts
BY AccountsNoneAssumption
   DEF Init, Accounts, AccountsTypeOK, EmployeeOK, Exists, PrincipalOK, RequestOK

(* What one browser has changes, and no row.                               *)
LEMMA BrowserStep ==
    ASSUME Accounts, NEW b \in Browsers,
           NEW p \in Principal \cup {None}, NEW q \in Request \cup {None},
           UNCHANGED <<employees, history>>, expired' \subseteq People \X Nat,
           sessions' = [sessions EXCEPT ![b] = p], requests' = [requests EXCEPT ![b] = q],
           PrincipalOK(p), RequestOK(q)
    PROVE  Accounts'
<1>1. AccountsTypeOK'
  BY DEF Accounts, AccountsTypeOK, history, PrincipalOK, Exists
<1>2. \A e \in People : EmployeeOK(e)'
  BY DEF Accounts, EmployeeOK, Exists, history
<1>3. ASSUME NEW c \in Browsers PROVE PrincipalOK(sessions[c])'
  BY <1>3 DEF Accounts, AccountsTypeOK, PrincipalOK, Exists
<1>4. ASSUME NEW c \in Browsers PROVE RequestOK(requests[c])'
  <2>1. requests'[c] = IF c = b THEN q ELSE requests[c]
    BY DEF Accounts, AccountsTypeOK
  <2>2. RequestOK(requests'[c])
    BY <2>1 DEF Accounts
  <2>3. QED
    BY <2>2 DEF RequestOK, PrincipalOK, SnapshotOK, Exists
<1>5. QED
  BY <1>1, <1>2, <1>3, <1>4 DEF Accounts

(* The row of one employee is created or changed, by a request that ends   *)
(* with it or by no request.                                               *)
LEMMA RowStep ==
    ASSUME Accounts, NEW e \in People, NEW row,
           NEW d, NEW s, NEW n, RowOK(row, d, s, n),
           Exists(e) => row.version = employees[e].version + 1,
           employees' = [employees EXCEPT ![e] = row],
           drawn' = [drawn EXCEPT ![e] = d], sets' = [sets EXCEPT ![e] = s],
           ended' = [ended EXCEPT ![e] = n],
           UNCHANGED <<expired, sessions>>,
           \/ UNCHANGED requests
           \/ \E b \in Browsers : Answered(b)
    PROVE  Accounts'
<1>1. \A f \in People : Exists(f) => Exists(f)'
  BY AccountsNoneAssumption DEF Accounts, AccountsTypeOK, Exists, RowOK, Employee
<1>2. \A b \in Browsers : requests'[b] \in {requests[b], None}
  BY DEF Answered, Accounts, AccountsTypeOK
<1>3. AccountsTypeOK'
  <2>1. requests' \in [Browsers -> Request \cup {None}]
    BY DEF Answered, Accounts, AccountsTypeOK
  <2>2. employees'[e] = row /\ row # None
    BY AccountsNoneAssumption DEF Accounts, AccountsTypeOK, RowOK, Employee
  <2>3. ASSUME NEW f \in People, employees'[f] = None
        PROVE  drawn'[f] = 0 /\ ended'[f] = 0 /\ sets'[f] = <<>>
    BY <2>2, <2>3 DEF Accounts, AccountsTypeOK
  <2>4. \A b \in Browsers : sessions'[b] # None => employees'[sessions'[b].of] # None
    BY <1>1 DEF Accounts, AccountsTypeOK, Exists, Principal
  <2>5. QED
    BY <2>1, <2>2, <2>3, <2>4 DEF Accounts, AccountsTypeOK, RowOK
<1>4. ASSUME NEW f \in People PROVE EmployeeOK(f)'
  BY DEF Accounts, AccountsTypeOK, EmployeeOK, Exists
<1>5. ASSUME NEW p \in Principal \cup {None}, PrincipalOK(p) PROVE PrincipalOK(p)'
  BY <1>1, <1>5 DEF PrincipalOK, Principal
<1>6. ASSUME NEW q \in Request, RequestOK(q), q # None, q.at = "opened"
      PROVE  SnapshotOK(q.of, q.row)'
  <2>1. q.of \in People /\ q.row \in Employee /\ Exists(q.of) /\ SnapshotOK(q.of, q.row)
    BY <1>6 DEF RequestOK, Request
  <2>2. CASE q.of = e
    <3>1. employees'[e] = row /\ row.version = employees[e].version + 1
      BY <2>1, <2>2 DEF Accounts, AccountsTypeOK
    <3>2. employees[e] \in Employee
      BY <2>1, <2>2 DEF Accounts, AccountsTypeOK, Exists
    <3>3. employees[e].version \in Nat /\ q.row.version \in Nat
      BY <2>1, <3>2 DEF Employee
    <3>4. QED
      BY <2>1, <2>2, <3>1, <3>3 DEF SnapshotOK
  <2>3. CASE q.of # e
    BY <2>1, <2>3 DEF SnapshotOK, Accounts, AccountsTypeOK
  <2>4. QED
    BY <2>2, <2>3
<1>7. ASSUME NEW q \in Request \cup {None}, RequestOK(q) PROVE RequestOK(q)'
  <2>1. CASE q = None
    BY <2>1 DEF RequestOK
  <2>2. CASE q # None
    <3>1. q \in Request /\ q.principal \in Principal \cup {None} /\ q.of \in People \cup {None}
      BY <2>2 DEF Request
    <3>2. PrincipalOK(q.principal)'
      BY <1>5, <1>7, <2>2, <3>1 DEF RequestOK
    <3>3. q.of # None => Exists(q.of)'
      BY <1>1, <1>7, <2>2, <3>1 DEF RequestOK
    <3>4. QED
      BY <1>6, <1>7, <2>2, <3>1, <3>2, <3>3 DEF RequestOK
  <2>3. QED
    BY <2>1, <2>2
<1>8. ASSUME NEW b \in Browsers PROVE (PrincipalOK(sessions[b]) /\ RequestOK(requests[b]))'
  <2>1. sessions'[b] = sessions[b] /\ sessions[b] \in Principal \cup {None} /\ PrincipalOK(sessions[b])
    BY DEF Accounts, AccountsTypeOK
  <2>2. requests'[b] \in Request \cup {None} /\ RequestOK(requests'[b])
    BY <1>2, <1>3 DEF Accounts, AccountsTypeOK, RequestOK
  <2>3. QED
    BY <1>5, <1>7, <2>1, <2>2
<1>9. QED
  BY <1>3, <1>4, <1>8 DEF Accounts
-----------------------------------------------------------------------------
(* Admission.                                                              *)
LEMMA AdmitStep == ASSUME Accounts, NEW b \in Browsers, Admit(b) PROVE Accounts'
<1>1. ASSUME NEW a \in People \cup {None} PROVE Admitted(a) \in Request /\ RequestOK(Admitted(a))
  BY AccountsNoneAssumption DEF Admitted, Request, RequestOK, PrincipalOK
<1>2. PICK a \in People \cup {None} : requests' = [requests EXCEPT ![b] = Admitted(a)]
  BY DEF Admit, Accounts, AccountsTypeOK, Principal
<1>3. sessions' = [sessions EXCEPT ![b] = sessions[b]] /\ sessions[b] \in Principal \cup {None}
      /\ PrincipalOK(sessions[b])
  BY DEF Admit, Accounts, AccountsTypeOK
<1>4. UNCHANGED <<employees, history>> /\ expired' \subseteq People \X Nat
  BY DEF Admit, Accounts, AccountsTypeOK, history
<1>5. QED
  BY <1>1, <1>2, <1>3, <1>4, BrowserStep

(* A session that ends leaves the request as it is or takes it away.       *)
LEMMA DropStep ==
    ASSUME Accounts, NEW b \in Browsers, UNCHANGED <<employees, expired, history>>,
           sessions' \in {sessions, [sessions EXCEPT ![b] = None]},
           requests' \in {requests, [requests EXCEPT ![b] = None]}
    PROVE  Accounts'
<1>1. PICK p \in {sessions[b], None} : sessions' = [sessions EXCEPT ![b] = p]
  BY DEF Accounts, AccountsTypeOK
<1>2. PICK q \in {requests[b], None} : requests' = [requests EXCEPT ![b] = q]
  BY DEF Accounts, AccountsTypeOK
<1>3. p \in Principal \cup {None} /\ PrincipalOK(p)
  BY <1>1 DEF Accounts, AccountsTypeOK, PrincipalOK
<1>4. q \in Request \cup {None} /\ RequestOK(q)
  BY <1>2 DEF Accounts, AccountsTypeOK, RequestOK
<1>5. expired' \subseteq People \X Nat
  BY DEF Accounts, AccountsTypeOK
<1>6. QED
  BY <1>1, <1>2, <1>3, <1>4, <1>5, BrowserStep

LEMMA EndStep ==
    ASSUME Accounts, NEW b \in Browsers,
           RejectAuthentication(b) \/ Answer(b) \/ LoseSession(b) \/ SessionExpires(b)
    PROVE  Accounts'
BY DropStep DEF RejectAuthentication, Answer, LoseSession, SessionExpires, Answered

(* A request that goes on keeps the sessions.                              *)
LEMMA RequestStep ==
    ASSUME Accounts, NEW b \in Browsers, NEW q \in Request, RequestOK(q),
           UNCHANGED <<employees, expired, sessions, history>>,
           requests' = [requests EXCEPT ![b] = q]
    PROVE  Accounts'
<1>1. sessions' = [sessions EXCEPT ![b] = sessions[b]] /\ sessions[b] \in Principal \cup {None}
      /\ PrincipalOK(sessions[b]) /\ expired' \subseteq People \X Nat
  BY DEF Accounts, AccountsTypeOK
<1>2. QED
  BY <1>1, BrowserStep

LEMMA RequestNow ==
    ASSUME Accounts, NEW b \in Browsers, requests[b] # None
    PROVE  requests[b] \in Request /\ RequestOK(requests[b])
BY DEF Accounts, AccountsTypeOK

LEMMA AuthenticateStep ==
    ASSUME Accounts, NEW b \in Browsers, NEW e \in People, Authenticate(b, e)
    PROVE  Accounts'
<1> DEFINE p == [of |-> e, since |-> ended[e], sessionVersion |-> employees[e].sessionVersion]
           q == [requests[b] EXCEPT !.at = "authenticated", !.principal = p]
<1>1. requests[b] \in Request /\ RequestOK(requests[b]) /\ requests[b].at = "admitted"
      /\ requests[b] # None
  BY RequestNow DEF Authenticate, At
<1>2. p \in Principal /\ PrincipalOK(p) /\ p # None
  BY AccountsNoneAssumption
     DEF Authenticate, Accounts, AccountsTypeOK, EmployeeOK, Exists, RowOK, Employee, Principal,
         PrincipalOK
<1>3. q \in Request /\ q.principal = p /\ q.at = "authenticated" /\ q.of = requests[b].of
  BY <1>1, <1>2 DEF Request
<1>4. RequestOK(q)
  BY <1>1, <1>2, <1>3 DEF RequestOK
<1>5. requests' = [requests EXCEPT ![b] = q]
  BY DEF Authenticate
<1>6. UNCHANGED <<employees, expired, sessions, history>>
  BY DEF Authenticate
<1> HIDE DEF q
<1>7. QED
  BY <1>3, <1>4, <1>5, <1>6, RequestStep

LEMMA SaveSessionStep ==
    ASSUME Accounts, NEW b \in Browsers, SaveSession(b) PROVE Accounts'
<1>1. requests[b] \in Request /\ RequestOK(requests[b]) /\ requests[b].at = "authenticated"
      /\ requests[b] # None
  BY RequestNow DEF SaveSession, At
<1>2. requests[b].principal \in Principal \cup {None} /\ PrincipalOK(requests[b].principal)
  BY <1>1 DEF Request, RequestOK
<1>3. sessions' = [sessions EXCEPT ![b] = requests[b].principal]
      /\ requests' = [requests EXCEPT ![b] = None]
  BY DEF SaveSession, Established, Answered
<1>4. RequestOK(None)
  BY DEF RequestOK
<1>5. UNCHANGED <<employees, history>> /\ expired' \subseteq People \X Nat
  BY DEF SaveSession, Accounts, AccountsTypeOK
<1>6. QED
  BY <1>2, <1>3, <1>4, <1>5, BrowserStep

LEMMA FindByTokenStep ==
    ASSUME Accounts, NEW b \in Browsers, NEW e \in People, NEW t \in Nat, FindByToken(b, e, t)
    PROVE  Accounts'
<1> DEFINE q == [requests[b] EXCEPT !.at = "found", !.of = e, !.token = t]
<1>1. requests[b] \in Request /\ RequestOK(requests[b]) /\ requests[b] # None
  BY RequestNow DEF FindByToken, At
<1>2. q \in Request /\ q.of = e /\ q.at = "found" /\ q.principal = requests[b].principal
  BY <1>1 DEF Request
<1>3. Exists(e) /\ e # None
  BY AccountsNoneAssumption DEF FindByToken
<1>4. RequestOK(q)
  BY <1>1, <1>2, <1>3 DEF RequestOK
<1>5. requests' = [requests EXCEPT ![b] = q]
  BY DEF FindByToken
<1>6. UNCHANGED <<employees, expired, sessions, history>>
  BY DEF FindByToken
<1> HIDE DEF q
<1>7. QED
  BY <1>2, <1>4, <1>5, <1>6, RequestStep

LEMMA OpenActiveStep ==
    ASSUME Accounts, NEW b \in Browsers, NEW e \in People, NEW active \in BOOLEAN,
           OpenActive(b, e, active)
    PROVE  Accounts'
<1> DEFINE q == [requests[b] EXCEPT !.at = "opened", !.of = e, !.active = active,
                                    !.row = employees[e]]
<1>1. requests[b] \in Request /\ RequestOK(requests[b]) /\ requests[b] # None
  BY RequestNow DEF OpenActive, IsAdmin, At
<1>2. employees[e] \in Employee /\ employees[e] # None /\ employees[e].active # active /\ Exists(e)
  BY DEF OpenActive, Exists, Accounts, AccountsTypeOK
<1>3. q \in Request /\ q.of = e /\ q.at = "opened" /\ q.principal = requests[b].principal
      /\ q.row = employees[e] /\ q.active = active
  BY <1>1, <1>2 DEF Request
<1>4. SnapshotOK(e, employees[e])
  BY <1>2 DEF SnapshotOK, Employee
<1>5. RequestOK(q)
  BY <1>1, <1>2, <1>3, <1>4, AccountsNoneAssumption DEF RequestOK
<1>6. requests' = [requests EXCEPT ![b] = q]
  BY DEF OpenActive
<1>7. UNCHANGED <<employees, expired, sessions, history>>
  BY DEF OpenActive
<1> HIDE DEF q
<1>8. QED
  BY <1>3, <1>5, <1>6, <1>7, RequestStep
-----------------------------------------------------------------------------
(* What is known of an employee before a step.                             *)
LEMMA EmployeeNow ==
    ASSUME Accounts, NEW e \in People
    PROVE  /\ drawn[e] \in Nat /\ ended[e] \in Nat /\ sets[e] \in Seq(Nat)
           /\ ~Exists(e) => drawn[e] = 0 /\ ended[e] = 0 /\ sets[e] = <<>>
           /\ Exists(e) => /\ employees[e] \in Employee
                           /\ RowOK(employees[e], drawn[e], sets[e], ended[e])
           /\ drawn = [drawn EXCEPT ![e] = drawn[e]]
           /\ sets = [sets EXCEPT ![e] = sets[e]]
           /\ ended = [ended EXCEPT ![e] = ended[e]]
BY DEF Accounts, AccountsTypeOK, EmployeeOK, Exists

(* The rows the three changes of an employee save.                         *)
LEMMA SavedRow ==
    ASSUME NEW r \in Employee
    PROVE  /\ Saved(r) \in Employee /\ Saved(r).version = r.version + 1
           /\ Saved(r).sessionVersion = r.sessionVersion /\ Saved(r).token = r.token
           /\ Saved(r).password = r.password
BY DEF Saved, Employee

LEMMA TokenRow ==
    ASSUME NEW r \in Employee, NEW t \in Nat
    PROVE  /\ [r EXCEPT !.token = t] \in Employee
           /\ [r EXCEPT !.token = t].token = t
           /\ [r EXCEPT !.token = t].version = r.version
           /\ [r EXCEPT !.token = t].sessionVersion = r.sessionVersion
           /\ [r EXCEPT !.token = t].password = r.password
BY DEF Employee

LEMMA PasswordRow ==
    ASSUME NEW r \in Employee, NEW q, q = [r EXCEPT !.password = TRUE, !.token = None]
    PROVE  /\ q \in Employee /\ q.token = None /\ q.password = TRUE
           /\ q.version = r.version /\ q.sessionVersion = r.sessionVersion
BY DEF Employee

LEMMA ActiveRow ==
    ASSUME NEW r \in Employee, NEW active \in BOOLEAN, r.active # active
    PROVE  /\ SetActive(r, active) \in Employee
           /\ SetActive(r, active).version = r.version
           /\ SetActive(r, active).sessionVersion =
                 IF active THEN r.sessionVersion ELSE r.sessionVersion + 1
           /\ SetActive(r, active).token = r.token
           /\ SetActive(r, active).password = r.password
<1> DEFINE v == IF active THEN r.sessionVersion ELSE r.sessionVersion + 1
<1>1. v \in Nat /\ r.active \in BOOLEAN
  BY DEF Employee
<1>2. (IF r.active /\ ~active THEN r.sessionVersion + 1 ELSE r.sessionVersion) = v
  BY <1>1
<1>3. SetActive(r, active) = [r EXCEPT !.active = active, !.sessionVersion = v]
  BY <1>2 DEF SetActive
<1> HIDE DEF v
<1>4. SetActive(r, active).sessionVersion = v
  BY <1>3 DEF Employee
<1>5. /\ SetActive(r, active) \in Employee
      /\ SetActive(r, active).version = r.version
      /\ SetActive(r, active).token = r.token
      /\ SetActive(r, active).password = r.password
  BY <1>1, <1>3 DEF Employee
<1>6. QED
  BY <1>4, <1>5 DEF v

LEMMA IssueStep ==
    ASSUME Accounts, NEW b \in Browsers, NEW e \in People, Issue(b, e) PROVE Accounts'
<1> DEFINE d == drawn[e] + 1
<1>1. ~Exists(e) /\ d \in Nat /\ drawn' = [drawn EXCEPT ![e] = d] /\ drawn'[e] = d
  BY EmployeeNow DEF Issue, Draw, Accounts, AccountsTypeOK
<1>2. PICK admin \in BOOLEAN : employees' = [employees EXCEPT ![e] = NewEmployee(admin, FALSE, d)]
  BY <1>1 DEF Issue, Update
<1>3. RowOK(NewEmployee(admin, FALSE, d), d, sets[e], ended[e])
  BY <1>1, EmployeeNow DEF RowOK, NewEmployee, Employee
<1>4. sets' = [sets EXCEPT ![e] = sets[e]] /\ ended' = [ended EXCEPT ![e] = ended[e]]
      /\ UNCHANGED <<expired, sessions>> /\ Answered(b)
  BY EmployeeNow DEF Issue
<1> HIDE DEF d
<1>5. QED
  BY <1>1, <1>2, <1>3, <1>4, RowStep

LEMMA ReissueStep ==
    ASSUME Accounts, NEW b \in Browsers, NEW e \in People, ReissueSetupToken(b, e)
    PROVE  Accounts'
<1> DEFINE d   == drawn[e] + 1
           r   == [employees[e] EXCEPT !.token = d]
           row == Saved(r)
<1>1. Exists(e) /\ ~employees[e].password /\ d \in Nat
      /\ drawn' = [drawn EXCEPT ![e] = d] /\ drawn'[e] = d
  BY EmployeeNow DEF ReissueSetupToken, MayInvite, Draw, Accounts, AccountsTypeOK
<1>2. employees' = [employees EXCEPT ![e] = row]
  BY <1>1 DEF ReissueSetupToken, Update
<1>3. RowOK(row, d, sets[e], ended[e]) /\ row.version = employees[e].version + 1
  <2>1. employees[e] \in Employee
    BY <1>1, EmployeeNow
  <2>2. row \in Employee /\ row.sessionVersion = employees[e].sessionVersion
        /\ row.token = d /\ row.password = employees[e].password
        /\ row.version = employees[e].version + 1
    <3>1. r \in Employee /\ r.sessionVersion = employees[e].sessionVersion
          /\ r.token = d /\ r.password = employees[e].password /\ r.version = employees[e].version
      BY <1>1, <2>1, TokenRow
    <3> HIDE DEF r, d
    <3>2. QED
      BY <3>1, SavedRow
  <2>3. QED
    BY <1>1, <2>2, EmployeeNow DEF RowOK
<1>4. sets' = [sets EXCEPT ![e] = sets[e]] /\ ended' = [ended EXCEPT ![e] = ended[e]]
      /\ UNCHANGED <<expired, sessions>> /\ Answered(b)
  BY EmployeeNow DEF ReissueSetupToken
<1> HIDE DEF d, row
<1>5. QED
  BY <1>1, <1>2, <1>3, <1>4, RowStep

LEMMA SetPasswordStep ==
    ASSUME Accounts, NEW b \in Browsers, SetPassword(b) PROVE Accounts'
<1> DEFINE e   == requests[b].of
           t   == requests[b].token
           r   == [employees[e] EXCEPT !.password = TRUE, !.token = None]
           row == Saved(r)
           s   == Append(sets[e], t)
<1>1. requests[b] \in Request /\ RequestOK(requests[b]) /\ requests[b].at = "found"
      /\ requests[b] # None
  BY RequestNow DEF SetPassword, At
<1>2. e \in People /\ Exists(e) /\ t \in Nat /\ t # None
  BY <1>1, AccountsNoneAssumption DEF RequestOK, Request
<1>3. employees[e].token = t /\ ~employees[e].password
  BY DEF SetPassword, TokenHolds
<1>4. drawn[e] = t /\ sets[e] = <<>>
  BY <1>2, <1>3, EmployeeNow DEF RowOK
<1>5. RowOK(row, drawn[e], s, ended[e]) /\ row.version = employees[e].version + 1
  <2>1. employees[e] \in Employee
    BY <1>2, EmployeeNow
  <2>2. row \in Employee /\ row.sessionVersion = employees[e].sessionVersion
        /\ row.token = None /\ row.password = TRUE /\ row.version = employees[e].version + 1
    <3>1. r \in Employee /\ r.sessionVersion = employees[e].sessionVersion
          /\ r.token = None /\ r.password = TRUE /\ r.version = employees[e].version
      BY <2>1, PasswordRow
    <3> HIDE DEF r
    <3>2. QED
      BY <3>1, SavedRow
  <2>3. s = <<drawn[e]>> /\ s \in Seq(Nat)
    BY <1>2, <1>4
  <2>4. QED
    BY <1>2, <2>2, <2>3, EmployeeNow DEF RowOK
<1>6. employees' = [employees EXCEPT ![e] = row] /\ sets' = [sets EXCEPT ![e] = s]
  BY DEF SetPassword, Update
<1>7. drawn' = [drawn EXCEPT ![e] = drawn[e]] /\ ended' = [ended EXCEPT ![e] = ended[e]]
      /\ UNCHANGED <<expired, sessions>> /\ Answered(b)
  BY <1>2, EmployeeNow DEF SetPassword
<1> HIDE DEF e, s, row
<1>8. QED
  BY <1>2, <1>5, <1>6, <1>7, RowStep

LEMMA CommitActiveStep ==
    ASSUME Accounts, NEW b \in Browsers, CommitActive(b) PROVE Accounts'
<1> DEFINE e      == requests[b].of
           active == requests[b].active
           row    == Saved(SetActive(requests[b].row, active))
           n      == IF active THEN ended[e] ELSE ended[e] + 1
<1>1. requests[b] \in Request /\ RequestOK(requests[b]) /\ requests[b].at = "opened"
      /\ requests[b] # None
  BY RequestNow DEF CommitActive, At
<1>2. e \in People /\ Exists(e) /\ active \in BOOLEAN
  BY <1>1, AccountsNoneAssumption DEF RequestOK, Request
<1>3. requests[b].row = employees[e] /\ employees[e].active # active
  BY <1>1, <1>2 DEF CommitActive, IsFresh, RequestOK, SnapshotOK
<1>4. RowOK(row, drawn[e], sets[e], n) /\ row.version = employees[e].version + 1
  <2>1. row \in Employee /\ row.version = employees[e].version + 1
        /\ row.token = employees[e].token /\ row.password = employees[e].password
    BY <1>2, <1>3, EmployeeNow, ActiveRow, SavedRow
  <2>2. row.sessionVersion = n /\ n \in Nat
    BY <1>2, <1>3, EmployeeNow, ActiveRow, SavedRow DEF RowOK
  <2>3. QED
    BY <1>2, <2>1, <2>2, EmployeeNow DEF RowOK
<1>5. employees' = [employees EXCEPT ![e] = row] /\ ended' = [ended EXCEPT ![e] = n]
  BY <1>2 DEF CommitActive, Update, Accounts, AccountsTypeOK
<1>6. drawn' = [drawn EXCEPT ![e] = drawn[e]] /\ sets' = [sets EXCEPT ![e] = sets[e]]
      /\ UNCHANGED <<expired, sessions>> /\ Answered(b)
  BY <1>2, EmployeeNow DEF CommitActive
<1> HIDE DEF e, n, row
<1>7. QED
  BY <1>2, <1>4, <1>5, <1>6, RowStep

LEMMA BootstrapStep ==
    ASSUME Accounts, NEW e \in People, Bootstrap(e) PROVE Accounts'
<1> DEFINE row == NewEmployee(TRUE, TRUE, None)
<1>1. ~Exists(e) /\ employees' = [employees EXCEPT ![e] = row]
  BY DEF Bootstrap, Update
<1>2. RowOK(row, drawn[e], sets[e], ended[e])
  BY <1>1, EmployeeNow DEF RowOK, NewEmployee, Employee
<1>3. drawn' = [drawn EXCEPT ![e] = drawn[e]] /\ sets' = [sets EXCEPT ![e] = sets[e]]
      /\ ended' = [ended EXCEPT ![e] = ended[e]] /\ UNCHANGED <<expired, sessions, requests>>
  BY EmployeeNow DEF Bootstrap, history
<1> HIDE DEF row
<1>4. QED
  BY <1>1, <1>2, <1>3, RowStep

LEMMA TokenExpiresStep ==
    ASSUME Accounts, NEW e \in People, TokenExpires(e) PROVE Accounts'
<1>1. employees[e].token \in Nat
  BY EmployeeNow DEF TokenExpires, Employee
<1>2. UNCHANGED <<employees, sessions, requests, drawn, sets, ended>> /\ expired' \subseteq People \X Nat
  BY <1>1 DEF TokenExpires, history, Accounts, AccountsTypeOK
<1>3. QED
  BY <1>2 DEF Accounts, AccountsTypeOK, EmployeeOK, Exists, PrincipalOK, RequestOK, SnapshotOK
-----------------------------------------------------------------------------
(* The invariant holds after every step.                                   *)
LEMMA AccountsStep == ASSUME Accounts, [Next]_vars PROVE Accounts'
<1>1. ASSUME NEW b \in Browsers, Step(b) PROVE Accounts'
  <2>1. CASE \/ Admit(b) \/ RejectAuthentication(b) \/ Answer(b)
             \/ SaveSession(b) \/ LoseSession(b) \/ SessionExpires(b)
             \/ SetPassword(b) \/ CommitActive(b)
    BY <2>1, AdmitStep, EndStep, SaveSessionStep, SetPasswordStep, CommitActiveStep
  <2>2. ASSUME NEW e \in People, Authenticate(b, e) \/ Issue(b, e) \/ ReissueSetupToken(b, e)
        PROVE  Accounts'
    BY <2>2, AuthenticateStep, IssueStep, ReissueStep
  <2>3. ASSUME NEW e \in People, NEW t \in 1..drawn[e], FindByToken(b, e, t) PROVE Accounts'
    BY <2>3, EmployeeNow, FindByTokenStep
  <2>4. ASSUME NEW e \in People, NEW active \in BOOLEAN, OpenActive(b, e, active) PROVE Accounts'
    BY <2>4, OpenActiveStep
  <2>5. QED
    BY <1>1, <2>1, <2>2, <2>3, <2>4 DEF Step
<1>2. ASSUME NEW e \in People, Bootstrap(e) \/ TokenExpires(e) PROVE Accounts'
  BY <1>2, BootstrapStep, TokenExpiresStep
<1>3. CASE UNCHANGED vars
  BY <1>3 DEF vars, history, Accounts, AccountsTypeOK, EmployeeOK, Exists, PrincipalOK, RequestOK,
              SnapshotOK
<1>4. QED
  BY <1>1, <1>2, <1>3 DEF Next

(* Every variable of the accounts keeps its type, and nobody who was never *)
(* issued has tokens, a past or a session (EmployeeService, LoginService). *)
THEOREM AccountsTypeCorrect == Spec => []AccountsTypeOK
<1>1. Accounts => AccountsTypeOK
  BY DEF Accounts
<1>2. Accounts /\ [Next]_vars => Accounts'
  BY AccountsStep
<1>3. Init => Accounts
  BY InitAccounts
<1>4. QED
  BY <1>1, <1>2, <1>3, PTL DEF Spec

(* EmployeeService.setPassword: for any number of employees, tokens and    *)
(* requests a password is set once, with the last token handed out.        *)
THEOREM InvitationOnce == Spec => []LastInvitationSets
<1>1. Accounts => LastInvitationSets
  BY EmployeeNow DEF LastInvitationSets, RowOK, Employee
<1>2. Accounts /\ [Next]_vars => Accounts'
  BY AccountsStep
<1>3. Init => Accounts
  BY InitAccounts
<1>4. QED
  BY <1>1, <1>2, <1>3, PTL DEF Spec

(* EmployeeSessionValidationFilter: no request of a login before the last  *)
(* deactivation is admitted, whenever that login saved its session.        *)
THEOREM SessionsEnd == Spec => DeactivationEndsSessions
<1> DEFINE Ends == \A b \in Browsers :
          requests[b] = None /\ requests'[b] # None /\ requests'[b].actor # None =>
              /\ sessions[b].since = ended[sessions[b].of]
              /\ employees[sessions[b].of].active
<1>1. ASSUME Accounts, Next PROVE Ends
  <2> SUFFICES ASSUME NEW b \in Browsers, requests[b] = None, requests'[b] # None,
                      requests'[b].actor # None
               PROVE  /\ sessions[b].since = ended[sessions[b].of]
                      /\ employees[sessions[b].of].active
    OBVIOUS
  <2>1. PICK c \in Browsers : Step(c)
    BY <1>1 DEF Next, Bootstrap, TokenExpires
  <2>2. Admit(b)
    BY <1>1, <2>1
       DEF Step, At, IsAdmin, Answered, Accounts, AccountsTypeOK, Admit, RejectAuthentication,
           Answer, SaveSession, LoseSession, SessionExpires, SetPassword, CommitActive,
           Authenticate, Issue, ReissueSetupToken, FindByToken, OpenActive
  <2>3. sessions[b] # None /\ IsValidFor(sessions[b], sessions[b].of)
    BY <1>1, <2>2 DEF Admit, Admitted, Accounts, AccountsTypeOK
  <2>4. sessions[b] \in Principal /\ PrincipalOK(sessions[b])
    BY <1>1, <2>3 DEF Accounts, AccountsTypeOK
  <2>5. RowOK(employees[sessions[b].of], drawn[sessions[b].of], sets[sessions[b].of],
              ended[sessions[b].of])
    BY <1>1, <2>3, <2>4, EmployeeNow DEF IsValidFor, Principal
  <2>6. QED
    BY <2>3, <2>4, <2>5 DEF IsValidFor, PrincipalOK, RowOK
<1>2. Accounts /\ [Next]_vars => [Ends]_vars
  BY <1>1
<1>3. Accounts /\ [Next]_vars => Accounts'
  BY AccountsStep
<1>4. Init => Accounts
  BY InitAccounts
<1>5. QED
  BY <1>2, <1>3, <1>4, PTL DEF Spec, DeactivationEndsSessions
=============================================================================
