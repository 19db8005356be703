--------------------------- MODULE EmployeeAccounts ---------------------------
(***************************************************************************)
(* Employees, their setup tokens and their sessions: EmployeeService, the  *)
(* login and the filter that looks at every request's session.             *)
(*                                                                         *)
(* A browser sends one request at a time.  The filter admits it; then it   *)
(* is handled in one or two steps: a login first checks the password       *)
(* against the row as it is and later saves a session, setPassword finds   *)
(* the employee of a token and then waits for the row's lock, active reads *)
(* without a lock and commits under @Version.  What a transaction does     *)
(* while it holds the row's lock is one step.  What a request asks for is  *)
(* chosen where it is used.                                                *)
(*                                                                         *)
(* Tokens are random in the code and numbered per employee here.  Names,   *)
(* passwords and roles are left out but for whether somebody administers.  *)
(***************************************************************************)
EXTENDS Naturals, Sequences, FiniteSets

CONSTANTS People,     \* the login ids
          Browsers,   \* who sends requests
          None,
          MaxTokens,  \* bound on the tokens of an employee
          MaxVersion  \* bound on the version of a row that active changes

ASSUME AccountsNoneAssumption ==
    /\ None \notin People \cup Nat \cup BOOLEAN
    /\ None \notin [version : Nat, sessionVersion : Nat, password : BOOLEAN,
                    admin : BOOLEAN, active : BOOLEAN, token : Nat \cup {None}]
    /\ None \notin [of : People, sessionVersion : Nat, since : Nat]

ASSUME AccountsBoundsAssumption == MaxTokens \in Nat /\ MaxVersion \in Nat

VARIABLES employees, \* table employees, by login id
          expired,   \* the tokens whose setup_expires_at is over
          sessions,  \* the principal Redis keeps for a browser, or None
          requests,  \* the request of each browser, or None
          drawn,     \* tokens handed out, per employee
          sets,      \* tokens that have set a password, per employee (history)
          ended      \* how often an employee was deactivated (history)

vars == <<employees, expired, sessions, requests, drawn, sets, ended>>

history == <<drawn, sets, ended>>
-----------------------------------------------------------------------------
Employee ==
    [version : Nat, sessionVersion : Nat, password : BOOLEAN, admin : BOOLEAN,
     active : BOOLEAN, token : Nat \cup {None}]

(* EmployeePrincipal, with the number of deactivations before it (history).*)
Principal == [of : People, sessionVersion : Nat, since : Nat]

Request ==
    [at : {"admitted", "authenticated", "found", "opened"},
     actor : People \cup {None},          \* EmployeeRequestContext
     principal : Principal \cup {None},   \* of a login
     of : People \cup {None},             \* the employee to be changed
     token : Nat,                         \* of setPassword
     row : Employee \cup {None},          \* the row active has read
     active : BOOLEAN]                    \* what active makes of it

(* Every variable has its type; only an employee who exists has tokens, a  *)
(* past or a session.                                                      *)
AccountsTypeOK ==
    /\ employees \in [People -> Employee \cup {None}]
    /\ expired \subseteq People \X Nat
    /\ sessions \in [Browsers -> Principal \cup {None}]
    /\ requests \in [Browsers -> Request \cup {None}]
    /\ drawn \in [People -> Nat] /\ ended \in [People -> Nat]
    /\ sets \in [People -> Seq(Nat)]
    /\ \A e \in People : employees[e] = None => drawn[e] = 0 /\ ended[e] = 0 /\ sets[e] = <<>>
    /\ \A b \in Browsers : sessions[b] # None => employees[sessions[b].of] # None

Init ==
    /\ employees = [e \in People |-> None]
    /\ expired = {}
    /\ sessions = [b \in Browsers |-> None]
    /\ requests = [b \in Browsers |-> None]
    /\ drawn = [e \in People |-> 0] /\ ended = [e \in People |-> 0]
    /\ sets = [e \in People |-> <<>>]

Exists(e) == employees[e] # None

At(b, stage) == requests[b] # None /\ requests[b].at = stage

Answered(b) == requests' = [requests EXCEPT ![b] = None]

Saved(row) == [row EXCEPT !.version = @ + 1]

Update(e, row) == employees' = [employees EXCEPT ![e] = row]
-----------------------------------------------------------------------------
(* EmployeeSessionValidationFilter.                                        *)

(* Mutant of IsValidFor: the version of the session is not looked at.      *)
IsValidForActive(p, e) == Exists(e) /\ employees[e].active /\ employees[e].password

IsValidFor(p, e) ==
    /\ Exists(e)
    /\ p.sessionVersion = employees[e].sessionVersion
    /\ employees[e].active /\ employees[e].password

(* Mutant of Admitted: nobody's request has an actor of its own.           *)
AdmittedAnonymously(actor) ==
    [at |-> "admitted", actor |-> IF actor = None THEN "anonymous" ELSE actor,
     principal |-> None, of |-> None, token |-> 0, row |-> None, active |-> FALSE]

Admitted(actor) ==
    [at |-> "admitted", actor |-> actor, principal |-> None, of |-> None, token |-> 0,
     row |-> None, active |-> FALSE]

Admit(b) ==
    /\ requests[b] = None
    /\ \/ sessions[b] = None /\ requests' = [requests EXCEPT ![b] = Admitted(None)]
       \/ /\ sessions[b] # None /\ IsValidFor(sessions[b], sessions[b].of)
          /\ requests' = [requests EXCEPT ![b] = Admitted(sessions[b].of)]
    /\ UNCHANGED <<employees, expired, sessions, history>>

(* 401, and the session is gone.                                           *)
RejectAuthentication(b) ==
    /\ requests[b] = None
    /\ sessions[b] # None /\ ~IsValidFor(sessions[b], sessions[b].of)
    /\ sessions' = [sessions EXCEPT ![b] = None]
    /\ UNCHANGED <<employees, expired, requests, history>>

(* Requests that change nothing here; those that are refused, roll back or *)
(* are cut off by a dying server included.                                 *)
Answer(b) ==
    /\ requests[b] # None
    /\ Answered(b)
    /\ UNCHANGED <<employees, expired, sessions, history>>
-----------------------------------------------------------------------------
(* LoginService.login: the principal is made of the row as it was when the *)
(* password was compared.                                                  *)
Authenticate(b, e) ==
    /\ At(b, "admitted")
    /\ Exists(e) /\ employees[e].password /\ employees[e].active
    /\ requests' = [requests EXCEPT ![b].at = "authenticated",
                       ![b].principal = [of |-> e, since |-> ended[e],
                                         sessionVersion |-> employees[e].sessionVersion]]
    /\ UNCHANGED <<employees, expired, sessions, history>>

(* Mutant of Established: the version is read when the session is saved.   *)
EstablishedAnew(p) == [p EXCEPT !.sessionVersion = employees[p.of].sessionVersion]

Established(p) == p

SaveSession(b) ==
    /\ At(b, "authenticated")
    /\ sessions' = [sessions EXCEPT ![b] = Established(requests[b].principal)]
    /\ Answered(b)
    /\ UNCHANGED <<employees, expired, history>>

(* A failing login, a logout and the session's timeout.                    *)
LoseSession(b) ==
    /\ At(b, "admitted")
    /\ sessions' = [sessions EXCEPT ![b] = None]
    /\ Answered(b)
    /\ UNCHANGED <<employees, expired, history>>

SessionExpires(b) ==
    /\ sessions[b] # None
    /\ sessions' = [sessions EXCEPT ![b] = None]
    /\ UNCHANGED <<employees, expired, requests, history>>
-----------------------------------------------------------------------------
(* EmployeeService.                                                        *)
IsAdmin(b) ==
    /\ At(b, "admitted")
    /\ requests[b].actor # None /\ employees[requests[b].actor].admin

NewEmployee(admin, password, token) ==
    [version |-> 0, sessionVersion |-> 0, password |-> password, admin |-> admin,
     active |-> TRUE, token |-> token]

Draw(e) == drawn[e] < MaxTokens /\ drawn' = [drawn EXCEPT ![e] = @ + 1]

(* issue: a new row with its first token.                                  *)
Issue(b, e) ==
    /\ IsAdmin(b)
    /\ ~Exists(e)
    /\ Draw(e)
    /\ \E admin \in BOOLEAN : Update(e, NewEmployee(admin, FALSE, drawn'[e]))
    /\ Answered(b)
    /\ UNCHANGED <<expired, sessions, sets, ended>>

(* Mutant of MayInvite: an employee who has a password is invited again.   *)
MayInviteAgain(row) == row.active

MayInvite(row) == ~row.password /\ row.active

(* reissueSetupToken, under the row's lock.                                *)
ReissueSetupToken(b, e) ==
    /\ IsAdmin(b)
    /\ Exists(e) /\ MayInvite(employees[e])
    /\ Draw(e)
    /\ Update(e, Saved([employees[e] EXCEPT !.token = drawn'[e]]))
    /\ Answered(b)
    /\ UNCHANGED <<expired, sessions, sets, ended>>

(* setPassword: the token's employee is looked up without a lock ...       *)
FindByToken(b, e, t) ==
    /\ At(b, "admitted")
    /\ Exists(e) /\ employees[e].token = t
    /\ requests' = [requests EXCEPT ![b].at = "found", ![b].of = e, ![b].token = t]
    /\ UNCHANGED <<employees, expired, sessions, history>>

(* Mutant of TokenHolds: only the look-up before the lock counts.          *)
TokenHeld(e, t) == employees[e].active /\ ~employees[e].password

(* ... and under the row's lock everything is looked at again.             *)
TokenHolds(e, t) ==
    /\ employees[e].token = t /\ employees[e].active /\ ~employees[e].password
    /\ <<e, t>> \notin expired

SetPassword(b) ==
    LET e == requests[b].of
    IN  /\ At(b, "found")
        /\ TokenHolds(e, requests[b].token)
        /\ Update(e, Saved([employees[e] EXCEPT !.password = TRUE, !.token = None]))
        /\ sets' = [sets EXCEPT ![e] = Append(@, requests[b].token)]
        /\ Answered(b)
        /\ UNCHANGED <<expired, sessions, drawn, ended>>

(* active: the row is read without a lock; a value it has already is no    *)
(* change.  Nobody deactivates oneself.                                    *)
OpenActive(b, e, active) ==
    /\ IsAdmin(b)
    /\ e = requests[b].actor => active
    /\ Exists(e) /\ employees[e].active # active
    /\ employees[e].version < MaxVersion
    /\ requests' = [requests EXCEPT ![b].at = "opened", ![b].of = e, ![b].active = active,
                                    ![b].row = employees[e]]
    /\ UNCHANGED <<employees, expired, sessions, history>>

(* Employee.setActive.                                                     *)
SetActive(row, active) ==
    [row EXCEPT !.active = active,
                !.sessionVersion = IF row.active /\ ~active THEN @ + 1 ELSE @]

(* Mutant of IsFresh: a row that has changed meanwhile is overwritten.     *)
IsFreshAlways(e, row) == TRUE

IsFresh(e, row) == employees[e].version = row.version

CommitActive(b) ==
    LET e   == requests[b].of
        row == requests[b].row
    IN  /\ At(b, "opened")
        /\ IsFresh(e, row)
        /\ Update(e, Saved(SetActive(row, requests[b].active)))
        /\ ended' = [ended EXCEPT ![e] = IF requests[b].active THEN @ ELSE @ + 1]
        /\ Answered(b)
        /\ UNCHANGED <<expired, sessions, drawn, sets>>

(* bootstrap, under a lock of its own, in a process of its own.            *)
Bootstrap(e) ==
    /\ \A p \in People : ~Exists(p)
    /\ Update(e, NewEmployee(TRUE, TRUE, None))
    /\ UNCHANGED <<expired, sessions, requests, history>>

(* Twenty-four hours are over.                                             *)
TokenExpires(e) ==
    /\ Exists(e) /\ employees[e].token # None
    /\ <<e, employees[e].token>> \notin expired
    /\ expired' = expired \cup {<<e, employees[e].token>>}
    /\ UNCHANGED <<employees, sessions, requests, history>>
-----------------------------------------------------------------------------
Step(b) ==
    \/ Admit(b) \/ RejectAuthentication(b) \/ Answer(b)
    \/ SaveSession(b) \/ LoseSession(b) \/ SessionExpires(b)
    \/ SetPassword(b) \/ CommitActive(b)
    \/ \E e \in People :
          \/ Authenticate(b, e) \/ Issue(b, e) \/ ReissueSetupToken(b, e)
          \/ \E t \in 1..drawn[e] : FindByToken(b, e, t)
          \/ \E active \in BOOLEAN : OpenActive(b, e, active)

Next ==
    \/ \E b \in Browsers : Step(b)
    \/ \E e \in People : Bootstrap(e) \/ TokenExpires(e)

Spec == Init /\ [][Next]_vars
-----------------------------------------------------------------------------
(* A password is set once, and with the last token that was handed out for *)
(* the employee, however requests, reissues and activations overlap: no    *)
(* token that was replaced while its holder waited for the row still works *)
(* and none is handed out for an employee who has a password.              *)
LastInvitationSets ==
    \A e \in People : sets[e] # <<>> => sets[e] = <<drawn[e]>> /\ employees[e].password

(* After a deactivation no request of an earlier login is admitted, also   *)
(* of a login that had compared the password before and saved its session  *)
(* afterwards, and also when the employee is active again.                 *)
DeactivationEndsSessions ==
    [][\A b \in Browsers :
          requests[b] = None /\ requests'[b] # None /\ requests'[b].actor # None =>
              /\ sessions[b].since = ended[sessions[b].of]
              /\ employees[sessions[b].of].active]_vars
=============================================================================
