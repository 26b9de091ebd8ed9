------------------------------- MODULE Sessions -------------------------------
(***************************************************************************)
(* The administrator's password and sessions (internal/app/server.go,      *)
(* store.go, auth.go): the first start of the server and its               *)
(* bootstrap-password file, login, logout, change of the password, and the *)
(* command reset-password, a process of its own on the same database.      *)
(*                                                                         *)
(* A stored hash is the password it verifies.  Each statement is a step;   *)
(* hashing lies between them.  Refused logins change nothing here (see     *)
(* LoginLimiter) and are left out.  Whoever types a password knows it.     *)
(***************************************************************************)
EXTENDS Naturals

CONSTANTS
  Requests,   \* goroutines of the server
  Passwords,  \* bound: passwords there ever are
  Tokens,     \* bound: sessions open at once
  Nil

\* The administrator's row, and what reset-password holds.
User  == [password : Passwords, must : BOOLEAN]
Reset == [step : {"sessions", "file"}, password : Passwords]

ASSUME SessionsAssumption == Nil \notin Passwords \cup User \cup Reset

VARIABLES
  admin,      \* the row of users, or Nil
  sessions,   \* the tokens of sessions that have not expired
  bootstrap,  \* the password in bootstrap-password, or Nil
  server,     \* "down", "starting" between EnsureAdmin and the file, "up"
  first,      \* the password New() has still to write, or Nil
  pc,         \* what a request does next
  chosen,     \* the new password a request has hashed, or Nil
  cli,        \* reset-password, or Nil
  known,      \* passwords somebody chose, was shown or could read (history)
  trouble     \* a "failure" between two writes, an "overlap" of two writers of
              \* the file; since the last reset (history)

database == <<admin, sessions>>
process  == <<server, first, pc, chosen>>
sessVars == <<database, bootstrap, process, cli, known, trouble>>

SessInit ==
  /\ admin = Nil
  /\ sessions = {}
  /\ bootstrap = Nil
  /\ server = "down"
  /\ first = Nil
  /\ pc = [r \in Requests |-> "idle"]
  /\ chosen = [r \in Requests |-> Nil]
  /\ cli = Nil
  /\ known = {}
  /\ trouble = {}

\* generatePassword: one that nobody has.
InUse == {first} \cup (IF admin = Nil THEN {} ELSE {admin.password})
                 \cup (IF cli = Nil THEN {} ELSE {cli.password})
Fresh == Passwords \ (known \cup InUse)

-------------------------------------------------------------------------------
(* The server starts and ends.                                             *)

\* New: EnsureAdmin finds no user and inserts one.  The password is generated,
\* or comes from the environment, and then the operator knows it.
FirstStart ==
  /\ server = "down"
  /\ admin = Nil
  /\ \E p \in Fresh :
       /\ admin' = [password |-> p, must |-> TRUE]
       /\ first' = p
       /\ known' \in {known, known \cup {p}}
  /\ server' = "starting"
  /\ UNCHANGED <<sessions, bootstrap, pc, chosen, cli, trouble>>

WriteBootstrap ==
  /\ server = "starting"
  /\ bootstrap' = first
  /\ known' = known \cup {first}
  /\ server' = "up"
  /\ first' = Nil
  /\ UNCHANGED <<database, pc, chosen, cli, trouble>>

\* Mutant of LaterStart: the server does not look for a user.
StartAnyway ==
  /\ server = "down"
  /\ server' = "up"
  /\ UNCHANGED <<database, bootstrap, first, pc, chosen, cli, known, trouble>>

\* Mutant of LaterStart: every start inserts its password over the old one.
StartReplaces ==
  /\ server = "down"
  /\ admin # Nil
  /\ \E p \in Fresh : admin' = [password |-> p, must |-> TRUE]
  /\ server' = "up"
  /\ UNCHANGED <<sessions, bootstrap, first, pc, chosen, cli, known, trouble>>

\* New: there is a user already, and the file is not looked at.
LaterStart ==
  /\ server = "down"
  /\ admin # Nil
  /\ server' = "up"
  /\ UNCHANGED <<database, bootstrap, first, pc, chosen, cli, known, trouble>>

\* Requests end with the server; a start that fails leaves the file as it was
\* or truncated.
ServerEnds ==
  /\ \/ server = "up" /\ UNCHANGED <<bootstrap, trouble>>
     \/ /\ server = "starting"
        /\ bootstrap' \in {bootstrap, Nil}
        /\ trouble' = trouble \cup {"failure"}
  /\ server' = "down"
  /\ first' = Nil
  /\ pc' = [r \in Requests |-> "idle"]
  /\ chosen' = [r \in Requests |-> Nil]
  /\ UNCHANGED <<database, cli, known>>

-------------------------------------------------------------------------------
(* Requests.                                                               *)

Goto(r, from, to) ==
  /\ server = "up"
  /\ pc[r] = from
  /\ pc' = [pc EXCEPT ![r] = to]
  /\ UNCHANGED <<server, first>>

\* What the user gives as the password is right.
Verified == admin.password \in known

\* login: store.User and verifyPassword.
Login(r) ==
  /\ Goto(r, "idle", "login")
  /\ Verified
  /\ UNCHANGED <<database, bootstrap, chosen, cli, known, trouble>>

\* login: CreateSession, which may fail.
OpenSession(r) ==
  /\ Goto(r, "login", "idle")
  /\ \/ \E t \in Tokens \ sessions : sessions' = sessions \cup {t}
     \/ UNCHANGED sessions
  /\ UNCHANGED <<admin, bootstrap, chosen, cli, known, trouble>>

\* logout, or 24 hours are over.
CloseSession(t) ==
  /\ t \in sessions
  /\ sessions' = sessions \ {t}
  /\ UNCHANGED <<admin, bootstrap, process, cli, known, trouble>>

\* authenticate lets changePassword pass whether or not the change is forced.
ChangeEnters(r) ==
  /\ Goto(r, "idle", "change")
  /\ sessions # {}
  /\ UNCHANGED <<database, bootstrap, chosen, cli, known, trouble>>

\* The current password is wrong, or it is right and the new one is hashed.
ChangeVerifies(r) ==
  /\ \/ Goto(r, "change", "idle") /\ UNCHANGED chosen
     \/ /\ Goto(r, "change", "save")
        /\ Verified
        /\ \E new \in known \cup Fresh : chosen' = [chosen EXCEPT ![r] = new]
  /\ UNCHANGED <<database, bootstrap, cli, known, trouble>>

\* ChangePassword, by user id alone.
ChangeSaves(r) ==
  /\ Goto(r, "save", "idle")
  /\ \/ admin' = [password |-> chosen[r], must |-> FALSE]
     \/ UNCHANGED admin
  /\ known' = known \cup {chosen[r]}
  /\ chosen' = [chosen EXCEPT ![r] = Nil]
  /\ UNCHANGED <<sessions, bootstrap, cli, trouble>>

-------------------------------------------------------------------------------
(* reset-password.                                                         *)

\* Mutant of ResetWrites: must_change is not set.
ResetUnforced ==
  /\ cli = Nil
  /\ \E p \in Fresh :
       /\ admin' = [password |-> p, must |-> FALSE]
       /\ cli' = [step |-> "sessions", password |-> p]
  /\ UNCHANGED <<sessions, bootstrap, process, known, trouble>>

\* The UPDATE, or the INSERT when there is no user.
ResetWrites ==
  /\ cli = Nil
  /\ \E p \in Fresh :
       /\ admin' = [password |-> p, must |-> TRUE]
       /\ cli' = [step |-> "sessions", password |-> p]
  /\ trouble' = IF server = "starting" THEN trouble \cup {"overlap"} ELSE trouble
  /\ UNCHANGED <<sessions, bootstrap, process, known>>

ResetGoes(from) == cli # Nil /\ cli.step = from

\* DELETE FROM sessions, whose error is ignored.
ResetEndsSessions ==
  /\ ResetGoes("sessions")
  /\ \/ sessions' = {}
     \/ UNCHANGED sessions
  /\ cli' = [cli EXCEPT !.step = "file"]
  /\ UNCHANGED <<admin, bootstrap, process, known, trouble>>

Shown ==
  /\ known' = known \cup {cli.password}
  /\ trouble' = IF server = "starting" THEN trouble ELSE {}

\* Mutant of ResetShows: the password is printed and not written.
ResetPrints ==
  /\ ResetGoes("file")
  /\ Shown
  /\ cli' = Nil
  /\ UNCHANGED <<database, bootstrap, process>>

\* The password goes to the file and to the terminal.
ResetShows ==
  /\ ResetGoes("file")
  /\ bootstrap' = cli.password
  /\ Shown
  /\ cli' = Nil
  /\ UNCHANGED <<database, process>>

\* The command ends early, perhaps leaving the file truncated.
ResetFails ==
  /\ cli # Nil
  /\ bootstrap' \in {bootstrap} \cup (IF ResetGoes("file") THEN {Nil} ELSE {})
  /\ cli' = Nil
  /\ trouble' = trouble \cup {"failure"}
  /\ UNCHANGED <<database, process, known>>

-------------------------------------------------------------------------------
SessNext ==
  \/ FirstStart \/ WriteBootstrap \/ LaterStart \/ ServerEnds
  \/ \E r \in Requests :
       \/ Login(r) \/ OpenSession(r)
       \/ ChangeEnters(r) \/ ChangeVerifies(r) \/ ChangeSaves(r)
  \/ \E t \in Tokens : CloseSession(t)
  \/ ResetWrites \/ ResetEndsSessions \/ ResetShows \/ ResetFails

SessSpec == SessInit /\ [][SessNext]_sessVars

-------------------------------------------------------------------------------
(* Properties.                                                             *)

SessLabels == {"idle", "login", "change", "save"}

\* Types of the database and of the processes; a server that is up has a user.
SessTypeOK ==
  /\ admin \in User \cup {Nil}
  /\ sessions \subseteq Tokens
  /\ bootstrap \in Passwords \cup {Nil}
  /\ server \in {"down", "starting", "up"}
  /\ first \in Passwords \cup {Nil}
  /\ server = "starting" <=> first # Nil
  /\ server # "down" => admin # Nil
  /\ pc \in [Requests -> SessLabels]
  /\ chosen \in [Requests -> Passwords \cup {Nil}]
  /\ \A r \in Requests : pc[r] = "save" <=> chosen[r] # Nil
  /\ cli \in Reset \cup {Nil}
  /\ known \subseteq Passwords
  /\ trouble \subseteq {"failure", "overlap"}

\* Whatever fails, a password that nobody chose has to be changed: must_change is
\* clear only when somebody knows the password in force.
ForcedUnlessChosen ==
  admin # Nil => admin.must \/ admin.password \in known

\* Nobody is locked out: however starts, changes and resets interleave, once they
\* are done the password in force is one that somebody chose, was shown by
\* reset-password or can read in the file; and after a failure between two
\* writes, it is again when reset-password has run.
PasswordKnown ==
  (server = "up" /\ cli = Nil /\ "failure" \notin trouble)
    => admin.password \in known

\* As long as the first password, or a reset one, has to be changed, the file
\* holds the password in force (App.tsx:63, README.md:44).
FirstPasswordInFile ==
  (server = "up" /\ cli = Nil /\ admin.must) => bootstrap = admin.password

\* It does unless a process has ended between two writes or a reset has
\* overlapped with the first start; and reset-password repairs that.
BootstrapOpens == trouble = {} => FirstPasswordInFile
===============================================================================
