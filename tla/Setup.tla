------------------------------- MODULE Setup -------------------------------
(***************************************************************************)
(* How users come to be: the setup page of a server nobody uses yet and    *)
(* `articlerctl create-user`, a second process on the same database.  Both *)
(* read the table users and then write it in one deferred transaction, so  *)
(* what they have read must still be true when they write.                 *)
(*                                                                         *)
(* What is typed goes through the validated types Username and Password;   *)
(* the login page and the password grant look a user up by what is typed   *)
(* there as it comes.  Argon2 is taken at its word: a hash verifies the    *)
(* password it was made of.                                                *)
(***************************************************************************)
EXTENDS Naturals, Sequences

CONSTANTS
    Space,          \* white space, one of the characters
    UsernameMax,    \* Username::MAX_LENGTH, 512
    PasswordMax,    \* Password::MAX_LENGTH, 512
    TypedNames,     \* bound: what is typed as a name ...
    TypedPasswords, \* ... and as a password: sequences of characters
    Web,            \* concurrent POST /do_setup
    Cli,            \* concurrent runs of articlerctl create-user
    None

ASSUME DistinctAssumption == Web \cap Cli = {} /\ None \notin Web \cup Cli

Writers == Web \cup Cli

VARIABLES
    users,      \* the rows of users in the order of their ids
    lock,       \* who holds the write lock
    stale,      \* writers whose snapshot is out of date
    pc,         \* the statement each writer is at
    form,       \* the name and the password that were typed, as far as read
    answer      \* what a writer was told last

vars == <<users, lock, stale, pc, form, answer>>

-----------------------------------------------------------------------------
(* Names and passwords *)

\* str::trim.
Trim(text) ==
    LET ink == {i \in DOMAIN text : text[i] # Space}
        first == CHOOSE i \in ink : \A j \in ink : i <= j
        last == CHOOSE i \in ink : \A j \in ink : j <= i
    IN  IF ink = {} THEN <<>> ELSE SubSeq(text, first, last)

\* Mutant: a name is looked at trimmed and kept as it came.
UsernameAsTyped(text) == IF Len(Trim(text)) \in 1..UsernameMax THEN text ELSE None

\* Username::try_from: the blanks around a name are not part of it.
UsernameOf(text) == IF Len(Trim(text)) \in 1..UsernameMax THEN Trim(text) ELSE None

\* Password::try_from: the blanks around a password are.
PasswordOf(text) == IF Trim(text) # <<>> /\ Len(text) < PasswordMax THEN text ELSE None

Names == {UsernameOf(text) : text \in TypedNames} \ {None}
Passwords == {PasswordOf(text) : text \in TypedPasswords} \ {None}

Forms == [name : TypedNames, password : TypedPasswords \cup {None}]

\* A row, with what was typed for it as a history.
User == [name : Names, password : Passwords, by : {"setup", "cli"}, typed : Forms]

Steps == {"idle", "count", "count_in_tx", "find", "insert", "commit"}
Answers == {"none", "created", "redirected", "unprocessable", "invalid", "busy_name", "failed"}

NameOf(w) == UsernameOf(form[w].name)

Taken(n) == \E i \in 1..Len(users) : users[i].name = n

\* find_user, for the login page and the password grant: no validated type.
FindUser(name, password) ==
    {i \in 1..Len(users) : users[i].name = name /\ users[i].password = password}

\* Writers that have read inside their transaction and not yet written.
Readers == {w \in Writers : pc[w] = "insert"}

End(w, told) ==
    /\ pc' = [pc EXCEPT ![w] = "idle"]
    /\ form' = [form EXCEPT ![w] = None]
    /\ answer' = [answer EXCEPT ![w] = told]

Goto(w, step) ==
    /\ pc' = [pc EXCEPT ![w] = step]
    /\ UNCHANGED <<users, lock, stale, form, answer>>

Type(w, name, password) ==
    form' = [form EXCEPT ![w] = [name |-> name, password |-> password]]

-----------------------------------------------------------------------------
(* do_setup and create_user *)

\* A form is posted.
Post(w) ==
    /\ pc[w] = "idle" /\ w \in Web
    /\ pc' = [pc EXCEPT ![w] = "count"]
    /\ answer' = [answer EXCEPT ![w] = "none"]
    /\ UNCHANGED <<users, lock, stale, form>>

\* A command line is run.
Run(w, name) ==
    /\ pc[w] = "idle" /\ w \in Cli
    /\ UsernameOf(name) # None
    /\ pc' = [pc EXCEPT ![w] = "find"]
    /\ Type(w, name, None)
    /\ answer' = [answer EXCEPT ![w] = "none"]
    /\ UNCHANGED <<users, lock, stale>>

\* The e-mail address or the name is not valid.
RunInvalid(w) ==
    /\ pc[w] = "idle" /\ w \in Cli
    /\ answer' = [answer EXCEPT ![w] = "invalid"]
    /\ UNCHANGED <<users, lock, stale, pc, form>>

\* do_setup counts on a connection of the pool; what the form has must make a
\* user ...
Count(w, name, password) ==
    /\ pc[w] = "count"
    /\ users = <<>>
    /\ UsernameOf(name) # None /\ PasswordOf(password) # None
    /\ pc' = [pc EXCEPT ![w] = "count_in_tx"]
    /\ Type(w, name, password)
    /\ UNCHANGED <<users, lock, stale, answer>>

\* ... or one of the three fields does not, or the confirmation differs.
Unprocessable(w) ==
    /\ pc[w] = "count"
    /\ users = <<>>
    /\ End(w, "unprocessable")
    /\ UNCHANGED <<users, lock, stale>>

\* Mutant: the count made before the password was hashed is relied on.
CountOnce(w) ==
    /\ pc[w] = "count_in_tx"
    /\ Goto(w, "insert")

\* Once the password is hashed, it counts again in its transaction.
CountInTx(w) ==
    /\ pc[w] = "count_in_tx"
    /\ users = <<>>
    /\ Goto(w, "insert")

Redirect(w) ==
    /\ pc[w] \in {"count", "count_in_tx"}
    /\ users # <<>>
    /\ End(w, "redirected")
    /\ UNCHANGED <<users, lock, stale>>

\* create_user of the command line looks for the name only, and then at the
\* password.
FindName(w, password) ==
    /\ pc[w] = "find"
    /\ ~Taken(NameOf(w))
    /\ PasswordOf(password) # None
    /\ pc' = [pc EXCEPT ![w] = "insert"]
    /\ Type(w, form[w].name, password)
    /\ UNCHANGED <<users, lock, stale, answer>>

PasswordInvalid(w) ==
    /\ pc[w] = "find"
    /\ ~Taken(NameOf(w))
    /\ End(w, "invalid")
    /\ UNCHANGED <<users, lock, stale>>

BusyName(w) ==
    /\ pc[w] = "find"
    /\ Taken(NameOf(w))
    /\ End(w, "busy_name")
    /\ UNCHANGED <<users, lock, stale>>

\* Mutant: the user is inserted on another connection than was read from.
InsertOutsideTx(w) ==
    /\ pc[w] = "insert"
    /\ lock = None
    /\ lock' = w
    /\ pc' = [pc EXCEPT ![w] = "commit"]
    /\ UNCHANGED <<users, stale, form, answer>>

\* INSERT upgrades the transaction.
Insert(w) ==
    /\ pc[w] = "insert"
    /\ lock = None
    /\ w \notin stale
    /\ lock' = w
    /\ pc' = [pc EXCEPT ![w] = "commit"]
    /\ UNCHANGED <<users, stale, form, answer>>

\* SQLITE_BUSY or SQLITE_BUSY_SNAPSHOT, at once.
InsertRefused(w) ==
    /\ pc[w] = "insert"
    /\ lock # None \/ w \in stale
    /\ End(w, "failed")
    /\ stale' = stale \ {w}
    /\ UNCHANGED <<users, lock>>

\* The row w inserts.
NewUser(w) ==
    [name |-> NameOf(w), password |-> PasswordOf(form[w].password),
     by |-> IF w \in Web THEN "setup" ELSE "cli", typed |-> form[w]]

Commit(w) ==
    /\ pc[w] = "commit"
    /\ users' = Append(users, NewUser(w))
    /\ stale' = stale \cup Readers
    /\ lock' = None
    /\ End(w, "created")

\* A lost connection, a killed process, a failing statement.
Abort(w) ==
    /\ pc[w] # "idle"
    /\ End(w, "failed")
    /\ lock' = IF lock = w THEN None ELSE lock
    /\ stale' = stale \ {w}
    /\ UNCHANGED users

\* A commit to another table.
OtherCommit ==
    /\ lock = None
    /\ Readers # {}
    /\ stale' = stale \cup Readers
    /\ UNCHANGED <<users, lock, pc, form, answer>>

-----------------------------------------------------------------------------
Init ==
    /\ users = <<>>
    /\ lock = None
    /\ stale = {}
    /\ pc = [w \in Writers |-> "idle"]
    /\ form = [w \in Writers |-> None]
    /\ answer = [w \in Writers |-> "none"]

Handler(w) ==
    \/ \E name \in TypedNames, password \in TypedPasswords : Count(w, name, password)
    \/ Unprocessable(w) \/ CountInTx(w) \/ Redirect(w)
    \/ \E password \in TypedPasswords : FindName(w, password)
    \/ PasswordInvalid(w) \/ BusyName(w)
    \/ Insert(w) \/ InsertRefused(w) \/ Commit(w)

Start(w) == Post(w) \/ RunInvalid(w) \/ \E name \in TypedNames : Run(w, name)

Next ==
    \/ \E w \in Writers : Handler(w) \/ Abort(w) \/ Start(w)
    \/ OtherCommit

Spec == Init /\ [][Next]_vars

-----------------------------------------------------------------------------
(* Properties *)

\* The table has rows of users, the locals are what the handlers hold.
TypeOK ==
    /\ users \in Seq(User)
    /\ lock \in Writers \cup {None}
    /\ stale \in SUBSET Writers
    /\ pc \in [Writers -> Steps]
    /\ form \in [Writers -> Forms \cup {None}]
    /\ answer \in [Writers -> Answers]

\* However many forms are posted at the same time, and whatever articlerctl
\* does meanwhile, the setup page creates a user only in an empty table: there
\* is at most one such user, and it is the first.
SetupOnlyFirst == \A i \in 1..Len(users) : users[i].by = "setup" => i = 1

\* No two users have one name, so the UNIQUE constraint never has to refuse a
\* user whom the look-up let through.
NamesDistinct == \A i, j \in 1..Len(users) : users[i].name = users[j].name => i = j

\* Who was told that a user was created logs in with the password that was
\* typed, to the last blank, and the name without the blanks around it; with
\* anything else nobody does.  What Username and Password make of a text agrees
\* with the look-up, which uses neither.
OwnersLogIn ==
    \A name \in TypedNames \cup Names, password \in TypedPasswords :
        FindUser(name, password) =
            {i \in 1..Len(users) : /\ Trim(users[i].typed.name) = name
                                  /\ users[i].typed.password = password}
=============================================================================
