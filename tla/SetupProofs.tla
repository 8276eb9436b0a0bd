---------------------------- MODULE SetupProofs ----------------------------
(***************************************************************************)
(* The properties of Setup for any number of forms and command lines.      *)
(*                                                                         *)
(* A writer decides on what it reads and acts two steps later.  The        *)
(* inductive invariant says that what it has read stays true as long as it *)
(* may still act: until its snapshot is outdated, and from the moment it   *)
(* holds the lock.                                                         *)
(***************************************************************************)
EXTENDS Setup, SequenceTheorems, TLAPS

\* The writer at COMMIT is the holder of the lock.
LockInv == \A w \in Writers : pc[w] = "commit" <=> lock = w

\* Whoever is under way has typed what makes a user; only command lines look
\* for a name.
FormInv == \A w \in Writers :
    /\ pc[w] \in {"find", "count_in_tx", "insert", "commit"} =>
          form[w] \in Forms /\ NameOf(w) \in Names
    /\ pc[w] \in {"count_in_tx", "insert", "commit"} =>
          PasswordOf(form[w].password) \in Passwords
    /\ pc[w] = "find" => w \in Cli
    /\ pc[w] \in {"count", "count_in_tx"} => w \in Web

\* What Username and Password keep of what was typed.
RowInv == \A i \in 1..Len(users) :
    /\ users[i].name = Trim(users[i].typed.name)
    /\ users[i].password = users[i].typed.password

\* Writers whose INSERT will succeed, or has.
MayInsert(w) == pc[w] = "commit" \/ (pc[w] = "insert" /\ w \notin stale)

\* What such a writer has read.
ReadInv == \A w \in Writers : MayInsert(w) =>
               IF w \in Web THEN users = <<>> ELSE ~Taken(NameOf(w))

IInv == TypeOK /\ LockInv /\ FormInv /\ ReadInv /\ RowInv /\ SetupOnlyFirst /\ NamesDistinct

\* A name that is accepted is the trimmed text, a password the text itself.
LEMMA Accepted ==
    /\ \A text : UsernameOf(text) # None => UsernameOf(text) = Trim(text)
    /\ \A text : PasswordOf(text) # None => PasswordOf(text) = text
    /\ \A text \in TypedNames : UsernameOf(text) # None => UsernameOf(text) \in Names
    /\ \A text \in TypedPasswords : PasswordOf(text) # None => PasswordOf(text) \in Passwords
    /\ None \notin Names /\ None \notin Passwords
  BY DEF UsernameOf, PasswordOf, Names, Passwords

\* Nothing is going on in an empty table.
LEMMA InitInv == Init => IInv
  BY DistinctAssumption DEF Init, IInv, TypeOK, LockInv, FormInv, ReadInv, RowInv, MayInsert,
     SetupOnlyFirst, NamesDistinct, Writers, Steps, Answers

\* Steps that leave the table alone.
LEMMA QuietStep ==
    ASSUME IInv, UNCHANGED users,
           NEW w \in Writers,
           Start(w) \/ (Handler(w) /\ ~Commit(w)) \/ Abort(w)
    PROVE  IInv'
<1> USE DistinctAssumption DEF IInv, TypeOK, LockInv, FormInv, ReadInv, RowInv, MayInsert,
        SetupOnlyFirst, NamesDistinct, Taken, Writers, Steps, Answers, NameOf
<1>1. CASE Post(w)
  BY <1>1 DEF Post
<1>2. CASE RunInvalid(w)
  BY <1>2 DEF RunInvalid
<1>3. ASSUME NEW n \in TypedNames, Run(w, n) PROVE IInv'
  <2>1. [name |-> n, password |-> None] \in Forms /\ UsernameOf(n) \in Names
    BY <1>3, Accepted DEF Run, Forms
  <2> QED BY <1>3, <2>1 DEF Run, Type
<1>4. ASSUME NEW n \in TypedNames, NEW p \in TypedPasswords, Count(w, n, p) PROVE IInv'
  <2>1. /\ [name |-> n, password |-> p] \in Forms
        /\ UsernameOf(n) \in Names /\ PasswordOf(p) \in Passwords
    BY <1>4, Accepted DEF Count, Forms
  <2> QED BY <1>4, <2>1 DEF Count, Type
<1>5. CASE Unprocessable(w)
  BY <1>5 DEF Unprocessable, End
<1>6. CASE CountInTx(w)
  BY <1>6 DEF CountInTx, Goto
<1>7. CASE Redirect(w)
  BY <1>7 DEF Redirect, End
<1>8. ASSUME NEW p \in TypedPasswords, FindName(w, p) PROVE IInv'
  <2> DEFINE typed == [name |-> form[w].name, password |-> p]
  <2>1. /\ typed \in Forms /\ UsernameOf(typed.name) \in Names
        /\ PasswordOf(typed.password) \in Passwords
    BY <1>8, Accepted DEF FindName, Forms
  <2>2. w \in Cli /\ ~Taken(UsernameOf(typed.name)) /\ form' = [form EXCEPT ![w] = typed]
    BY <1>8 DEF FindName, Type
  <2> HIDE DEF typed
  <2> QED BY <1>8, <2>1, <2>2 DEF FindName
<1>9. CASE PasswordInvalid(w)
  BY <1>9 DEF PasswordInvalid, End
<1>10. CASE BusyName(w)
  BY <1>10 DEF BusyName, End
<1>11. CASE Insert(w)
  BY <1>11 DEF Insert
<1>12. CASE InsertRefused(w)
  BY <1>12 DEF InsertRefused, End
<1>13. CASE Abort(w)
  BY <1>13 DEF Abort, End
<1> QED BY <1>1, <1>2, <1>3, <1>4, <1>5, <1>6, <1>7, <1>8, <1>9, <1>10, <1>11, <1>12, <1>13
        DEF Start, Handler

\* The row a commit appends: what the writer read is still so.
LEMMA CommitStep == ASSUME IInv, NEW w \in Writers, Commit(w) PROVE IInv'
<1> DEFINE row == NewUser(w)
<1> USE DistinctAssumption DEF IInv, TypeOK
<1>1. row \in User /\ users' = Append(users, row) /\ users \in Seq(User)
  BY DEF Commit, FormInv, User, NewUser
<1>2. /\ users' \in Seq(User)
      /\ Len(users') = Len(users) + 1
      /\ \A i \in 1..Len(users) : users'[i] = users[i]
      /\ users'[Len(users) + 1] = row
      /\ Len(users) \in Nat
  BY <1>1, AppendProperties, LenProperties
<1>3. /\ lock = w /\ lock' = None
      /\ IF w \in Web THEN users = <<>> ELSE ~Taken(NameOf(w))
  BY DEF Commit, LockInv, ReadInv, MayInsert
<1>4. TypeOK'
  BY <1>2 DEF Commit, End, Writers, Steps, Answers, Readers
<1>5. LockInv' /\ FormInv'
  BY <1>3 DEF Commit, End, LockInv, FormInv, Writers, NameOf
<1>6. ReadInv'
  BY <1>3 DEF Commit, End, ReadInv, MayInsert, LockInv, Readers, Writers
<1>7. SetupOnlyFirst'
  <2>1. SUFFICES ASSUME NEW i \in 1..Len(users'), users'[i].by = "setup"
                 PROVE  i = 1
    BY DEF SetupOnlyFirst
  <2>2. CASE i \in 1..Len(users)
    BY <1>2, <2>1, <2>2 DEF SetupOnlyFirst
  <2>3. CASE i = Len(users) + 1
    <3>1. w \in Web
      BY <1>2, <2>1, <2>3 DEF NewUser
    <3>2. Len(users) = 0
      BY <1>3, <3>1
    <3> QED BY <2>3, <3>2
  <2> QED BY <1>2, <2>2, <2>3
<1>8. NamesDistinct'
  <2>1. \A i \in 1..Len(users) : users[i].name # NameOf(w)
    BY <1>2, <1>3 DEF Taken
  <2>2. SUFFICES ASSUME NEW i \in 1..Len(users'), NEW j \in 1..Len(users'),
                        users'[i].name = users'[j].name
                 PROVE  i = j
    BY DEF NamesDistinct
  <2>3. /\ i \in 1..Len(users) \/ i = Len(users) + 1
        /\ j \in 1..Len(users) \/ j = Len(users) + 1
    BY <1>2
  <2>4. row.name = NameOf(w)
    BY DEF NewUser
  <2> QED BY <1>2, <2>1, <2>2, <2>3, <2>4 DEF NamesDistinct
<1>9. RowInv'
  <2>1. row.name = Trim(row.typed.name) /\ row.password = row.typed.password
    BY Accepted DEF Commit, FormInv, NewUser, NameOf
  <2> HIDE DEF row
  <2>2. SUFFICES ASSUME NEW i \in 1..Len(users')
                 PROVE  /\ users'[i].name = Trim(users'[i].typed.name)
                        /\ users'[i].password = users'[i].typed.password
    BY DEF RowInv
  <2> QED BY <1>2, <2>1 DEF RowInv
<1> QED BY <1>4, <1>5, <1>6, <1>7, <1>8, <1>9

LEMMA NextInv == IInv /\ [Next]_vars => IInv'
<1> SUFFICES ASSUME IInv, [Next]_vars PROVE IInv'
  OBVIOUS
<1>1. CASE UNCHANGED vars
  BY <1>1 DEF vars, IInv, TypeOK, LockInv, FormInv, ReadInv, RowInv, MayInsert, SetupOnlyFirst,
     NamesDistinct, Taken, NameOf
<1>2. CASE OtherCommit
  BY <1>2 DEF OtherCommit, IInv, TypeOK, LockInv, FormInv, ReadInv, RowInv, MayInsert, SetupOnlyFirst,
     NamesDistinct, Taken, NameOf, Readers
<1>3. ASSUME NEW w \in Writers, Handler(w) \/ Abort(w) \/ Start(w)
      PROVE  IInv'
  <2>1. CASE Commit(w)
    BY <2>1, CommitStep
  <2>2. CASE ~Commit(w)
    <3>1. UNCHANGED users
      BY <1>3, <2>2 DEF Handler, Start, Post, Run, RunInvalid, Count, Unprocessable, CountInTx,
         Redirect, FindName, PasswordInvalid, BusyName, Insert, InsertRefused, Abort, Goto
    <3> QED BY <1>3, <2>2, <3>1, QuietStep
  <2> QED BY <2>1, <2>2
<1> QED BY <1>1, <1>2, <1>3 DEF Next

LEMMA Inductive == Spec => []IInv
  BY InitInv, NextInv, PTL DEF Spec

\* Rows and locals keep their types.
THEOREM TypeCorrect == Spec => []TypeOK
<1>1. IInv => TypeOK
  BY DEF IInv
<1> QED BY <1>1, Inductive, PTL

\* do_setup creates a user only in an empty table, so at most once.
THEOREM SetupIsFirst == Spec => []SetupOnlyFirst
<1>1. IInv => SetupOnlyFirst
  BY DEF IInv
<1> QED BY <1>1, Inductive, PTL

\* The look-up of a name and the INSERT that follows never disagree.
THEOREM NamesAreDistinct == Spec => []NamesDistinct
<1>1. IInv => NamesDistinct
  BY DEF IInv
<1> QED BY <1>1, Inductive, PTL

\* What Username and Password keep is what the look-up without them finds.
THEOREM OwnersCanLogIn == Spec => []OwnersLogIn
<1>1. IInv => OwnersLogIn
  BY DEF IInv, RowInv, OwnersLogIn, FindUser
<1> QED BY <1>1, Inductive, PTL
=============================================================================
