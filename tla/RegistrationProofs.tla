-------------------------- MODULE RegistrationProofs ------------------------
(* The rows of the repositories and the dialog, for any requests, any tree of  *)
(* directories and whatever git, cargo and the user answer.                    *)
EXTENDS Registration, FiniteSetTheorems, TLAPS

\* A row is what discovery has found.
Nested(input) ==
  /\ Under(input.selected, input.git) /\ Under(input.cargo, input.git)
  /\ HasName(input.git)

\* What has been verified of a repository on its way to its row.
FoundInv ==
  /\ \A r \in Requests :
       /\ stage[r] = "git" => found[r].selected \in Dirs
       /\ stage[r] = "cargo" => Under(found[r].selected, found[r].git)
  /\ \A i \in 1..Len(queue) : Nested(queue[i].input)
  /\ RowsAreNested

\* The rows are finitely many and none was opened in the future.
RowsInv ==
  /\ IsFiniteSet(rows)
  /\ OneRowPerRepository
  /\ \A row \in rows : row.opened <= clock

\* The gate has one owner at most, and a dialog that is asked for or shown is its.
DialogInv ==
  /\ pickerOpen <=> owners # {}
  /\ \A r, s \in owners : r = s
  /\ \A r \in Requests : dialog[r] \in {"asked", "shown"} => r \in owners
  /\ \A r \in owners : dialog[r] # "none"

-----------------------------------------------------------------------------
(* A transaction.                                                            *)

\* The row with which `input' is registered or reopened.
Registered(input, id, at) ==
  [id |-> id, selected |-> input.selected, git |-> input.git, cargo |-> input.cargo,
   created |-> at, opened |-> clock]

CreationTimes(input) ==
  IF Existing(input) = {} THEN {clock} ELSE {old.created : old \in Existing(input)}

\* The row a registration leaves is the one it asked for, opened now; the others
\* are of other repositories and stay.
LEMMA RowsAfter ==
  ASSUME NEW input, NEW id, RegisterRepository(input, id)
  PROVE  rows' = (rows \ Existing(input))
                   \cup {Registered(input, id, at) : at \in CreationTimes(input)}
BY DEF RegisterRepository, Registered, CreationTimes

\* The transaction keeps the types of the rows.
LEMMA RowTypes ==
  ASSUME RegistrationTypeOK, NEW input \in Inputs, NEW id \in Nat,
         RegisterRepository(input, id)
  PROVE  rows' \subseteq [id : Nat, selected : Paths, git : Paths, cargo : Paths,
                          created : Nat, opened : Nat]
<1>1. clock \in Nat
  BY TimeAssumption DEF RegistrationTypeOK
<1>2. \A at \in CreationTimes(input) : at \in Nat
  BY <1>1 DEF RegistrationTypeOK, Existing, CreationTimes
<1>3. \A at \in CreationTimes(input) :
        Registered(input, id, at) \in [id : Nat, selected : Paths, git : Paths,
                                       cargo : Paths, created : Nat, opened : Nat]
  BY <1>1, <1>2 DEF Registered, Inputs
<1> QED
  BY <1>3, RowsAfter DEF RegistrationTypeOK

-----------------------------------------------------------------------------
(* Types.                                                                    *)

\* The next command of the channel.
LEMMA HeadOfQueue ==
  ASSUME RegistrationTypeOK, queue # << >>
  PROVE  /\ Head(queue) = queue[1] /\ 1 \in 1..Len(queue)
         /\ Head(queue).request \in Requests /\ Head(queue).input \in Inputs
         /\ Tail(queue) \in Seq([request : Requests, input : Inputs])
         /\ Len(Tail(queue)) = Len(queue) - 1 /\ Len(queue) \in Nat
         /\ \A i \in 1..(Len(queue) - 1) : Tail(queue)[i] = queue[i + 1]
<1> DEFINE Command == [request : Requests, input : Inputs]
<1>1. queue \in Seq(Command)
  BY DEF RegistrationTypeOK
<1> HIDE DEF Command
<1>2. /\ Head(queue) = queue[1] /\ 1 \in 1..Len(queue) /\ Head(queue) \in Command
      /\ Tail(queue) \in Seq(Command)
      /\ Len(Tail(queue)) = Len(queue) - 1 /\ Len(queue) \in Nat
      /\ \A i \in 1..(Len(queue) - 1) : Tail(queue)[i] = queue[i + 1]
  BY <1>1
<1> QED
  BY <1>2 DEF Command

Answers == [kind : {"none", "Created", "Existing"}, row : Nat, input : Inputs]

\* A request ends with an answer.
LEMMA FinishTypes ==
  ASSUME RegistrationTypeOK, NEW r \in Requests, NEW a \in Answers, Finish(r, a)
  PROVE  /\ stage' \in [Requests -> {"new", "picking", "git", "cargo", "waiting", "done"}]
         /\ found' \in [Requests -> Inputs]
         /\ response' \in [Requests -> Answers]
BY DEF RegistrationTypeOK, Finish, Nothing, Answers, Inputs, Paths

LEMMA NoRowTypes == NoRow \in Answers
BY DEF NoRow, Nothing, Answers, Inputs, Paths

LEMMA TypeStep ==
  ASSUME RegistrationTypeOK, IsFiniteSet(rows), [Next]_vars
  PROVE  RegistrationTypeOK'
<1> USE TimeAssumption, NoRowTypes DEF envVars, handlerVars, pickerVars, storeVars
<1>1. CASE UNCHANGED vars
  BY <1>1 DEF vars, RegistrationTypeOK
<1>2. ASSUME NEW r \in Requests, Refuse(r)
      PROVE  /\ stage' \in [Requests -> {"new", "picking", "git", "cargo", "waiting", "done"}]
             /\ found' \in [Requests -> Inputs]
             /\ response' \in [Requests -> Answers]
  BY <1>2, FinishTypes DEF Refuse
<1>3. ASSUME NEW r \in Requests, Validate(r)
      PROVE  /\ stage' \in [Requests -> {"new", "picking", "git", "cargo", "waiting", "done"}]
             /\ found' \in [Requests -> Inputs]
             /\ response' \in [Requests -> Answers]
  <2>1. CASE Refuse(r)
    BY <1>2, <2>1
  <2>2. ASSUME NEW d \in Dirs, found' = [found EXCEPT ![r].selected = d],
               stage' = [stage EXCEPT ![r] = "git"], UNCHANGED response
        PROVE  /\ stage' \in [Requests ->
                               {"new", "picking", "git", "cargo", "waiting", "done"}]
               /\ found' \in [Requests -> Inputs]
               /\ response' \in [Requests -> Answers]
    BY <2>2 DEF RegistrationTypeOK, Inputs, Paths, Answers
  <2> QED
    BY <1>3, <2>1, <2>2 DEF Validate
<1>4. ASSUME NEW r \in Requests, Add(r) \/ TakeSelection(r) \/ Disconnect(r)
      PROVE  RegistrationTypeOK'
  BY <1>2, <1>3, <1>4 DEF Add, TakeSelection, Disconnect, RegistrationTypeOK, Answers
<1>5. ASSUME NEW r \in Requests, Pick(r)
      PROVE  RegistrationTypeOK'
  <2>1. CASE Refuse(r)
    BY <1>2, <1>5, <2>1 DEF Pick, RegistrationTypeOK, Answers
  <2>2. CASE ~Refuse(r)
    BY <1>5, <2>2 DEF Pick, RegistrationTypeOK
  <2> QED
    BY <2>1, <2>2
<1>6. ASSUME NEW r \in Requests, GitAnswers(r)
      PROVE  RegistrationTypeOK'
  <2>1. CASE Refuse(r)
    BY <1>2, <1>6, <2>1 DEF GitAnswers, RegistrationTypeOK, Answers
  <2>2. CASE ~Refuse(r)
    <3>1. PICK git \in Dirs : found' = [found EXCEPT ![r].git = git]
      BY <1>6, <2>2 DEF GitAnswers
    <3>2. found' \in [Requests -> Inputs]
      BY <3>1, ZenonT(40) DEF RegistrationTypeOK, Inputs, Paths
    <3> QED
      BY <1>6, <2>2, <3>2 DEF GitAnswers, RegistrationTypeOK
  <2> QED
    BY <2>1, <2>2
<1>7. ASSUME NEW r \in Requests, CargoAnswers(r)
      PROVE  RegistrationTypeOK'
  <2>1. CASE Refuse(r) /\ UNCHANGED queue
    BY <1>2, <1>7, <2>1 DEF CargoAnswers, RegistrationTypeOK, Answers
  <2>2. CASE ~(Refuse(r) /\ UNCHANGED queue)
    <3>1. PICK cargo \in Dirs :
            /\ queue' = Append(queue,
                  [request |-> r, input |-> [found[r] EXCEPT !.cargo = cargo]])
            /\ found' = [found EXCEPT ![r] = Nothing]
            /\ stage' = [stage EXCEPT ![r] = "waiting"]
            /\ UNCHANGED response
      BY <1>7, <2>2 DEF CargoAnswers
    <3>2. [found[r] EXCEPT !.cargo = cargo] \in Inputs
      <4>1. found[r] \in [selected : Paths, git : Paths, cargo : Paths] /\ cargo \in Paths
        BY DEF RegistrationTypeOK, Inputs, Paths
      <4> QED
        BY <4>1 DEF Inputs
    <3>3. queue' \in Seq([request : Requests, input : Inputs])
      BY <3>1, <3>2 DEF RegistrationTypeOK
    <3>4. found' \in [Requests -> Inputs]
      BY <3>1 DEF RegistrationTypeOK, Inputs, Paths, Nothing
    <3> QED
      BY <1>7, <3>1, <3>3, <3>4 DEF CargoAnswers, RegistrationTypeOK
  <2> QED
    BY <2>1, <2>2
<1>8. ASSUME NEW r \in Requests, DialogStep(r)
      PROVE  RegistrationTypeOK'
  BY <1>8 DEF DialogStep, ShowDialog, CloseDialog, FreeGate, Respond, RegistrationTypeOK
<1>9. ASSUME NEW r \in Requests, NEW a \in Answers, Return(r, a)
      PROVE  /\ stage' \in [Requests -> {"new", "picking", "git", "cargo", "waiting", "done"}]
             /\ found' \in [Requests -> Inputs]
             /\ response' \in [Requests -> Answers]
  BY <1>9, FinishTypes DEF Return, RegistrationTypeOK, Answers
<1>10. CASE Commit
  <2> DEFINE r == Head(queue).request
             input == Head(queue).input
             outcome == IF Existing(input) = {} THEN "Created" ELSE "Existing"
  <2>1. /\ r \in Requests /\ input \in Inputs
        /\ queue' \in Seq([request : Requests, input : Inputs])
    BY <1>10, HeadOfQueue DEF Commit
  <2>2. PICK id \in 1..(Cardinality(rows) + 1) :
          /\ RegisterRepository(input, id)
          /\ \/ Return(r, [kind |-> outcome, row |-> id, input |-> input])
             \/ Return(r, NoRow)
    BY <1>10 DEF Commit
  <2>3. id \in Nat
    BY FS_CardinalityType
  <2>4. [kind |-> outcome, row |-> id, input |-> input] \in Answers
    BY <2>1, <2>3 DEF Answers
  <2>5. /\ stage' \in [Requests -> {"new", "picking", "git", "cargo", "waiting", "done"}]
        /\ found' \in [Requests -> Inputs]
        /\ response' \in [Requests -> Answers]
    BY <1>9, <2>1, <2>2, <2>4
  <2>6. rows' \subseteq [id : Nat, selected : Paths, git : Paths, cargo : Paths,
                         created : Nat, opened : Nat]
    BY <2>1, <2>2, <2>3, RowTypes
  <2> QED
    BY <1>10, <2>1, <2>5, <2>6 DEF Commit, RegistrationTypeOK, Answers
<1>11. CASE Fail
  <2>1. /\ queue' \in Seq([request : Requests, input : Inputs])
        /\ Head(queue).request \in Requests
    BY <1>11, HeadOfQueue DEF Fail
  <2> QED
    BY <1>9, <1>11, <2>1 DEF Fail, RegistrationTypeOK, Answers
<1>12. CASE Tick \/ RequestQuit \/ StartShutdown \/ Exit
  <2>1. CASE Tick
    BY <2>1 DEF Tick, RegistrationTypeOK
  <2>2. CASE RequestQuit
    BY <2>2 DEF RequestQuit, RegistrationTypeOK
  <2>3. CASE StartShutdown \/ Exit
    BY <2>3 DEF StartShutdown, Exit, RegistrationTypeOK
  <2> QED
    BY <1>12, <2>1, <2>2, <2>3
<1> QED
  BY <1>1, <1>4, <1>5, <1>6, <1>7, <1>8, <1>10, <1>11, <1>12 DEF Next, RequestStep

-----------------------------------------------------------------------------
(* The dialog.                                                               *)

\* Neither the gate nor a dialog changes.
LEMMA SameDialogs ==
  ASSUME DialogInv, UNCHANGED pickerVars
  PROVE  DialogInv'
BY DEF DialogInv, pickerVars

LEMMA DialogInvStep ==
  ASSUME RegistrationTypeOK, DialogInv, [Next]_vars
  PROVE  DialogInv'
<1>1. CASE UNCHANGED vars
  BY <1>1, SameDialogs DEF vars
<1>2. ASSUME NEW r \in Requests,
             \/ Add(r) \/ TakeSelection(r) \/ GitAnswers(r) \/ CargoAnswers(r)
             \/ Disconnect(r)
      PROVE  DialogInv'
  BY <1>2, SameDialogs
  DEF Add, TakeSelection, GitAnswers, CargoAnswers, Disconnect, pickerVars
<1>3. ASSUME NEW r \in Requests, Pick(r)
      PROVE  DialogInv'
  <2>1. CASE UNCHANGED pickerVars
    BY <2>1, SameDialogs
  <2>2. CASE ~UNCHANGED pickerVars
    <3>1. /\ ~pickerOpen /\ pickerOpen' = TRUE /\ owners' = owners \cup {r}
          /\ dialog' = [dialog EXCEPT ![r] = "asked"]
      BY <1>3, <2>2 DEF Pick
    <3>2. owners' = {r} /\ dialog'[r] = "asked"
      BY <3>1 DEF RegistrationTypeOK, DialogInv
    <3>3. \A q \in Requests \ {r} : dialog'[q] = dialog[q] /\ q \notin owners
      BY <3>1 DEF RegistrationTypeOK, DialogInv
    <3> QED
      BY <3>1, <3>2, <3>3 DEF DialogInv
  <2> QED
    BY <2>1, <2>2
<1>4. ASSUME NEW r \in Requests, ShowDialog(r) \/ CloseDialog(r) \/ Respond(r)
      PROVE  DialogInv'
  BY <1>4 DEF ShowDialog, CloseDialog, Respond, RegistrationTypeOK, DialogInv
<1>5. ASSUME NEW r \in Requests, FreeGate(r)
      PROVE  DialogInv'
  BY <1>5 DEF FreeGate, RegistrationTypeOK, DialogInv
<1>6. CASE Commit \/ Fail \/ Tick \/ RequestQuit \/ StartShutdown \/ Exit
  BY <1>6, SameDialogs DEF Commit, Fail, Tick, RequestQuit, StartShutdown, Exit
<1> QED
  BY <1>1, <1>2, <1>3, <1>4, <1>5, <1>6 DEF Next, RequestStep, DialogStep

\* One owner of the gate, one dialog.
LEMMA OneOwnerOneDialog ==
  ASSUME DialogInv
  PROVE  OneDialogAtATime
<1>1. Shown \subseteq owners
  BY DEF DialogInv, Shown
<1>2. CASE Shown = {}
  BY <1>1, <1>2, FS_EmptySet DEF DialogInv, OneDialogAtATime
<1>3. CASE Shown # {}
  <2>1. PICK r : Shown = {r}
    BY <1>1, <1>3 DEF DialogInv
  <2>2. Cardinality(Shown) = 1
    BY <2>1, FS_Singleton
  <2> QED
    BY <1>1, <2>2 DEF DialogInv, OneDialogAtATime
<1> QED
  BY <1>2, <1>3

-----------------------------------------------------------------------------
(* Discovery.                                                                *)

\* Nothing of what was found changes, but that a request may end.
LEMMA SameFound ==
  ASSUME FoundInv, UNCHANGED storeVars,
         \A r \in Requests : stage'[r] \in {"git", "cargo"} =>
                               stage'[r] = stage[r] /\ found'[r] = found[r]
  PROVE  FoundInv'
BY DEF FoundInv, RowsAreNested, Nested, storeVars

\* A request that ends has found nothing any more.
LEMMA RefuseFound ==
  ASSUME RegistrationTypeOK, NEW r \in Requests, NEW a, Finish(r, a)
  PROVE  \A s \in Requests : stage'[s] \in {"git", "cargo"} =>
                               stage'[s] = stage[s] /\ found'[s] = found[s]
BY DEF RegistrationTypeOK, Finish

\* The selection is a directory.
LEMMA ValidateFound ==
  ASSUME RegistrationTypeOK, FoundInv, UNCHANGED storeVars, NEW r \in Requests, Validate(r)
  PROVE  FoundInv'
<1>1. CASE Refuse(r)
  BY <1>1, RefuseFound, SameFound DEF Refuse
<1>2. ASSUME NEW d \in Dirs, found' = [found EXCEPT ![r].selected = d],
             stage' = [stage EXCEPT ![r] = "git"]
      PROVE  FoundInv'
  <2>1. found'[r].selected = d /\ stage'[r] = "git"
    BY <1>2 DEF RegistrationTypeOK, Inputs
  <2>2. \A s \in Requests \ {r} : found'[s] = found[s] /\ stage'[s] = stage[s]
    BY <1>2 DEF RegistrationTypeOK
  <2> QED
    BY <2>1, <2>2 DEF FoundInv, RowsAreNested, Nested, storeVars
<1> QED
  BY <1>1, <1>2 DEF Validate

LEMMA FoundStep ==
  ASSUME RegistrationTypeOK, FoundInv, [Next]_vars
  PROVE  FoundInv'
<1> USE DEF storeVars, handlerVars
<1>1. CASE UNCHANGED vars
  BY <1>1, SameFound DEF vars
<1>2. ASSUME NEW r \in Requests, Refuse(r), UNCHANGED storeVars
      PROVE  FoundInv'
  BY <1>2, RefuseFound, SameFound DEF Refuse
<1>3. ASSUME NEW r \in Requests, Add(r) \/ TakeSelection(r) \/ Disconnect(r)
      PROVE  FoundInv'
  BY <1>2, <1>3, ValidateFound DEF Add, TakeSelection, Disconnect
<1>4. ASSUME NEW r \in Requests, Pick(r)
      PROVE  FoundInv'
  <2>1. CASE Refuse(r)
    BY <1>2, <1>4, <2>1 DEF Pick
  <2>2. CASE ~Refuse(r)
    BY <1>4, <2>2, SameFound DEF Pick, RegistrationTypeOK
  <2> QED
    BY <2>1, <2>2
<1>5. ASSUME NEW r \in Requests, GitAnswers(r)
      PROVE  FoundInv'
  <2>1. CASE Refuse(r)
    BY <1>2, <1>5, <2>1 DEF GitAnswers
  <2>2. CASE ~Refuse(r)
    <3>1. PICK git \in Dirs :
            /\ RevParse(r, git)
            /\ found' = [found EXCEPT ![r].git = git]
            /\ stage' = [stage EXCEPT ![r] = "cargo"]
      BY <1>5, <2>2 DEF GitAnswers
    <3>2. Under(found'[r].selected, found'[r].git) /\ stage'[r] = "cargo"
      BY <3>1 DEF RevParse, RegistrationTypeOK, Inputs
    <3>3. \A s \in Requests \ {r} : found'[s] = found[s] /\ stage'[s] = stage[s]
      BY <3>1 DEF RegistrationTypeOK
    <3> QED
      BY <1>5, <3>2, <3>3 DEF GitAnswers, FoundInv, RowsAreNested, Nested
  <2> QED
    BY <2>1, <2>2
<1>6. ASSUME NEW r \in Requests, CargoAnswers(r)
      PROVE  FoundInv'
  <2>1. CASE Refuse(r) /\ UNCHANGED queue
    BY <1>2, <1>6, <2>1 DEF CargoAnswers
  <2>2. CASE ~(Refuse(r) /\ UNCHANGED queue)
    <3> DEFINE input(cargo) == [found[r] EXCEPT !.cargo = cargo]
    <3>1. PICK cargo \in Dirs :
            /\ Under(cargo, found[r].git) /\ HasName(found[r].git)
            /\ queue' = Append(queue, [request |-> r, input |-> input(cargo)])
            /\ found' = [found EXCEPT ![r] = Nothing]
            /\ stage' = [stage EXCEPT ![r] = "waiting"]
      BY <1>6, <2>2 DEF CargoAnswers
    <3>2. /\ input(cargo).selected = found[r].selected
          /\ input(cargo).git = found[r].git /\ input(cargo).cargo = cargo
      BY DEF RegistrationTypeOK, Inputs
    <3>3. Nested(input(cargo))
      BY <1>6, <3>1, <3>2 DEF CargoAnswers, FoundInv, Nested
    <3>4. /\ Len(queue) \in Nat /\ Len(queue') = Len(queue) + 1
          /\ \A i \in 1..Len(queue) : queue'[i] = queue[i]
          /\ queue'[Len(queue) + 1].input = input(cargo)
      BY <3>1 DEF RegistrationTypeOK
    <3>5. \A i \in 1..Len(queue') : i \in 1..Len(queue) \/ i = Len(queue) + 1
      BY <3>4
    <3>6. \A i \in 1..Len(queue') : Nested(queue'[i].input)
      BY <3>3, <3>4, <3>5 DEF FoundInv
    <3>7. \A s \in Requests : stage'[s] \in {"git", "cargo"} =>
                                stage'[s] = stage[s] /\ found'[s] = found[s]
      BY <3>1 DEF RegistrationTypeOK
    <3>8. rows' = rows
      BY <1>6 DEF CargoAnswers
    <3> QED
      BY <3>6, <3>7, <3>8 DEF FoundInv, RowsAreNested, Nested
  <2> QED
    BY <2>1, <2>2
<1>7. ASSUME NEW r \in Requests, DialogStep(r)
      PROVE  FoundInv'
  BY <1>7, SameFound DEF DialogStep, ShowDialog, CloseDialog, FreeGate, Respond
<1>8. ASSUME NEW r \in Requests, NEW a, Return(r, a)
      PROVE  \A s \in Requests : stage'[s] \in {"git", "cargo"} =>
                                   stage'[s] = stage[s] /\ found'[s] = found[s]
  BY <1>8, RefuseFound DEF Return
<1>9. CASE Commit
  <2> DEFINE r == Head(queue).request
             input == Head(queue).input
  <2>1. /\ r \in Requests /\ input = queue[1].input
        /\ \A i \in 1..Len(queue') : i + 1 \in 1..Len(queue) /\ queue'[i] = queue[i + 1]
        /\ 1 \in 1..Len(queue)
    BY <1>9, HeadOfQueue DEF Commit
  <2>2. PICK id \in 1..(Cardinality(rows) + 1) :
          RegisterRepository(input, id) /\ \E a : Return(r, a)
    BY <1>9 DEF Commit
  <2>3. Nested(input)
    BY <2>1 DEF FoundInv
  <2>4. \A row \in rows' :
          \/ row \in rows
          \/ row.selected = input.selected /\ row.git = input.git /\ row.cargo = input.cargo
    BY <2>2, RowsAfter DEF Registered
  <2>5. RowsAreNested'
    BY <2>3, <2>4 DEF FoundInv, RowsAreNested, Nested
  <2>6. \A i \in 1..Len(queue') : Nested(queue'[i].input)
    BY <2>1 DEF FoundInv
  <2>7. \A s \in Requests : stage'[s] \in {"git", "cargo"} =>
                              stage'[s] = stage[s] /\ found'[s] = found[s]
    BY <1>8, <2>1, <2>2
  <2> QED
    BY <2>5, <2>6, <2>7 DEF FoundInv
<1>10. CASE Fail
  <2>1. /\ Head(queue).request \in Requests
        /\ \A i \in 1..Len(queue') : i + 1 \in 1..Len(queue) /\ queue'[i] = queue[i + 1]
        /\ rows' = rows
    BY <1>10, HeadOfQueue DEF Fail
  <2>2. \A i \in 1..Len(queue') : Nested(queue'[i].input)
    BY <2>1 DEF FoundInv
  <2>3. \A s \in Requests : stage'[s] \in {"git", "cargo"} =>
                              stage'[s] = stage[s] /\ found'[s] = found[s]
    BY <1>8, <1>10, <2>1 DEF Fail
  <2> QED
    BY <2>1, <2>2, <2>3 DEF FoundInv, RowsAreNested
<1>11. CASE Tick \/ RequestQuit \/ StartShutdown \/ Exit
  BY <1>11, SameFound DEF Tick, RequestQuit, StartShutdown, Exit
<1> QED
  BY <1>1, <1>3, <1>4, <1>5, <1>6, <1>7, <1>9, <1>10, <1>11 DEF Next, RequestStep

-----------------------------------------------------------------------------
(* The rows.                                                                 *)

\* The rows are the same and no answer is new, but that a request may be refused.
LEMMA SameRows ==
  ASSUME RegistrationTypeOK, RowsInv, rows' = rows, clock' \in {clock, clock + 1},
         \A r \in Requests : response'[r] = response[r] \/ response'[r].kind = "none"
  PROVE  RowsInv'
<1>1. clock' >= clock
  BY TimeAssumption DEF RegistrationTypeOK
<1>2. \A row \in rows : row.opened \in Nat
  BY DEF RegistrationTypeOK
<1>3. \A row \in rows' : row.opened <= clock'
  BY <1>1, <1>2, TimeAssumption DEF RegistrationTypeOK, RowsInv
<1>4. OneRowPerRepository'
  BY DEF RowsInv, OneRowPerRepository, SameIdentity
<1> QED
  BY <1>3, <1>4 DEF RowsInv

LEMMA RefuseRows ==
  ASSUME RegistrationTypeOK, NEW r \in Requests, Refuse(r)
  PROVE  \A s \in Requests : response'[s] = response[s] \/ response'[s].kind = "none"
BY DEF RegistrationTypeOK, Refuse, Finish, NoRow

\* After a transaction the row of its repository is the one of its input and id,
\* and the other rows are of other repositories and have other ids.
LEMMA OneRowAfter ==
  ASSUME RowsInv, NEW input, NEW id, RegisterRepository(input, id)
  PROVE  \E at : /\ rows' = (rows \ Existing(input)) \cup {Registered(input, id, at)}
                 /\ \A row \in rows \ Existing(input) :
                      row.id # id /\ ~SameIdentity(row, input)
                 /\ \A row \in Existing(input) : row.id = id
                 /\ IsFiniteSet(rows')
<1>1. \A a, b \in Existing(input) : a = b
  BY DEF RowsInv, OneRowPerRepository, Existing, SameIdentity
<1>2. PICK at : CreationTimes(input) = {at}
  <2>1. CASE Existing(input) = {}
    BY <2>1 DEF CreationTimes
  <2>2. CASE Existing(input) # {}
    <3>1. PICK o : Existing(input) = {o}
      BY <1>1, <2>2
    <3> QED
      BY <2>2, <3>1 DEF CreationTimes
  <2> QED
    BY <2>1, <2>2
<1>3. rows' = (rows \ Existing(input)) \cup {Registered(input, id, at)}
  BY <1>2, RowsAfter
<1>4. \A row \in Existing(input) : row.id = id
  BY <1>1 DEF RegisterRepository
<1>5. \A row \in rows \ Existing(input) : row.id # id /\ ~SameIdentity(row, input)
  BY DEF RegisterRepository, RowsInv, OneRowPerRepository, Existing
<1>6. IsFiniteSet(rows')
  <2>1. IsFiniteSet(rows \ Existing(input))
    BY FS_Difference DEF RowsInv
  <2>2. IsFiniteSet({Registered(input, id, at)})
    BY FS_Singleton
  <2> QED
    BY <1>3, <2>1, <2>2, FS_Union
<1> QED
  BY <1>3, <1>4, <1>5, <1>6

\* The transaction of the command of request `r'.
LEMMA CommitRows ==
  ASSUME RegistrationTypeOK, RowsInv, NEW r \in Requests, NEW input \in Inputs,
         NEW id \in Nat, RegisterRepository(input, id), clock' = clock,
         NEW outcome, outcome = IF Existing(input) = {} THEN "Created" ELSE "Existing",
         \/ Return(r, [kind |-> outcome, row |-> id, input |-> input])
         \/ Return(r, NoRow)
  PROVE  RowsInv'
<1>1. PICK at : /\ rows' = (rows \ Existing(input)) \cup {Registered(input, id, at)}
                /\ \A row \in rows \ Existing(input) :
                     row.id # id /\ ~SameIdentity(row, input)
                /\ \A row \in Existing(input) : row.id = id
                /\ IsFiniteSet(rows')
  BY OneRowAfter
<1> DEFINE new == Registered(input, id, at)
<1>2. /\ new.id = id /\ new.git = input.git /\ new.cargo = input.cargo
      /\ new.opened = clock /\ new \in rows'
  BY <1>1 DEF Registered
<1> HIDE DEF new
<1>3. \A row \in rows' : row = new \/ row \in rows \ Existing(input)
  BY <1>1 DEF new
<1>4. \A row \in rows' : row.opened <= clock'
  BY <1>2, <1>3, TimeAssumption DEF RegistrationTypeOK, RowsInv
<1>5. \A s \in Requests : \/ response'[s] = response[s] \/ response'[s].kind = "none"
                          \/ /\ s = r
                             /\ response'[s] = [kind |-> outcome, row |-> id,
                                                input |-> input]
  BY DEF RegistrationTypeOK, Return, Finish, NoRow, handlerVars
<1>6. \A a, b \in rows' : a.id = b.id \/ SameIdentity(a, b) => a = b
  <2>1. \A a, b \in rows \ Existing(input) : a.id = b.id \/ SameIdentity(a, b) => a = b
    BY DEF RowsInv, OneRowPerRepository
  <2>2. \A a \in rows \ Existing(input) :
          a.id # new.id /\ ~SameIdentity(a, new) /\ ~SameIdentity(new, a)
    BY <1>1, <1>2 DEF SameIdentity
  <2> QED
    BY <1>3, <2>1, <2>2
<1>7. ASSUME NEW s \in Requests, response[s].kind \in {"Created", "Existing"}
      PROVE  \E row \in rows' : row.id = response[s].row /\ SameIdentity(row, response[s].input)
  <2>1. PICK row \in rows : row.id = response[s].row /\ SameIdentity(row, response[s].input)
    BY <1>7 DEF RowsInv, OneRowPerRepository
  <2>2. CASE row \in Existing(input)
    <3>1. new.id = response[s].row /\ SameIdentity(new, response[s].input)
      BY <1>1, <1>2, <2>1, <2>2 DEF Existing, SameIdentity
    <3> QED
      BY <1>2, <3>1
  <2>3. CASE row \notin Existing(input)
    BY <1>1, <2>1, <2>3
  <2> QED
    BY <2>2, <2>3
<1>8. \A s \in Requests : response'[s].kind \in {"Created", "Existing"} =>
        \E row \in rows' : row.id = response'[s].row /\ SameIdentity(row, response'[s].input)
  <2>1. new.id = id /\ SameIdentity(new, input)
    BY <1>2 DEF SameIdentity
  <2> QED
    BY <1>2, <1>5, <1>7, <2>1
<1>9. ASSUME outcome = "Created",
             NEW s \in Requests, response[s].kind = "Created"
      PROVE  response[s].row # id
  <2>1. Existing(input) = {}
    BY <1>9
  <2>2. PICK row \in rows : row.id = response[s].row
    BY <1>9 DEF RowsInv, OneRowPerRepository
  <2> QED
    BY <1>1, <2>1, <2>2
<1>10. \A s, t \in Requests :
         response'[s].kind = "Created" /\ response'[t].kind = "Created"
           /\ response'[s].row = response'[t].row => s = t
  <2>1. \A s, t \in Requests :
          response[s].kind = "Created" /\ response[t].kind = "Created"
            /\ response[s].row = response[t].row => s = t
    BY DEF RowsInv, OneRowPerRepository
  <2> QED
    BY <1>5, <1>9, <2>1
<1>11. OneRowPerRepository'
  BY <1>6, <1>8, <1>10 DEF OneRowPerRepository, SameIdentity
<1> QED
  BY <1>1, <1>4, <1>11 DEF RowsInv

LEMMA RowsStep ==
  ASSUME RegistrationTypeOK, RowsInv, [Next]_vars
  PROVE  RowsInv'
<1> USE DEF storeVars, handlerVars, envVars, pickerVars
<1>1. CASE UNCHANGED vars
  BY <1>1, SameRows DEF vars
<1>2. ASSUME NEW r \in Requests, Refuse(r), rows' = rows, clock' = clock
      PROVE  RowsInv'
  BY <1>2, RefuseRows, SameRows
<1>3. ASSUME NEW r \in Requests, RequestStep(r)
      PROVE  RowsInv'
  <2>1. rows' = rows /\ clock' = clock
    BY <1>3 DEF RequestStep, Add, Pick, TakeSelection, GitAnswers, CargoAnswers, Disconnect
  <2>2. Refuse(r) \/ UNCHANGED response
    BY <1>3
    DEF RequestStep, Add, Pick, TakeSelection, GitAnswers, CargoAnswers, Disconnect, Validate
  <2> QED
    BY <1>2, <2>1, <2>2, SameRows
<1>4. ASSUME NEW r \in Requests, DialogStep(r)
      PROVE  RowsInv'
  BY <1>4, SameRows DEF DialogStep, ShowDialog, CloseDialog, FreeGate, Respond
<1>5. CASE Commit
  <2> DEFINE r == Head(queue).request
             input == Head(queue).input
             outcome == IF Existing(input) = {} THEN "Created" ELSE "Existing"
  <2>1. PICK id \in 1..(Cardinality(rows) + 1) :
          /\ RegisterRepository(input, id)
          /\ \/ Return(r, [kind |-> outcome, row |-> id, input |-> input])
             \/ Return(r, NoRow)
    BY <1>5 DEF Commit
  <2>2. id \in Nat
    BY FS_CardinalityType DEF RowsInv
  <2>3. r \in Requests /\ input \in Inputs /\ clock' = clock
    BY <1>5, HeadOfQueue DEF Commit
  <2> HIDE DEF r, input
  <2> QED
    BY <2>1, <2>2, <2>3, CommitRows
<1>6. CASE Fail
  <2>1. Head(queue).request \in Requests
    BY <1>6, HeadOfQueue DEF Fail
  <2>2. \A r \in Requests : response'[r] = response[r] \/ response'[r].kind = "none"
    BY <1>6, <2>1, RefuseRows DEF Fail, Return, Refuse
  <2> QED
    BY <1>6, <2>2, SameRows DEF Fail
<1>7. CASE Tick \/ RequestQuit \/ StartShutdown \/ Exit
  BY <1>7, SameRows DEF Tick, RequestQuit, StartShutdown, Exit
<1> QED
  BY <1>1, <1>3, <1>4, <1>5, <1>6, <1>7 DEF Next

-----------------------------------------------------------------------------
(* Theorems.                                                                 *)

RegistrationInv == RegistrationTypeOK /\ RowsInv /\ FoundInv /\ DialogInv

LEMMA RegistrationHolds == Spec => []RegistrationInv
<1>1. Init => RegistrationTypeOK
  <2>1. Nothing \in Inputs
    BY DEF Nothing, Inputs, Paths
  <2>2. SUFFICES ASSUME Init
                 PROVE  RegistrationTypeOK
    OBVIOUS
  <2>3. response \in [Requests -> Answers]
    BY <2>2, NoRowTypes DEF Init
  <2>4. /\ found \in [Requests -> Inputs]
        /\ stage \in [Requests -> {"new", "picking", "git", "cargo", "waiting", "done"}]
        /\ dialog \in [Requests -> {"none", "asked", "shown", "closed", "answered"}]
    BY <2>1, <2>2 DEF Init
  <2>5. /\ queue \in Seq([request : Requests, input : Inputs])
        /\ rows = {} /\ owners = {}
    BY <2>2 DEF Init
  <2>6. dispatched \in BOOLEAN /\ gateClosed \in BOOLEAN /\ pickerOpen \in BOOLEAN
    BY <2>2, Zenon DEF Init
  <2>7. 0 \in 0..MaxTime
    BY TimeAssumption
  <2>8. app = "running" /\ clock \in 0..MaxTime
    BY <2>2, <2>7, Zenon DEF Init
  <2> QED
    BY <2>3, <2>4, <2>5, <2>6, <2>8 DEF RegistrationTypeOK, Answers
<1>2. Init => RowsInv /\ FoundInv /\ DialogInv
  BY FS_EmptySet
  DEF Init, RowsInv, OneRowPerRepository, FoundInv, RowsAreNested, DialogInv, NoRow
<1>3. RegistrationInv /\ [Next]_vars => RegistrationInv'
  BY TypeStep, RowsStep, FoundStep, DialogInvStep DEF RegistrationInv, RowsInv
<1> QED
  BY <1>1, <1>2, <1>3, PTL DEF Spec, RegistrationInv

\* RowsAreNested, whatever git and cargo answer.
THEOREM RowsStayNested == Spec => []RowsAreNested
<1>1. RegistrationInv => RowsAreNested
  BY DEF RegistrationInv, FoundInv
<1> QED
  BY <1>1, RegistrationHolds, PTL

\* OneRowPerRepository, however many register the same repository.
THEOREM RepositoriesAreUnique == Spec => []OneRowPerRepository
<1>1. RegistrationInv => OneRowPerRepository
  BY DEF RegistrationInv, RowsInv
<1> QED
  BY <1>1, RegistrationHolds, PTL

\* OneDialogAtATime, even when the clients that asked have gone.
THEOREM DialogsExclude == Spec => []OneDialogAtATime
<1>1. RegistrationInv => OneDialogAtATime
  BY OneOwnerOneDialog DEF RegistrationInv
<1> QED
  BY <1>1, RegistrationHolds, PTL

\* Rows are written by a commit only.
LEMMA RowsAreCommitted ==
  ASSUME Next, rows' # rows
  PROVE  Commit
<1> USE DEF storeVars, handlerVars
<1>1. ASSUME NEW r \in Requests, RequestStep(r) \/ DialogStep(r)
      PROVE  rows' = rows
  BY <1>1
  DEF RequestStep, Add, Pick, TakeSelection, GitAnswers, CargoAnswers, Disconnect,
      DialogStep, ShowDialog, CloseDialog, FreeGate, Respond
<1>2. ASSUME Fail \/ Tick \/ RequestQuit \/ StartShutdown \/ Exit
      PROVE  rows' = rows
  BY <1>2 DEF Fail, Tick, RequestQuit, StartShutdown, Exit
<1> QED
  BY <1>1, <1>2 DEF Next

\* LastOpenedIsFirst: nothing was opened later than now.
THEOREM LastOpenedHeadsTheList == Spec => LastOpenedIsFirst
<1> DEFINE Step == \A row \in rows' \ rows : \A other \in rows' :
                     ListedBefore(other, row) => other.opened = row.opened
<1>1. ASSUME RegistrationInv, RegistrationInv', [Next]_vars
      PROVE  [Step]_vars
  <2>1. CASE rows' = rows
    BY <2>1
  <2>2. CASE rows' # rows
    <3>1. CASE UNCHANGED vars
      BY <3>1
    <3>2. CASE Next
      <4>1. Commit
        BY <2>2, <3>2, RowsAreCommitted
      <4>2. \A row \in rows' \ rows : row.opened = clock
        BY <4>1, RowsAfter DEF Commit, Registered
      <4>3. clock' = clock
        BY <4>1 DEF Commit, envVars
      <4>4. \A other \in rows' : other.opened \in Nat /\ other.opened <= clock
        BY <1>1, <4>3 DEF RegistrationInv, RegistrationTypeOK, RowsInv
      <4>5. clock \in Nat
        BY <1>1, TimeAssumption DEF RegistrationInv, RegistrationTypeOK
      <4> QED
        BY <4>2, <4>4, <4>5 DEF ListedBefore
    <3> QED
      BY <1>1, <3>1, <3>2
  <2> QED
    BY <2>1, <2>2
<1> QED
  BY <1>1, RegistrationHolds, PTL DEF Spec, LastOpenedIsFirst

=============================================================================
