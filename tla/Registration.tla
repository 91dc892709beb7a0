----------------------------- MODULE Registration ---------------------------
(***************************************************************************)
(* Registering repositories: requests with a path or through the native    *)
(* folder dialog, the discovery of the Git root and the Cargo workspace,   *)
(* the writer and the table of repositories; and the quit of the program,  *)
(* which on macOS shares its main thread with the dialog.                  *)
(*                                                                         *)
(* git, cargo and the file system answer anything, and may answer          *)
(* differently at every read.  A commit's answer may be lost (StoreWriter  *)
(* has the retries and deadlines).                                         *)
(***************************************************************************)
EXTENDS Naturals, Sequences, FiniteSets

CONSTANTS
  Requests,         \* POST /api/repositories and /api/repositories/pick
  Dirs,             \* canonical directories
  Above,            \* the directories on the path to each, itself included
  MaxTime           \* bound: the wall clock stops here

NoDir == "none"

ASSUME TreeAssumption ==
  /\ NoDir \notin Dirs
  /\ Above \in [Dirs -> SUBSET Dirs]
  /\ \A d \in Dirs : d \in Above[d]
  /\ \A d, e \in Dirs : e \in Above[d] => Above[e] \subseteq Above[d]

ASSUME TimeAssumption == MaxTime \in Nat

VARIABLES
  dispatched,       \* the dialogs run on the main thread (macOS)
  app,              \* run_application and its shutdown coordinator
  gateClosed,       \* MutationLifecycle.closed
  clock,
  stage,            \* where the handler of each request is
  found,            \* what discovery knows so far
  response,         \* how each request was answered
  pickerOpen,       \* PICKER_OPEN
  owners,           \* the requests whose PickerGate is alive
  dialog,           \* the dialog each request asked for
  queue,            \* commands in the writer's channel
  rows              \* the table of repositories

handlerVars == <<stage, found, response>>
pickerVars == <<pickerOpen, owners, dialog>>
storeVars == <<queue, rows>>
envVars == <<dispatched, app, gateClosed, clock>>
vars == <<envVars, handlerVars, pickerVars, storeVars>>

Nothing == [selected |-> NoDir, git |-> NoDir, cargo |-> NoDir]
NoRow == [kind |-> "none", row |-> 0, input |-> Nothing]

Init ==
  /\ dispatched \in BOOLEAN
  /\ app = "running" /\ gateClosed = FALSE /\ clock = 0
  /\ stage = [r \in Requests |-> "new"]
  /\ found = [r \in Requests |-> Nothing]
  /\ response = [r \in Requests |-> NoRow]
  /\ pickerOpen = FALSE /\ owners = {}
  /\ dialog = [r \in Requests |-> "none"]
  /\ queue = << >> /\ rows = {}

-----------------------------------------------------------------------------
(* Handlers.                                                               *)

\* strip_prefix.
Under(d, root) == root \in Above[d]

Finish(r, answer) ==
  /\ stage' = [stage EXCEPT ![r] = "done"]
  /\ found' = [found EXCEPT ![r] = Nothing]
  /\ response' = [response EXCEPT ![r] = answer]

\* An answer without a repository: an error, or 204.
Refuse(r) == Finish(r, NoRow)

\* validate_selected: the path is missing, not a directory, or canonical.
Validate(r) ==
  \/ Refuse(r)
  \/ \E d \in Dirs :
       /\ found' = [found EXCEPT ![r].selected = d]
       /\ stage' = [stage EXCEPT ![r] = "git"]
       /\ UNCHANGED response

\* add_repository: the gate is entered, which is refused when it is closed or the store
\* degraded, and the path validated without an await.
Add(r) ==
  /\ stage[r] = "new"
  /\ Refuse(r) \/ (~gateClosed /\ Validate(r))
  /\ UNCHANGED <<envVars, pickerVars, storeVars>>

\* pick_repository and PickerGate::acquire; the dialog's task is spawned.
Pick(r) ==
  /\ stage[r] = "new"
  /\ \/ Refuse(r) /\ UNCHANGED pickerVars
     \/ /\ ~gateClosed /\ ~pickerOpen
        /\ pickerOpen' = TRUE /\ owners' = owners \cup {r}
        /\ dialog' = [dialog EXCEPT ![r] = "asked"]
        /\ stage' = [stage EXCEPT ![r] = "picking"]
        /\ UNCHANGED <<found, response>>
  /\ UNCHANGED <<envVars, storeVars>>

\* The user's answer arrives: a folder, or none.
TakeSelection(r) ==
  /\ stage[r] = "picking" /\ dialog[r] = "answered"
  /\ \/ Validate(r)
     \/ Refuse(r)
  /\ UNCHANGED <<envVars, pickerVars, storeVars>>

\* `git rev-parse --show-toplevel' names a root the selection lies in.
RevParse(r, git) ==
  Under(found[r].selected, git)

\* git's answer and nearest_manifest, the search for a Cargo.toml from the selection up
\* to the Git root, without an await between them; either may fail, and where the
\* manifest was found is left to cargo.
GitAnswers(r) ==
  /\ stage[r] = "git"
  /\ \/ Refuse(r)
     \/ \E git \in Dirs :
          /\ RevParse(r, git)
          /\ found' = [found EXCEPT ![r].git = git]
          /\ stage' = [stage EXCEPT ![r] = "cargo"]
          /\ UNCHANGED response
  /\ UNCHANGED <<envVars, pickerVars, storeVars>>

\* file_name: the root of the file system has no name to display.
HasName(d) == Above[d] # {d}

\* `cargo locate-project --workspace' fails, or names a workspace that is accepted
\* inside the Git root; the command is sent to the writer.
CargoAnswers(r) ==
  /\ stage[r] = "cargo"
  /\ \/ Refuse(r) /\ UNCHANGED queue
     \/ \E cargo \in Dirs :
          /\ Under(cargo, found[r].git) /\ HasName(found[r].git)
          /\ queue' = Append(queue,
                [request |-> r, input |-> [found[r] EXCEPT !.cargo = cargo]])
          /\ found' = [found EXCEPT ![r] = Nothing]
          /\ stage' = [stage EXCEPT ![r] = "waiting"]
          /\ UNCHANGED response
  /\ UNCHANGED <<envVars, pickerVars, rows>>

\* Mutant: the gate belongs to the handler and is dropped with it.
Disconnect_Mutant(r) ==
  /\ stage[r] \in {"picking", "git", "cargo", "waiting"}
  /\ Refuse(r)
  /\ owners' = owners \ {r} /\ pickerOpen' = (owners \ {r} # {})
  /\ UNCHANGED <<envVars, dialog, storeVars>>

\* The client goes away: the handler's future is dropped, and its guard with it, but
\* neither the dialog's task nor the command it sent.
Disconnect(r) ==
  /\ stage[r] \in {"picking", "git", "cargo", "waiting"}
  /\ Refuse(r)
  /\ UNCHANGED <<envVars, pickerVars, storeVars>>

-----------------------------------------------------------------------------
(* The native dialog.                                                      *)

Shown == {r \in Requests : dialog[r] = "shown"}

\* Elsewhere than on macOS the dialog has a thread of its own.  On macOS the main
\* thread pumps the requests, and shows a dialog until the user closes it.
MainThreadFree == ~dispatched \/ Shown = {}

ShowDialog(r) ==
  /\ dialog[r] = "asked" /\ MainThreadFree
  /\ dialog' = [dialog EXCEPT ![r] = "shown"]
  /\ UNCHANGED <<envVars, handlerVars, pickerOpen, owners, storeVars>>

\* The user chooses a folder or cancels.
CloseDialog(r) ==
  /\ dialog[r] = "shown"
  /\ dialog' = [dialog EXCEPT ![r] = "closed"]
  /\ UNCHANGED <<envVars, handlerVars, pickerOpen, owners, storeVars>>

\* Drop for PickerGate.  A direct dialog's task drops it before it answers, the
\* main thread after.
FreeGate(r) ==
  /\ r \in owners
  /\ dialog[r] = IF dispatched THEN "answered" ELSE "closed"
  /\ owners' = owners \ {r} /\ pickerOpen' = FALSE
  /\ UNCHANGED <<envVars, handlerVars, dialog, storeVars>>

\* The answer goes to the handler, which may be gone.
Respond(r) ==
  /\ dialog[r] = "closed" /\ (dispatched \/ r \notin owners)
  /\ dialog' = [dialog EXCEPT ![r] = "answered"]
  /\ UNCHANGED <<envVars, handlerVars, pickerOpen, owners, storeVars>>

-----------------------------------------------------------------------------
(* The writer and Store::register_repository.                              *)

Tick ==
  /\ clock < MaxTime
  /\ clock' = clock + 1
  /\ UNCHANGED <<dispatched, app, gateClosed, handlerVars, pickerVars, storeVars>>

\* identity_key.
SameIdentity(row, input) == row.git = input.git /\ row.cargo = input.cargo

\* Mutant: a selection not seen before is a new repository, and nothing is UNIQUE.
Existing_Mutant(input) ==
  {row \in rows : SameIdentity(row, input) /\ row.selected = input.selected}

Existing(input) == {row \in rows : SameIdentity(row, input)}

\* Mutant: a repository that is opened again keeps its time.
RegisterRepository_Mutant(input, id) ==
  LET old == Existing(input) IN
  /\ old # {} => \E row \in old : row.id = id
  /\ old = {} => \A row \in rows : row.id # id
  /\ rows' = (rows \ old) \cup
       {[id |-> id, selected |-> input.selected, git |-> input.git, cargo |-> input.cargo,
         created |-> at, opened |-> at] :
           at \in IF old = {} THEN {clock} ELSE {row.opened : row \in old}}

\* The transaction: a known identity is reopened, a new one inserted.
RegisterRepository(input, id) ==
  LET old == Existing(input) IN
  /\ old # {} => \E row \in old : row.id = id
  /\ old = {} => \A row \in rows : row.id # id
  /\ rows' = (rows \ old) \cup
       {[id |-> id, selected |-> input.selected, git |-> input.git, cargo |-> input.cargo,
         created |-> at, opened |-> clock] :
           at \in IF old = {} THEN {clock} ELSE {row.created : row \in old}}

\* The result reaches the handler, if it is still there.
Return(r, answer) ==
  IF stage[r] = "waiting" THEN Finish(r, answer) ELSE UNCHANGED handlerVars

Commit ==
  /\ queue # << >>
  /\ queue' = Tail(queue)
  /\ LET r == Head(queue).request
         input == Head(queue).input
         outcome == IF Existing(input) = {} THEN "Created" ELSE "Existing" IN
     \E id \in 1..(Cardinality(rows) + 1) :
       /\ RegisterRepository(input, id)
       /\ \/ Return(r, [kind |-> outcome, row |-> id, input |-> input])
          \/ Return(r, NoRow)
  /\ UNCHANGED <<envVars, pickerVars>>

\* Nothing is written: the store is busy or broken, or the deadline has passed.
Fail ==
  /\ queue # << >>
  /\ queue' = Tail(queue)
  /\ Return(Head(queue).request, NoRow)
  /\ UNCHANGED <<envVars, pickerVars, rows>>

-----------------------------------------------------------------------------
(* The service and its end.                                                *)

\* The browser's quit closes the gate and signals; a signal of the system only signals.
RequestQuit ==
  /\ app = "running"
  /\ app' = "quitting"
  /\ gateClosed' \in BOOLEAN
  /\ UNCHANGED <<dispatched, clock, handlerVars, pickerVars, storeVars>>

\* run_application sees the signal when the main thread polls it.
StartShutdown ==
  /\ app = "quitting" /\ MainThreadFree
  /\ app' = "stopping" /\ gateClosed' = TRUE
  /\ UNCHANGED <<dispatched, clock, handlerVars, pickerVars, storeVars>>

\* The coordinator is done, because no mutation is left or its time is up, and
\* run_application returns when the main thread polls it: the process ends.
Exit ==
  /\ app = "stopping" /\ MainThreadFree
  /\ app' = "over"
  /\ UNCHANGED <<dispatched, gateClosed, clock, handlerVars, pickerVars, storeVars>>

RequestStep(r) ==
  \/ Add(r) \/ Pick(r) \/ TakeSelection(r) \/ GitAnswers(r) \/ CargoAnswers(r)
  \/ Disconnect(r)

DialogStep(r) == ShowDialog(r) \/ CloseDialog(r) \/ FreeGate(r) \/ Respond(r)

Next ==
  /\ app # "over"
  /\ \/ \E r \in Requests : RequestStep(r) \/ DialogStep(r)
     \/ Commit \/ Fail \/ Tick \/ RequestQuit \/ StartShutdown \/ Exit

Spec == Init /\ [][Next]_vars

\* The parts of the program are scheduled; nothing makes a user close a dialog.
FairSpec ==
  /\ Spec
  /\ WF_vars(StartShutdown) /\ WF_vars(Exit)
  /\ \A r \in Requests :
       WF_vars(ShowDialog(r)) /\ WF_vars(FreeGate(r)) /\ WF_vars(Respond(r))

-----------------------------------------------------------------------------
(* Properties.                                                             *)

Paths == Dirs \cup {NoDir}
Inputs == [selected : Paths, git : Paths, cargo : Paths]

\* Every variable keeps its type.
RegistrationTypeOK ==
  /\ dispatched \in BOOLEAN /\ gateClosed \in BOOLEAN
  /\ app \in {"running", "quitting", "stopping", "over"}
  /\ clock \in 0..MaxTime
  /\ stage \in [Requests -> {"new", "picking", "git", "cargo", "waiting", "done"}]
  /\ found \in [Requests -> Inputs]
  /\ response \in [Requests -> [kind : {"none", "Created", "Existing"}, row : Nat,
                                input : Inputs]]
  /\ pickerOpen \in BOOLEAN /\ owners \subseteq Requests
  /\ dialog \in [Requests -> {"none", "asked", "shown", "closed", "answered"}]
  /\ queue \in Seq([request : Requests, input : Inputs])
  /\ rows \subseteq [id : Nat, selected : Paths, git : Paths, cargo : Paths,
                     created : Nat, opened : Nat]

\* Whatever git, cargo and the file system answer and however registrations of one
\* repository overtake each other, the directory a row shows and its workspace lie
\* in its Git root, which has a name.
RowsAreNested ==
  \A row \in rows :
    /\ Under(row.selected, row.git) /\ Under(row.cargo, row.git)
    /\ HasName(row.git)

\* A repository has one row under one id, whoever registers it and how often: all
\* answers about it give that id, one at most says it was created, and an answer
\* stands for a commit.
OneRowPerRepository ==
  /\ \A a, b \in rows : a.id = b.id \/ SameIdentity(a, b) => a = b
  /\ \A r \in Requests : response[r].kind \in {"Created", "Existing"} =>
       \E row \in rows : row.id = response[r].row /\ SameIdentity(row, response[r].input)
  /\ \A r, s \in Requests :
       response[r].kind = "Created" /\ response[s].kind = "Created"
         /\ response[r].row = response[s].row => r = s

\* list_repositories: ORDER BY last_opened_at DESC, id.
ListedBefore(a, b) ==
  \/ a.opened > b.opened
  \/ a.opened = b.opened /\ a.id < b.id

\* Whoever waits for whom, the repository registered or reopened last heads the list,
\* with others at most whose time is the same.
LastOpenedIsFirst ==
  [][\A row \in rows' \ rows : \A other \in rows' :
       ListedBefore(other, row) => other.opened = row.opened]_vars

\* One dialog is open at a time, even when the client that asked for it has gone, and
\* the gate is closed only for a dialog that will free it.
OneDialogAtATime ==
  /\ Cardinality(Shown) <= 1 /\ Shown \subseteq owners
  /\ pickerOpen <=> owners # {}
  /\ \A r \in owners : dialog[r] # "none"

\* "the entire shutdown gets at most 10 seconds": a quit ends the process, whether or
\* not the user closes the dialog.
QuitEndsTheProcess == app = "quitting" ~> app = "over"

=============================================================================
