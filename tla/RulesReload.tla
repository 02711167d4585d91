---------------------------- MODULE RulesReload ----------------------------
(***************************************************************************)
(* Picking a rule file and reloading it when it is saved (MainViewModel.cs *)
(* on the session's LoadRules): the turns of the UI thread, the queue they *)
(* are posted to, the file watcher's threads and the debounce timer.       *)
(***************************************************************************)
EXTENDS RuleLoader

CONSTANTS
    Files,
    Builtin,   \* the bundled rules
    None,
    MaxSaves,  \* bound: saves
    MaxPicks   \* bound: files picked

ASSUME ReloadAssumption ==
    IsFiniteSet(Files) /\ Builtin \notin Files /\ None \notin Files
    /\ MaxSaves \in Nat /\ MaxPicks \in Nat

VARIABLES
    content,  \* [Files -> Contents]
    saves,    \* bound: saves so far
    picks,    \* bound: picks so far
    inForce,  \* the engine's rules: [file, rules]
    turn,     \* the file LoadRulesAsync has applied and not watched yet, None
    watched,  \* the file of _rulesWatcher, None
    raised,   \* [Files -> events of a watcher not yet posted]
    queue,    \* the UI thread's queue: [turn, file]
    pending,  \* the file of a debounce that is not cancelled, None
    missed,   \* history: a save of the watched file fell before its watcher was there
    carried   \* history: files with a reload on its way when the watched file was picked

reloadVars ==
    <<content, saves, picks, inForce, turn, watched, raised, queue, pending, missed, carried>>

ReloadInit ==
    /\ content \in [Files -> Contents] /\ saves = 0 /\ picks = 0
    /\ inForce = [file |-> Builtin, rules |-> <<>>]
    /\ turn = None /\ watched = None /\ raised = [f \in Files |-> 0] /\ queue = <<>>
    /\ pending = None /\ missed = FALSE /\ carried = {}

-----------------------------------------------------------------------------
(* The world: files are saved in place, and a watcher raises an event.      *)

\* mutant: the watcher of an earlier file is not disposed
AllHeard(f) == watched # None

Heard(f) == f = watched

\* a save raises one event or several
Save(f) ==
    /\ saves < MaxSaves /\ saves' = saves + 1
    /\ \E c \in Contents : content' = [content EXCEPT ![f] = c]
    /\ \/ Heard(f) /\ \E n \in 1..2 : raised' = [raised EXCEPT ![f] = @ + n]
       \/ ~Heard(f) /\ UNCHANGED raised
    /\ missed' = (IF f = watched /\ turn \in {None, f} THEN FALSE ELSE f = turn \/ missed)
    /\ UNCHANGED <<picks, inForce, turn, watched, queue, pending, carried>>

\* Changed: the watcher's thread posts ScheduleRulesReload
Post(f) ==
    /\ raised[f] > 0 /\ raised' = [raised EXCEPT ![f] = @ - 1]
    /\ queue' = Append(queue, [turn |-> "schedule", file |-> f])
    /\ UNCHANGED <<content, saves, picks, inForce, turn, watched, pending, missed, carried>>

\* the delay is over: its continuation posts ApplyRules
Fire ==
    /\ pending # None /\ pending' = None
    /\ queue' = Append(queue, [turn |-> "apply", file |-> pending])
    /\ UNCHANGED <<content, saves, picks, inForce, turn, watched, raised, missed, carried>>

-----------------------------------------------------------------------------
(* Turns of the UI thread.                                                  *)

\* core_load_rules: a file that is refused changes nothing
ApplyRules(f) ==
    \/ parse(content[f]) /\ inForce' = [file |-> f, rules |-> from_specs(content[f].rules)]
    \/ ~parse(content[f]) /\ UNCHANGED inForce

\* LoadRulesAsync, up to the watcher it replaces
Pick(f) ==
    /\ turn = None /\ picks < MaxPicks /\ picks' = picks + 1
    /\ ApplyRules(f)
    /\ turn' = IF parse(content[f]) THEN f ELSE None
    /\ missed' = (missed /\ ~parse(content[f]))
    /\ UNCHANGED <<content, saves, watched, raised, queue, pending, carried>>

OnItsWay ==
    {f \in Files : raised[f] > 0 \/ pending = f \/ \E i \in DOMAIN queue : queue[i].file = f}

WatchRules ==
    /\ turn # None /\ watched' = turn /\ turn' = None
    /\ carried' = OnItsWay
    /\ UNCHANGED <<content, saves, picks, inForce, raised, queue, pending, missed>>

\* mutant: the pending reload is cancelled and no other one takes its place
OnlyCancelled(f) == IF pending = None THEN f ELSE None

\* ScheduleRulesReload cancels the pending reload and starts the delay again
Restarted(f) == f

ScheduleTurn ==
    /\ turn = None /\ queue # <<>> /\ Head(queue).turn = "schedule"
    /\ pending' = Restarted(Head(queue).file) /\ queue' = Tail(queue)
    /\ UNCHANGED <<content, saves, picks, inForce, turn, watched, raised, missed, carried>>

ApplyTurn ==
    /\ turn = None /\ queue # <<>> /\ Head(queue).turn = "apply"
    /\ ApplyRules(Head(queue).file) /\ queue' = Tail(queue)
    /\ UNCHANGED <<content, saves, picks, turn, watched, raised, pending, missed, carried>>

ReloadNext ==
    \/ \E f \in Files : Save(f) \/ Post(f) \/ Pick(f)
    \/ Fire \/ WatchRules \/ ScheduleTurn \/ ApplyTurn

ReloadSpec == ReloadInit /\ [][ReloadNext]_reloadVars

\* Events are posted, delays end and the UI thread takes its turns; nobody must save or pick.
Fairness ==
    /\ \A f \in Files : WF_reloadVars(Post(f))
    /\ WF_reloadVars(Fire) /\ WF_reloadVars(WatchRules)
    /\ WF_reloadVars(ScheduleTurn) /\ WF_reloadVars(ApplyTurn)

FairSpec == ReloadSpec /\ Fairness

-----------------------------------------------------------------------------
(* Properties.                                                             *)

\* The engine runs the rules of the file the user picked last (the bundled ones before
\* that), or of a file whose reload was on its way when that one was picked: nothing else
\* brings an earlier file back, however saves, picks, events, delays and turns interleave.
\* And the rules it runs are always usable, whatever was saved.
RulesMeant ==
    /\ inForce.file \in {turn, watched} \cup carried \cup (IF watched = None THEN {Builtin} ELSE {})
    /\ Usable(inForce.rules)

Undisturbed ==
    /\ watched # None /\ turn = None /\ ~missed /\ carried \subseteq {watched}
    /\ parse(content[watched])

\* README.md:32: "the UI watches the file and hot-reloads on save".  When saving stops, the
\* engine ends up with what the watched file holds, if that can be loaded, unless the last
\* save fell between the load and the start of the watcher, or a reload of an earlier file
\* was on its way when this one was picked: it may come after, or cancel, the reload of
\* the new one.
LastSaveLoaded ==
    <>[](Undisturbed =>
            inForce = [file |-> watched, rules |-> from_specs(content[watched].rules)])
=============================================================================
