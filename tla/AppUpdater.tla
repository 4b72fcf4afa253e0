----------------------------- MODULE AppUpdater -----------------------------
(***************************************************************************)
(* The updater of a Linux build (src/app_updater/app_updater.c): the tasks *)
(* that look for a new version each time the login window is shown, the    *)
(* tasks that install one, and the two windows they report to: the login   *)
(* window (remote-viewer-connect.c) and the settings dialog                *)
(* (remote_viewer_start_settings.c).                                       *)
(*                                                                         *)
(* A task is kept from running twice by a flag its worker reads and raises *)
(* in two steps, and an update raises it only when the password has been   *)
(* checked.  The password is one field for all of them.  The dialog learns *)
(* of the flag by idle callbacks that read it when they run, and shows its *)
(* boxes in loops of their own.                                            *)
(***************************************************************************)
EXTENDS Naturals

CONSTANTS
    Checks,     \* Bound: checks for a new version under way
    Updates,    \* Bound: updates under way
    MaxIdles,   \* Bound: state_changed callbacks queued
    MaxBoxes    \* Bound: error boxes open above one another

ASSUME MaxIdlesAssumption == MaxIdles \in Nat
ASSUME MaxBoxesAssumption == MaxBoxes \in Nat

VARIABLES
    check,        \* where each check is
    isChecking,   \* _is_checking_updates
    win,          \* the login window is shown, its handler connected
    told,         \* it has been told the outcome of a check that was made
    update,       \* where each update is
    isGetting,    \* _is_getting_updates
    password,     \* _admin_password is set
    idles,        \* state_changed callbacks queued
    dialog,       \* the settings dialog: ending when its loop is to stop
    sensitive,    \* its update button can be clicked
    ask,          \* the box that asks for the password is open
    boxes,        \* error boxes open
    turnedAway,   \* history: an update met the flag and kept the password there is
    staleBox      \* history: an error box of this dialog was closed while an update ran

checkVars == <<check, isChecking, win, told>>
updateVars == <<update, isGetting, password, turnedAway>>
dialogVars == <<dialog, sensitive, ask, boxes>>
updaterVars == <<checkVars, updateVars, idles, dialogVars, staleBox>>

\* queued: the worker has not begun; entering: it found the flag down; running: it
\* raised it; done: the callback is queued; skipped: so it is, for a worker that found
\* the flag up and returned without a result.
CheckPcs == {"idle", "queued", "entering", "running", "done", "skipped"}

\* queued: as above; check: the password is checked; work: the flag is up and the
\* commands run; clear: at clear_mark; lower: the password is forgotten, the flag still
\* up.
UpdatePcs == {"idle", "queued", "check", "work", "clear", "lower"}

UpdaterTypeOK ==
    /\ check \in [Checks -> CheckPcs] /\ update \in [Updates -> UpdatePcs]
    /\ isChecking \in BOOLEAN /\ isGetting \in BOOLEAN
    /\ win \in BOOLEAN /\ told \in BOOLEAN
    /\ password \in BOOLEAN
    /\ idles \in 0 .. MaxIdles /\ boxes \in 0 .. MaxBoxes
    /\ dialog \in {"closed", "open", "ending"} /\ sensitive \in BOOLEAN /\ ask \in BOOLEAN
    /\ (ask \/ boxes > 0) => dialog # "closed"   \* their widgets belong to the dialog
    /\ turnedAway \in BOOLEAN /\ staleBox \in BOOLEAN

UpdaterInit ==
    /\ check = [c \in Checks |-> "idle"] /\ update = [u \in Updates |-> "idle"]
    /\ isChecking = FALSE /\ isGetting = FALSE
    /\ win = FALSE /\ told = FALSE
    /\ password = FALSE
    /\ idles = 0 /\ boxes = 0
    /\ dialog = "closed" /\ sensitive = FALSE /\ ask = FALSE
    /\ turnedAway = FALSE /\ staleBox = FALSE

-----------------------------------------------------------------------------
(* Looking for a new version.                                              *)

checkFrame == <<updateVars, idles, dialogVars, staleBox>>

GoCheck(c, here, there) == check[c] = here /\ check' = [check EXCEPT ![c] = there]

\* remote_viewer_connect_show: the handler is connected, and a check is started.
remote_viewer_connect_show ==
    /\ ~win
    /\ win' = TRUE /\ told' = FALSE
    /\ \E c \in Checks : GoCheck(c, "idle", "queued")
    /\ UNCHANGED <<isChecking, checkFrame>>

\* remote_viewer_connect_finish_job, also when the answer to a login comes while the
\* settings dialog is open: the dialog's loop is told to stop, which it does when the
\* loops of the boxes above it have ended, and the handler is disconnected.
remote_viewer_connect_finish_job ==
    /\ win
    /\ win' = FALSE
    /\ dialog' = IF dialog = "open" THEN "ending" ELSE dialog
    /\ UNCHANGED <<check, isChecking, told, sensitive, ask, boxes, updateVars, idles,
                   staleBox>>

\* app_updater_check_linux_updates_task reads the flag...
check_begins(c) ==
    /\ GoCheck(c, "queued", IF isChecking THEN "skipped" ELSE "entering")
    /\ UNCHANGED <<isChecking, win, told, checkFrame>>

\* ...and raises it.
check_entered(c) ==
    /\ GoCheck(c, "entering", "running")
    /\ isChecking' = TRUE
    /\ UNCHANGED <<win, told, checkFrame>>

\* A mutant of check_ends: the flag stays up.
CheckEndsFlagUp(c) ==
    /\ GoCheck(c, "running", "done")
    /\ UNCHANGED <<isChecking, win, told, checkFrame>>

\* The command has ended.  The callback is queued only when the worker returns, after
\* it lowered the flag.
check_ends(c) ==
    /\ GoCheck(c, "running", "done")
    /\ isChecking' = FALSE
    /\ UNCHANGED <<win, told, checkFrame>>

\* app_updater_on_check_updates_task_finished: "updates-checked" tells the window that
\* is connected now; without a result it says that there is nothing new.
check_updates_task_finished(c) ==
    /\ check[c] \in {"done", "skipped"}
    /\ check' = [check EXCEPT ![c] = "idle"]
    /\ told' = (told \/ (win /\ check[c] = "done"))
    /\ UNCHANGED <<isChecking, win, checkFrame>>

-----------------------------------------------------------------------------
(* Installing it: app_updater_get_linux_updates_task.                      *)

workerFrame == <<checkVars, dialogVars>>

GoUpdate(u, here, there) == update[u] = here /\ update' = [update EXCEPT ![u] = there]

\* The flag is read.  A worker that is turned away forgets no password; one without a
\* script, or without a password, gives up.
update_begins(u) ==
    /\ IF isGetting
       THEN GoUpdate(u, "queued", "idle") /\ turnedAway' = (turnedAway \/ password)
       ELSE /\ \E there \in IF password THEN {"check", "clear"} ELSE {"clear"} :
                  GoUpdate(u, "queued", there)
            /\ UNCHANGED turnedAway
    /\ UNCHANGED <<isGetting, password, idles, staleBox, workerFrame>>

password_refused(u) ==
    /\ GoUpdate(u, "check", "clear")
    /\ UNCHANGED <<isGetting, password, turnedAway, idles, staleBox, workerFrame>>

\* The flag is raised only now.
password_accepted(u) ==
    /\ idles < MaxIdles
    /\ GoUpdate(u, "check", "work")
    /\ isGetting' = TRUE
    /\ idles' = idles + 1
    /\ UNCHANGED <<password, turnedAway, staleBox, workerFrame>>

\* The commands that look for the version and, when one was found, install it have
\* ended: nothing that is shared is written meanwhile.
commands_end(u) ==
    /\ GoUpdate(u, "work", "clear")
    /\ UNCHANGED <<isGetting, password, turnedAway, idles, staleBox, workerFrame>>

\* A mutant of forget_password: the error paths leave it.
ForgetUnlessFailed(u) ==
    /\ GoUpdate(u, "clear", "lower")
    /\ password' = (password /\ ~isGetting)
    /\ UNCHANGED <<isGetting, turnedAway, idles, staleBox, workerFrame>>

\* clear_mark, under the mutex.
forget_password(u) ==
    /\ GoUpdate(u, "clear", "lower")
    /\ password' = FALSE /\ turnedAway' = FALSE
    /\ UNCHANGED <<isGetting, idles, staleBox, workerFrame>>

\* A mutant of lower_flag: the dialog is not notified.
LowerFlagSilently(u) ==
    /\ GoUpdate(u, "lower", "idle")
    /\ isGetting' = FALSE
    /\ UNCHANGED <<idles, password, turnedAway, staleBox, workerFrame>>

\* The flag is lowered, whichever update raised it.
lower_flag(u) ==
    /\ idles < MaxIdles
    /\ GoUpdate(u, "lower", "idle")
    /\ isGetting' = FALSE
    /\ idles' = idles + 1
    /\ UNCHANGED <<password, turnedAway, staleBox, workerFrame>>

-----------------------------------------------------------------------------
(* The settings dialog.                                                    *)

\* remote_viewer_start_settings_dialog.
dialog_opened ==
    /\ win /\ dialog = "closed"
    /\ dialog' = "open"
    /\ sensitive' = ~isGetting
    /\ UNCHANGED <<ask, boxes, checkVars, updateVars, idles, staleBox>>

\* A mutant of dialog_closed: the dialog goes under the boxes above it.
DialogClosedUnderBoxes ==
    /\ dialog # "closed"
    /\ dialog' = "closed"
    /\ sensitive' = FALSE /\ staleBox' = FALSE
    /\ UNCHANGED <<ask, boxes, checkVars, updateVars, idles>>

\* The dialog goes when the loops of the boxes above it have ended.
dialog_closed ==
    /\ dialog # "closed" /\ ~ask /\ boxes = 0
    /\ dialog' = "closed"
    /\ sensitive' = FALSE /\ staleBox' = FALSE
    /\ UNCHANGED <<ask, boxes, checkVars, updateVars, idles>>

\* btn_get_app_updates_clicked_cb up to the box that asks for the password.
btn_get_app_updates_clicked ==
    /\ dialog = "open" /\ sensitive /\ ~ask /\ boxes = 0 /\ ~isGetting
    /\ ask' = TRUE
    /\ UNCHANGED <<dialog, sensitive, boxes, checkVars, updateVars, idles, staleBox>>

\* The rest of it: whether the box was cancelled is not asked, only whether there is a
\* password, which may be the one of another update.
password_box_closed(ok) ==
    /\ ask /\ boxes = 0
    /\ ask' = FALSE
    /\ password' = (password \/ ok)
    /\ IF password'
       THEN \E u \in Updates : GoUpdate(u, "idle", "queued")
       ELSE UNCHANGED update
    /\ UNCHANGED <<isGetting, turnedAway, dialog, sensitive, boxes, checkVars, idles,
                   staleBox>>

\* on_app_updater_status_changed, with the flag as it is now: when an update is over
\* and its command failed, a box shows the output, and the button waits for the box.
state_changed ==
    /\ idles > 0
    /\ idles' = idles - 1
    /\ \/ dialog = "closed" /\ UNCHANGED <<sensitive, boxes>>
       \/ dialog # "closed" /\ sensitive' = ~isGetting /\ UNCHANGED boxes
       \/ /\ dialog # "closed" /\ ~isGetting /\ boxes < MaxBoxes
          /\ boxes' = boxes + 1
          /\ UNCHANGED sensitive
    /\ UNCHANGED <<dialog, ask, checkVars, updateVars, staleBox>>

\* The rest of it, with the flag as it was.
error_box_closed ==
    /\ boxes > 0
    /\ boxes' = boxes - 1
    /\ sensitive' = TRUE
    /\ staleBox' = (staleBox \/ isGetting)
    /\ UNCHANGED <<dialog, ask, checkVars, updateVars, idles>>

CheckWorker(c) == check_begins(c) \/ check_entered(c) \/ check_ends(c)

UpdateWorker(u) ==
    \/ update_begins(u) \/ password_refused(u) \/ password_accepted(u)
    \/ commands_end(u) \/ forget_password(u) \/ lower_flag(u)

User ==
    \/ remote_viewer_connect_show \/ remote_viewer_connect_finish_job
    \/ dialog_opened \/ dialog_closed \/ btn_get_app_updates_clicked \/ error_box_closed
    \/ \E ok \in BOOLEAN : password_box_closed(ok)

UpdaterNext ==
    \/ \E c \in Checks : CheckWorker(c) \/ check_updates_task_finished(c)
    \/ \E u \in Updates : UpdateWorker(u)
    \/ User \/ state_changed

\* Workers run, the commands they start end, and the main loop runs what is queued, in
\* the loops of the boxes too.
UpdaterFairness ==
    /\ \A c \in Checks : /\ WF_updaterVars(CheckWorker(c))
                          /\ WF_updaterVars(check_updates_task_finished(c))
    /\ \A u \in Updates : WF_updaterVars(UpdateWorker(u))
    /\ WF_updaterVars(state_changed)

UpdaterSpec == UpdaterInit /\ [][UpdaterNext]_updaterVars /\ UpdaterFairness

-----------------------------------------------------------------------------
(* Properties.                                                             *)

\* Every login window learns the outcome of a check: one of its own, or the one that
\* its own was turned away by, and whose result no earlier window can have taken.
WindowIsTold == win ~> told \/ ~win

\* Between two updates the application keeps no password of the administrator, unless
\* it was given to an update that found another one running.
PasswordForgotten ==
    (\A u \in Updates : update[u] = "idle") => ~password \/ turnedAway

\* When the main loop has run what is queued, the button is off exactly while an update
\* runs, whatever dialogs were opened and closed meanwhile, and also when two updates
\* run: unless an error box of the dialog was closed while an update ran.
ButtonFollowsUpdate ==
    dialog # "closed" /\ idles = 0 /\ boxes = 0 => (sensitive <=> ~isGetting) \/ staleBox

\* Neither flag is left up by the last task that ran under it, whichever of them raised
\* it, lowered it or was refused: the next check and the next update are not turned away
\* by nobody.
FlagsHaveOwners ==
    /\ isChecking => \E c \in Checks : check[c] = "running"
    /\ isGetting => \E u \in Updates : update[u] \in {"work", "clear", "lower"}

\* The button is never off for good: when it is off and nothing is queued or shown that
\* would turn it on, an update is at work that will.  This has no exception.
ButtonComesBack ==
    dialog # "closed" /\ idles = 0 /\ boxes = 0 /\ ~sensitive =>
        \E u \in Updates : update[u] \in {"work", "clear", "lower"}
=============================================================================
