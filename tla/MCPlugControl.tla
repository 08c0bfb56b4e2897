--------------------------- MODULE MCPlugControl ---------------------------
(* TLC instance of PlugControl: a master and two branches.                  *)
EXTENDS PlugControl

Ask(s) == [NoRequest EXCEPT !.set = [p \in Plug |-> s[p + 1]]]

\* plug 1 (or 0) gets a task with the given repeat mask and action.
Arm(p, repeat, action) ==
  [NoRequest EXCEPT !.task =
     {<<p, 0, [on |-> 1, repeat |-> repeat, action |-> action]>>}]

\* Run plug_press: the master switched alone and against a branch, and a branch
\* switched by a message that renames the device and the other one.
PressRequests ==
  { Ask(<<0, NoSet, NoSet>>), Ask(<<0, 1, NoSet>>),
    [Ask(<<NoSet, 1, NoSet>>) EXCEPT !.name = TRUE, !.rename = {2}] }

\* Runs plug_task, plug_task_unsaved: a message with settings, a one-shot that
\* switches the master off and a repeating task for the branch.
TaskRequests ==
  { [NoRequest EXCEPT !.task = Arm(0, 0, 0).task \cup Arm(1, 127, 1).task,
                      !.mqtt = "all", !.interval = 9] }

\* Run plug_master_task: the timer is told to switch the master off.
MasterOffRequests == { Arm(0, 127, 0) }

\* Run plug_save_race: any message that is saved will do.
RenameRequests == { [NoRequest EXCEPT !.name = TRUE] }

\* Written by firmware with configuration version 4.
OldConfig == [DefaultConfig EXCEPT !.version = 4, !.interval = 255,
                                   !.on = [p \in Plug |-> 0]]

NewDevice == {Erased}
OldDevice == {OldConfig}
=============================================================================
