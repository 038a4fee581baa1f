------------------------------ MODULE Commands ------------------------------
(***************************************************************************)
(* The parts of the board's software behind PCL commands: the loading of   *)
(* the script, the commands that compute, the timer, the serial buses and  *)
(* the settings.  They share no state: the commands run one at a time      *)
(* under pcl_mtx, and what other threads do to a part is in its module.    *)
(* Every behaviour is one of one part, and the others do not move.         *)
(***************************************************************************)
EXTENDS Ticks, Serial, Settings, Script, PicolCalls

VARIABLE part

vars == <<part, tickVars, serialVars, setVars, scriptVars, callVars>>

Parts == {"ticks", "serial", "settings", "script", "calls"}

Init ==
  /\ part \in Parts
  /\ TickInit /\ SerialInit /\ SettingsInit /\ CallsInit
  /\ ScriptInit /\ (part = "script" \/ file = <<NL>>)

TicksStep ==
  /\ part = "ticks" /\ TickNext
  /\ UNCHANGED <<part, serialVars, setVars, scriptVars, callVars>>

SerialStep ==
  /\ part = "serial" /\ SerialNext
  /\ UNCHANGED <<part, tickVars, setVars, scriptVars, callVars>>

SettingsStep ==
  /\ part = "settings" /\ SettingsNext
  /\ UNCHANGED <<part, tickVars, serialVars, scriptVars, callVars>>

ScriptStep ==
  /\ part = "script" /\ ScriptNext
  /\ UNCHANGED <<part, tickVars, serialVars, setVars, callVars>>

CallsStep ==
  /\ part = "calls" /\ CallsNext
  /\ UNCHANGED <<part, tickVars, serialVars, setVars, scriptVars>>

Next == TicksStep \/ SerialStep \/ SettingsStep \/ ScriptStep \/ CallsStep

Spec == Init /\ [][Next]_vars
=============================================================================
