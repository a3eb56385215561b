------------------------------ MODULE Searches ------------------------------
(***************************************************************************)
(* The searches of the code for a tick in a list, each in a behaviour of   *)
(* its own below one initial choice: the upper bound of TicksHandler,      *)
(* which this module extends, and the start/end search of TickList.  They  *)
(* share the names of a list, its length and the tick that is looked for.  *)
(***************************************************************************)
EXTENDS UpperBoundSearch

CONSTANTS ListIndex, MaxListed,                            \* TickIndex and MaxTicks of TickList
          Net, Spacing

VARIABLES search,                                          \* the one that runs
          nets, spacing, call, start, end, pc, reply       \* of TickList

listVars == <<nets, spacing, call, start, end, pc, reply>>

Unused == -9

List == INSTANCE TickList WITH TickIndex <- ListIndex, MaxTicks <- MaxListed

ASSUME ListAssumption == List!TickListAssumption

(* Variables of the search that does not run keep one value; those of the   *)
(* upper bound, a search that has not started and has nothing to halve.      *)
UpperInit ==
  /\ search = "upper" /\ Init
  /\ pc = Unused
  /\ nets = Unused /\ spacing = Unused /\ call = Unused /\ start = Unused /\ end = Unused /\ reply = Unused

ListInit ==
  /\ search = "list" /\ List!Init
  /\ pos = 0 /\ step = 0 /\ result = NoResult

SearchesInit == UpperInit \/ ListInit

SearchesNext ==
  \/ search = "upper" /\ Next /\ UNCHANGED <<search, listVars>>
  \/ search = "list" /\ List!Next /\ UNCHANGED <<search, pos, step, result>>

SearchesSpec == SearchesInit /\ [][SearchesNext]_<<vars, search, listVars>>
-----------------------------------------------------------------------------
(* The answers of the legacy provider, see TickList.                         *)
ListAnswersRight == search = "list" => List!ListAnswersRight
=============================================================================
