----------------------------- MODULE Onboarding -----------------------------
(***************************************************************************)
(* An appliance on its way to its owner (src/src/onboarding/): Wi-Fi setup *)
(* over a hotspot of its own, the claim that makes an API key, the watchdog*)
(* that falls back to setup, and the state file that a boot reconciles.    *)
(* A claim writes two files; a crash may come between them.                *)
(*                                                                         *)
(* The process that mounts the routes of a state at boot and restarts on a *)
(* transition is not in the repository: Boot and Crash stand for it.       *)
(***************************************************************************)
EXTENDS Integers

CONSTANTS
  Threshold,  \* checks without Wi-Fi before the watchdog falls back
  MaxKeys,    \* bound on the keys ever made
  MaxFaults   \* bound on crashes, lost links and lost files

VARIABLES
  state,    \* state of the device in its file
  hash,     \* the key whose apiKeyHash is in the file; 0 for none
  env,      \* MUNIN_API_KEY in the .env file; 0 for none
  routes,   \* what the running process has mounted; "none" when it is down
  attempt,  \* the background attempt to connect
  half,     \* the request that has written .env but not the state file
  hotspot,  \* the access point is up
  link,     \* Wi-Fi is connected, as getStatus says it
  misses,   \* checks in a row without Wi-Fi; Threshold once it has stopped
  keys,     \* keys made so far
  shown,    \* the last key that was shown to anybody
  torn,     \* a crash cut the last regeneration short
  faults    \* faults so far

device == <<state, hash>>
radio == <<attempt, hotspot, link, misses>>
ghosts == <<keys, shown, torn>>
vars == <<device, env, routes, half, radio, ghosts, faults>>

\* "DAMAGED" and "MISSING" stand for a file that has lost its state, and for none.
States == {"UNCONFIGURED", "CONNECTING", "SETUP_FALLBACK", "RUNNING_UNCLAIMED",
           "CLAIMED", "FACTORY_RESET", "DAMAGED", "MISSING"}
Valid ==
  {<<"UNCONFIGURED", "CONNECTING">>, <<"SETUP_FALLBACK", "CONNECTING">>,
   <<"CONNECTING", "RUNNING_UNCLAIMED">>, <<"CONNECTING", "UNCONFIGURED">>,
   <<"CONNECTING", "SETUP_FALLBACK">>, <<"RUNNING_UNCLAIMED", "CLAIMED">>,
   <<"RUNNING_UNCLAIMED", "SETUP_FALLBACK">>, <<"CLAIMED", "SETUP_FALLBACK">>,
   <<"CLAIMED", "FACTORY_RESET">>, <<"FACTORY_RESET", "UNCONFIGURED">>}

\* transition throws unless the file says from and the step is a valid one.
CanMove(from, to) == state = from /\ <<from, to>> \in Valid

Up == routes # "none" /\ half = "none"

-----------------------------------------------------------------------------
(* Boot *)

RoutesOf(s) ==
  CASE s \in {"UNCONFIGURED", "SETUP_FALLBACK", "MISSING"} -> "wizard"
    [] s = "RUNNING_UNCLAIMED" -> "claim"
    [] s = "CLAIMED" -> "admin"

\* loadAndReconcile: what a step that was cut short has left, is undone or done.  A
\* damaged file begins anew; for one that is gone the device is set up as if it were
\* new, but no file is written, and every transition throws.
Reconciled ==
  CASE state = "CONNECTING" -> <<"UNCONFIGURED", hash>>
    [] state \in {"FACTORY_RESET", "DAMAGED"} -> <<"UNCONFIGURED", 0>>
    [] state = "MISSING" -> <<"MISSING", 0>>
    [] state = "CLAIMED" /\ env = 0 -> <<"RUNNING_UNCLAIMED", 0>>
    [] OTHER -> <<state, hash>>

Boot ==
  /\ routes = "none"
  /\ state' = Reconciled[1] /\ hash' = Reconciled[2]
  /\ routes' = RoutesOf(state')
  /\ hotspot' = (routes' = "wizard")
  /\ misses' = 0
  /\ UNCHANGED <<env, half, attempt, link, ghosts, faults>>

\* A crash, the power cut, or the restart that follows a transition.
Crash ==
  /\ routes # "none" /\ faults < MaxFaults
  /\ faults' = faults + 1
  /\ routes' = "none" /\ attempt' = "none" /\ half' = "none" /\ hotspot' = FALSE
  /\ torn' = (torn \/ half = "regenerate")
  /\ UNCHANGED <<device, env, link, misses, keys, shown>>

-----------------------------------------------------------------------------
(* Wizard *)

\* POST /setup/connect; the attempt itself is made in the background.
Connect ==
  /\ Up /\ routes = "wizard" /\ CanMove(state, "CONNECTING")
  /\ state' = "CONNECTING" /\ attempt' = "scheduled"
  /\ UNCHANGED <<hash, env, routes, half, hotspot, link, misses, ghosts, faults>>

\* There is one radio: the hotspot goes down for the attempt.
StopHotspot ==
  /\ Up /\ attempt = "scheduled"
  /\ attempt' = "connecting" /\ hotspot' = FALSE
  /\ UNCHANGED <<device, env, routes, half, link, misses, ghosts, faults>>

\* Mutant: a device that had an owner is back where it was.
ConnectedAs == IF hash # 0 THEN "CLAIMED" ELSE "RUNNING_UNCLAIMED"

\* Where a device that has found its network goes on, also if it had an owner.
Connected == "RUNNING_UNCLAIMED"

ConnectSucceeds ==
  /\ Up /\ attempt = "connecting" /\ state = "CONNECTING"
  /\ state' = Connected
  /\ attempt' = "none" /\ link' = TRUE
  /\ UNCHANGED <<hash, env, routes, half, hotspot, misses, ghosts, faults>>

\* The hotspot is brought up for another try; nobody notices if that fails.  The
\* network may have been found, without an address.
ConnectFails ==
  /\ Up /\ attempt = "connecting" /\ CanMove("CONNECTING", "UNCONFIGURED")
  /\ state' = "UNCONFIGURED"
  /\ attempt' = "none" /\ hotspot' \in BOOLEAN /\ link' \in BOOLEAN
  /\ UNCHANGED <<hash, env, routes, half, misses, ghosts, faults>>

-----------------------------------------------------------------------------
(* Claim and administration; the claim code is right, the attempts not too many *)

NewKey(request) ==
  /\ keys < MaxKeys
  /\ keys' = keys + 1 /\ env' = keys + 1
  /\ half' = request
  /\ UNCHANGED <<device, routes, radio, shown, torn, faults>>

\* POST /setup/claim looks only for CLAIMED before it writes .env.
Claim == Up /\ routes = "claim" /\ state # "CLAIMED" /\ NewKey("claim")

\* The transition; if it throws, the key in .env has been shown to nobody.
FinishClaim ==
  /\ half = "claim" /\ half' = "none"
  /\ IF CanMove("RUNNING_UNCLAIMED", "CLAIMED")
     THEN state' = "CLAIMED" /\ hash' = env /\ shown' = env /\ torn' = FALSE
     ELSE UNCHANGED <<device, shown, torn>>
  /\ UNCHANGED <<env, routes, radio, keys, faults>>

\* POST /admin/regenerate-key
Regenerate == Up /\ routes = "admin" /\ state = "CLAIMED" /\ NewKey("regenerate")

FinishRegenerate ==
  /\ half = "regenerate" /\ half' = "none"
  /\ hash' = env /\ shown' = env /\ torn' = FALSE
  /\ UNCHANGED <<state, env, routes, radio, keys, faults>>

\* POST /admin/reset; the key file stays.
Reset ==
  /\ Up /\ routes = "admin" /\ CanMove("CLAIMED", "FACTORY_RESET")
  /\ state' = "FACTORY_RESET"
  /\ UNCHANGED <<hash, env, routes, half, radio, ghosts, faults>>

-----------------------------------------------------------------------------
(* Watchdog and environment *)

\* check: any sight of the network starts the count anew.
Check ==
  /\ Up /\ routes \in {"claim", "admin"} /\ misses < Threshold
  /\ misses' = IF link THEN 0 ELSE misses + 1
  /\ state' = IF misses' = Threshold /\ CanMove(state, "SETUP_FALLBACK") THEN "SETUP_FALLBACK"
              ELSE state
  /\ UNCHANGED <<hash, env, routes, half, attempt, hotspot, link, ghosts, faults>>

LinkChanges ==
  /\ faults < MaxFaults /\ attempt = "none"
  /\ faults' = faults + 1 /\ link' = ~link
  /\ UNCHANGED <<device, env, routes, half, attempt, hotspot, misses, ghosts>>

EnvFileLost ==
  /\ routes = "none" /\ env # 0 /\ faults < MaxFaults
  /\ faults' = faults + 1 /\ env' = 0
  /\ UNCHANGED <<device, routes, half, radio, ghosts>>

StateFileLost ==
  /\ routes = "none" /\ faults < MaxFaults
  /\ faults' = faults + 1 /\ state' \in {"DAMAGED", "MISSING"} /\ hash' = 0
  /\ UNCHANGED <<env, routes, half, radio, ghosts>>

-----------------------------------------------------------------------------

Init ==
  /\ state = "UNCONFIGURED" /\ hash = 0 /\ env = 0
  /\ routes = "none" /\ half = "none"
  /\ attempt = "none" /\ hotspot = FALSE /\ link = FALSE /\ misses = 0
  /\ keys = 0 /\ shown = 0 /\ torn = FALSE /\ faults = 0

Next ==
  \/ Boot \/ Crash
  \/ Connect \/ StopHotspot \/ ConnectSucceeds \/ ConnectFails
  \/ Claim \/ FinishClaim \/ Regenerate \/ FinishRegenerate \/ Reset
  \/ Check \/ LinkChanges \/ EnvFileLost \/ StateFileLost

Spec == Init /\ [][Next]_vars

-----------------------------------------------------------------------------
(* Properties *)

\* Every variable has its type.
TypeOK ==
  /\ state \in States /\ hash \in 0 .. MaxKeys /\ env \in 0 .. MaxKeys
  /\ routes \in {"none", "wizard", "claim", "admin"}
  /\ half \in {"none", "claim", "regenerate"}
  /\ attempt \in {"none", "scheduled", "connecting"}
  /\ hotspot \in BOOLEAN /\ link \in BOOLEAN /\ misses \in 0 .. Threshold
  /\ keys \in 0 .. MaxKeys /\ shown \in 0 .. MaxKeys /\ torn \in BOOLEAN
  /\ faults \in 0 .. MaxFaults

\* The key that a claimed device accepts is the last one it has shown: whatever
\* crash, fallback, reset or second claim has left another in its file, no step
\* leads from there to a claimed device.  A regeneration that was cut short is the
\* exception; one that is under way has not answered yet.
KeyIsKnown ==
  state = "CLAIMED" => env \in {0, shown} \/ torn \/ half = "regenerate"

=============================================================================
