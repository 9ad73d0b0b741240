-------------------------------- MODULE Daemon --------------------------------
(***************************************************************************)
(* Three parts of the program that share no state: "cascade", the sidecars *)
(* of sidecars (Sidecars); "startup", main around the scan (Startup);      *)
(* "ini", the reader of ini files (IniFile).  A behaviour is one of them;  *)
(* pc is its place, and the variables of the others rest.                  *)
(***************************************************************************)
EXTENDS Sidecars, Sequences

CONSTANTS
  Configs, Missing, Junk, MaxFd, MaxSweeps,        \* of Startup
  Lines, Sections, Keys, NoKey, Nothing, MaxLines  \* of IniFile

VARIABLES
  part,
  config, cwd, session, parent, fds, i, args, sweeps, written,
  text, failAt, section, param, at, szTemp, result

cascade == <<content, ver, dirp, file, buffers, hindered, handled, mishaps>>
startup == <<config, cwd, session, parent, fds, i, args, sweeps, written>>
ini == <<text, failAt, section, param, at, szTemp, result>>

M == INSTANCE Startup
Reader == INSTANCE IniFile

ASSUME PartsAssumption == M!ConfigsAssumption /\ Reader!LinesAssumption

CascadeRests == /\ content = [k \in Levels |-> Absent] /\ ver = 0
                /\ returned = {} /\ first = {} /\ touched = {} /\ hindered = FALSE
                /\ file = None /\ old = None /\ new = None /\ held = {}
                /\ handled = [k \in Levels |-> 0] /\ mishaps = [k \in Levels |-> 0]

StartupRests == /\ config = Nothing /\ cwd = Nothing /\ session = Nothing /\ parent = Nothing
                /\ fds = Nothing /\ i = 0 /\ args = Nothing
                /\ sweeps = 0 /\ written = {}

IniRests == /\ text = <<>> /\ failAt = 0 /\ section = Nothing /\ param = Nothing
            /\ at = 0 /\ szTemp = Nothing /\ result = Nothing

PartInit ==
  \/ part = "cascade" /\ Init /\ StartupRests /\ IniRests
  \/ part = "startup" /\ M!Init /\ CascadeRests /\ IniRests
  \/ part = "ini" /\ Reader!Init /\ CascadeRests /\ StartupRests

PartNext ==
  /\ part' = part
  /\ \/ part = "cascade" /\ Next /\ UNCHANGED <<startup, ini>>
     \/ part = "startup" /\ M!Next /\ UNCHANGED <<cascade, ini>>
     \/ part = "ini" /\ Reader!Next /\ UNCHANGED <<cascade, startup>>

PartSpec == PartInit /\ [][PartNext]_<<part, pc, cascade, startup, ini>>
-----------------------------------------------------------------------------
\* What a daemon prints never lands in a directory stream, a sidecar or the log's
\* socket, though descriptors 0 to 2 are whatever it opens next (filewatch.c:139-176).
OutputStaysOut == part = "startup" => M!OutputStaysOut

\* A folder that lacks a string is scanned with the one of the nearest folder looked
\* up before it (filewatch.c:157-169).
StaleIsPredecessor == part = "startup" => M!StaleIsPredecessor

\* ReadIniArg returns a value only from the first line below the section's that sets
\* the parameter (inifile.c:44-77).
ResultFromFile == part = "ini" => Reader!ResultFromFile
=============================================================================
