--------------------------- MODULE FilesAndLocales ---------------------------
(***************************************************************************)
(* Two parts of libconfig.c that share no state: "files", reads and writes *)
(* of files that include each other (ConfigFiles); "locales", the threads  *)
(* that call the library and change their locales (ThreadLocale).  A       *)
(* behaviour is one of them; the variables of the other rest.              *)
(***************************************************************************)
EXTENDS ConfigFiles

CONSTANTS Threads, Objects, Global, None   \* of ThreadLocale

VARIABLES half, global, content, installed, own, busy

locales == <<global, content, installed, own, busy>>

L == INSTANCE ThreadLocale

ASSUME LocalesAssumption == L!LocaleAssumption

HalfInit ==
  \/ /\ half = "files" /\ Init
     /\ global = None /\ content = None /\ installed = None /\ own = None
     /\ busy = None
  \/ /\ half = "locales" /\ L!Init
     /\ disk = None /\ opt = NoOptions /\ wanted = NoOptions
     /\ config = EmptyConfig /\ scan = NoScan
     /\ streams = 0 /\ op = "idle" /\ target = None
     /\ result = "none" /\ status = "running" /\ calls = 0

HalfNext ==
  /\ half' = half
  /\ \/ half = "files" /\ Next /\ UNCHANGED locales
     \/ half = "locales" /\ L!Next /\ UNCHANGED vars

HalfSpec == HalfInit /\ [][HalfNext]_<<half, vars, locales>>
------------------------------------------------------------------------------
(* While a configuration is read or written the calling thread converts    *)
(* numbers with a point, whatever other threads do to their locales and    *)
(* the process's, and the locale objects made for it are freed, no other.  *)
LocaleOfTheCall == half = "locales" => L!LocaleOfTheCall
==============================================================================
