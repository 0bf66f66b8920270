------------------------------ MODULE Commons -------------------------------
(***************************************************************************)
(* How a monitor starts: LoadConfig, ResetLogging, the AgentX client and   *)
(* the registration of its base oid.  log.Fatalf ends the process.  A      *)
(* logging section is a Go map, visited in any order: an appender has a    *)
(* level and a format, each "known", "unknown" or "absent", and a          *)
(* directory or none.                                                      *)
(***************************************************************************)

CONSTANT Configs   \* the logging sections of the files that can be parsed

VARIABLES
    process,  \* how far main() is
    logging,  \* config.Logging, until it has been used
    left,     \* the appenders a loop over it has still to visit
    nilBackend  \* ResetLogging made a backend of no kind

startVars == <<process, logging, left, nilBackend>>

Ended == {"exited", "panicked", "killed"}
Stages == {"config", "validate", "logging", "open", "run", "register",
           "serving"} \cup Ended

Unused == [a \in {} |-> a]

CommonsInit ==
    /\ process = "config"
    /\ logging = Unused /\ left = {} /\ nilBackend = FALSE

(* log.Fatalf, or the return of main.                                      *)
Exit == process' = "exited" /\ UNCHANGED <<logging, left, nilBackend>>

(* The file cannot be read or parsed.                                      *)
LoadConfigFails == process = "config" /\ Exit

LoadConfig ==
    /\ process = "config" /\ process' = "validate"
    /\ logging' \in Configs
    /\ left' = DOMAIN logging'
    /\ UNCHANGED nilBackend

ValidAppender_Any(a) ==
    /\ a = "file" => logging[a].dir
    /\ logging[a].level = "known"
    /\ logging[a].format \in {"known", "absent"}
ValidAppender(a) ==
    /\ a \in {"stdout", "file"}
    /\ a = "file" => logging[a].dir
    /\ logging[a].level = "known"
    /\ logging[a].format \in {"known", "absent"}

ValidateLogging ==
    /\ process = "validate"
    /\ \/ \E a \in left :
            \/ ValidAppender(a) /\ left' = left \ {a}
                    /\ UNCHANGED <<process, logging, nilBackend>>
            \/ ~ValidAppender(a) /\ Exit
       \/ /\ left = {} /\ left' = DOMAIN logging
          /\ process' = "logging"
          /\ UNCHANGED <<logging, nilBackend>>

(* A file that cannot be opened is skipped; another name gets no backend.  *)
ResetLogging ==
    /\ process = "logging"
    /\ \E a \in left :
        /\ left' = left \ {a}
        /\ nilBackend' = (nilBackend \/ a \notin {"stdout", "file"})
    /\ UNCHANGED <<process, logging>>

(* The first line that is logged calls every backend.                      *)
SetBackend ==
    /\ process = "logging" /\ left = {}
    /\ process' = IF nilBackend THEN "panicked" ELSE "open"
    /\ logging' = Unused
    /\ UNCHANGED <<left, nilBackend>>

(* Client.Open, Client.Session and Session.Register, or log.Fatalf.        *)
StartSubAgent ==
    /\ process = "open"
    /\ \/ process' = "run" /\ UNCHANGED <<logging, left, nilBackend>>
       \/ Exit

RegisterSubAgent ==
    /\ process = "register"
    /\ \/ process' = "serving" /\ UNCHANGED <<logging, left, nilBackend>>
       \/ Exit

Startup ==
    \/ LoadConfigFails \/ LoadConfig \/ ValidateLogging \/ ResetLogging
    \/ SetBackend \/ StartSubAgent \/ RegisterSubAgent

(* SIGINT or SIGTERM.                                                      *)
Signal == process = "serving" /\ Exit
=============================================================================
