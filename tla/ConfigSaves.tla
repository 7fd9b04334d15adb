------------------------------ MODULE ConfigSaves ------------------------------
(***************************************************************************)
(* Configuration files under concurrent requests: ConfigService            *)
(* (src/config_service.py) saves and clones them on the threads of the     *)
(* API, PipelineRunManager.create_run validates one, and the process of    *)
(* the run reads it again later.  Nothing locks the files: a save is a     *)
(* temporary file that replaces the old one.                               *)
(*                                                                         *)
(* A request is checked in one step, fills a temporary file in the next    *)
(* two and replaces the target in another; writing may fail, and the       *)
(* server may be killed between any two steps.  A content is valid or not  *)
(* as it stands, and otherwise opaque; the rules stand in ConfigRules.     *)
(* The API never looks at it as it stands: normalize_config_for_ui takes   *)
(* up to two pairs of quotes off sources and model paths, once when a      *)
(* content comes in and again when it is validated.  The run does not.     *)
(***************************************************************************)
EXTENDS Naturals

CONSTANTS
    ConfigNames,   \* file names
    GoodConfigs,   \* contents that are valid as they stand, for a run too
    BadConfigs,    \* contents that are not
    Cleaning,      \* what normalize_config_for_ui makes of each content
    Requests       \* requests of the API

ASSUME ConfigAssumption ==
    /\ GoodConfigs \cap BadConfigs = {}
    /\ Cleaning \in [GoodConfigs \cup BadConfigs -> GoodConfigs \cup BadConfigs]
    /\ "absent" \notin GoodConfigs \cup BadConfigs
    /\ "torn" \notin GoodConfigs \cup BadConfigs

VARIABLES
    files,      \* what each name holds
    request,    \* what each request asks for and how far it is
    temps,      \* what the temporary file of each request holds
    rivals,     \* the requests that were under way during a request
    overwrote,  \* the request whose file a clone replaced
    author,     \* the request that wrote each file last
    crashed     \* whether the server was killed

configVars == <<files, request, temps, rivals, overwrote, author, crashed>>

Contents == GoodConfigs \cup BadConfigs
NoRequest == [op |-> "none", name |-> "none", payload |-> "none", at |-> "idle"]
Refusal == [NoRequest EXCEPT !.at = "refused"]
Underway == {"checked", "filling", "filled", "starting"}
Request == [op : {"save", "clone", "start"}, name : ConfigNames,
            payload : Contents \cup {"torn"},
            at : Underway \cup {"done", "failed", "killed"}]

ConfigTypeOK ==
    /\ files \in [ConfigNames -> Contents \cup {"absent", "torn"}]
    /\ request \in [Requests -> {NoRequest, Refusal} \cup Request]
    /\ temps \in [Requests -> Contents \cup {"absent", "torn"}]
    /\ rivals \in [Requests -> SUBSET Requests]
    /\ overwrote \in [Requests -> Requests \cup {"nobody", "operator"}]
    /\ author \in [ConfigNames -> Requests \cup {"operator"}]
    /\ crashed \in BOOLEAN

(* The files an operator wrote, valid or not.                              *)
ConfigInit ==
    /\ files \in [ConfigNames -> Contents \cup {"absent"}]
    /\ request = [r \in Requests |-> NoRequest]
    /\ temps = [r \in Requests |-> "absent"] /\ crashed = FALSE
    /\ rivals = [r \in Requests |-> {}]
    /\ overwrote = [r \in Requests |-> "nobody"]
    /\ author = [n \in ConfigNames |-> "operator"]

Others(r) == {s \in Requests \ {r} : request[s].at \in Underway}
Exists(n) == files[n] # "absent"

(* normalize_config_for_ui                                                 *)
Cleaned(c) == Cleaning[c]

(* _validate_common_fields and the _validate_config of the run             *)
Valid(c) == c \in GoodConfigs

(* validate_config, which normalizes what its callers have normalized.     *)
Accepts(c) == Valid(Cleaned(c))

(* A request comes in and is accepted, or refused, which changes nothing.  *)
Accept(r, op, n, payload, ok, at) ==
    /\ request[r] = NoRequest
    /\ request' = [request EXCEPT ![r] =
                      IF ok THEN [op |-> op, name |-> n, payload |-> payload, at |-> at]
                      ELSE Refusal]
    /\ rivals' = [s \in Requests |-> IF ~ ok THEN rivals[s]
                                     ELSE IF s = r THEN Others(r)
                                     ELSE IF s \in Others(r) THEN rivals[s] \cup {r}
                                     ELSE rivals[s]]
    /\ UNCHANGED <<files, temps, overwrote, author, crashed>>

(* save_config: the file must exist and the payload be accepted.           *)
CheckSave(r) ==
    \E n \in ConfigNames, c \in Contents :
        LET payload == Cleaned(c)
        IN Accept(r, "save", n, payload, Exists(n) /\ Accepts(payload), "checked")

(* Mutant: an existing target is taken.                                    *)
FaultyCheckClone(r) ==
    \E n, source \in ConfigNames : \E c \in Contents \cup {files[source]} :
        LET payload == Cleaned(c)
        IN /\ Exists(source)
           /\ Accept(r, "clone", n, payload, Accepts(payload), "checked")

(* clone_config: the target must not exist; without a payload the source   *)
(* is read.                                                                *)
CheckClone(r) ==
    \E n, source \in ConfigNames : \E c \in Contents \cup {files[source]} :
        LET payload == Cleaned(c)
        IN /\ Exists(source)
           /\ Accept(r, "clone", n, payload, ~ Exists(n) /\ Accepts(payload), "checked")

(* create_run: the file is loaded, normalized and must be accepted; only   *)
(* its name is passed on to the process.                                   *)
CheckStart(r) ==
    \E n \in ConfigNames :
        /\ Exists(n)
        /\ Accept(r, "start", n, files[n], Accepts(Cleaned(files[n])), "starting")

(* _atomic_write_yaml: the temporary file is created, ...                  *)
OpenTemp(r) ==
    /\ request[r].at = "checked"
    /\ request' = [request EXCEPT ![r].at = "filling"]
    /\ temps' = [temps EXCEPT ![r] = "torn"]
    /\ UNCHANGED <<files, rivals, overwrote, author, crashed>>

(* ... written and synced, ...                                             *)
FillTemp(r) ==
    /\ request[r].at = "filling"
    /\ request' = [request EXCEPT ![r].at = "filled"]
    /\ temps' = [temps EXCEPT ![r] = request[r].payload]
    /\ UNCHANGED <<files, rivals, overwrote, author, crashed>>

(* ... and renamed over the target.                                        *)
ReplaceFile(r) ==
    /\ request[r].at = "filled"
    /\ LET n == request[r].name IN
       /\ files' = [files EXCEPT ![n] = temps[r]]
       /\ overwrote' = [overwrote EXCEPT ![r] = IF Exists(n) THEN author[n] ELSE "nobody"]
       /\ author' = [author EXCEPT ![n] = r]
    /\ temps' = [temps EXCEPT ![r] = "absent"]
    /\ request' = [request EXCEPT ![r].at = "done"]
    /\ UNCHANGED <<rivals, crashed>>

(* Any of the three raises: the temporary file is removed.                 *)
WriteFails(r) ==
    /\ request[r].at \in {"checked", "filling", "filled"}
    /\ request' = [request EXCEPT ![r].at = "failed"]
    /\ temps' = [temps EXCEPT ![r] = "absent"]
    /\ UNCHANGED <<files, rivals, overwrote, author, crashed>>

(* _load_raw_config in the process of the run, which validates the content *)
(* as it stands.                                                           *)
RunReads(r) ==
    /\ request[r].at = "starting"
    /\ request' = [request EXCEPT ![r] = [op |-> @.op, name |-> @.name,
                                          payload |-> files[@.name], at |-> "done"]]
    /\ UNCHANGED <<files, temps, rivals, overwrote, author, crashed>>

(* The server is killed, and with it every request; a run goes on.         *)
KillServer ==
    /\ ~ crashed /\ crashed' = TRUE
    /\ request' = [r \in Requests |->
                      IF request[r].at \in {"checked", "filling", "filled"}
                      THEN [request[r] EXCEPT !.at = "killed"] ELSE request[r]]
    /\ UNCHANGED <<files, temps, rivals, overwrote, author>>

ConfigNext ==
    \/ \E r \in Requests :
         \/ CheckSave(r) \/ CheckClone(r) \/ CheckStart(r)
         \/ OpenTemp(r) \/ FillTemp(r) \/ ReplaceFile(r) \/ WriteFails(r)
         \/ RunReads(r)
    \/ KillServer

ConfigSpec == ConfigInit /\ [][ConfigNext]_configVars

-----------------------------------------------------------------------------
(* Properties                                                              *)

(* What a request writes is accepted, and what a run reads is so or was    *)
(* when create_run had normalized it once more.                            *)
Admitted(c) == c \in Contents /\ (Accepts(c) \/ Accepts(Cleaned(c)))

(* A run that was accepted reads a whole configuration that the API would  *)
(* accept, even if the file is saved between create_run's validation and   *)
(* the process's own reading of it; if normalization finds nothing to take *)
(* off, the run accepts it as well.  Every file a request has written is   *)
(* whole and accepted, and valid as it stands unless a payload had more    *)
(* quotes than one normalization takes off.                                *)
RunsReadValidConfigs ==
    /\ \A r \in Requests : request[r].op = "start" /\ request[r].at = "done" =>
          LET c == request[r].payload
          IN Admitted(c) /\ (Cleaned(c) = c => Valid(c))
    /\ \A n \in ConfigNames : files[n] # "torn"
    /\ \A n \in ConfigNames : author[n] # "operator" =>
          Accepts(files[n]) /\ (Cleaned(files[n]) = files[n] => Valid(files[n]))

(* clone_config refuses a name that is taken: it replaces a file only when *)
(* another request wrote that file while the clone was under way, between  *)
(* the test and the rename that no lock holds together.                    *)
ClonesReplaceOnlyRivals ==
    \A r \in Requests :
        request[r].op = "clone" /\ overwrote[r] # "nobody" => overwrote[r] \in rivals[r]

(* Only a killed server leaves temporary files behind.                     *)
NoTempsLeft ==
    (\A r \in Requests : request[r].at \notin {"filling", "filled"}) /\ ~ crashed
        => \A r \in Requests : temps[r] = "absent"
=============================================================================
