---------------------------- MODULE Provisioning ----------------------------
(***************************************************************************)
(* Pairing with the Manager and the local documents it leaves              *)
(* (src/provisioning.rs, src/cli.rs, src/storage.rs).  The documents are   *)
(* identity.json, bootstrap.json and local-settings.json.  A command that  *)
(* writes holds the maintenance lock, and so does the service.             *)
(*                                                                         *)
(* The Manager is external: it knows one valid code per device; a new code *)
(* revokes the credential of the device; enrolling consumes the code.  An  *)
(* enrollment request may land after the client stopped waiting for it.    *)
(* A code is a random secret: nobody enters one before it is issued, and a *)
(* mistyped code is refused as one that is no longer valid is.             *)
(***************************************************************************)
EXTENDS Naturals, SequencesExt

CONSTANTS
    None, Unreadable,   \* no document; a document that does not decode
    Codes, Devices,
    CodeDevice,         \* CodeDevice[c]: the device the code is for
    Endpoints, Logins,  \* where the local Sunshine is, and how to log in
    EditedEndpoints,    \* the endpoints an operator may edit in
    Inputs,     \* what an operator may enter: a code, an endpoint and a login
    \* Bounds
    MaxCredentials,     \* credentials generated
    MaxPosts,           \* enrollment requests on the way
    MaxFaults           \* crashes, timeouts, failed writes and lost requests

ASSUME ProvisioningAssumption ==
    /\ CodeDevice \in [Codes -> Devices]
    /\ EditedEndpoints \subseteq Endpoints
    /\ Inputs \subseteq [code : Codes, endpoint : Endpoints, login : Logins]
    /\ {MaxCredentials, MaxPosts, MaxFaults} \subseteq Nat
    /\ None # Unreadable

VARIABLES
    identity, bootstrap, settings,  \* the documents
    command,    \* the pairing command that holds the lock
    running,    \* the identity the service runs with, or None
    editor,     \* what an operator is editing, or None
    posts,      \* enrollment requests on the way
    answer,     \* the Manager's answer to the request waited for
    issued, valid,  \* codes issued, and codes the Manager accepts
    registered, \* registered[d]: what the Manager enrolled for the device
    generated, faults,  \* counters, for the bounds
    rotated,    \* history: credentials replaced on purpose
    accepted,   \* history: credentials the Manager enrolled
    login       \* history: the login last given on purpose

documents == <<identity, bootstrap, settings>>
managerVars == <<issued, valid, registered, accepted>>
history == <<rotated, login>>
vars == <<documents, command, running, editor, posts, answer, managerVars,
          generated, faults, history>>

Config == [code : Codes \union {None}, endpoint : Endpoints, login : Logins \union {None}]

Registration == [installation : Nat, credential : Nat]

Identity ==
    [installation : Nat, device : Devices, credential : Nat, enrolled : BOOLEAN,
     config : Config]

Request == [device : Devices, code : Codes \union {None}, as : Registration, awaited : BOOLEAN]

(* Neither a missing nor an undecodable document is one that decodes.      *)
ASSUME NoDocumentAssumption ==
    \A absent \in {None, Unreadable} :
        /\ absent \notin Codes \union Devices \union Endpoints \union Logins
        /\ absent \notin Config \union Identity
        /\ absent \notin Registration

Absent(document) == document = None
Decodes(document) == document \notin {None, Unreadable}

Steps == {"idle", "rebootstrap", "validate", "preflight", "resolve", "probe",
          "enroll", "persist", "clear"}

Idle == [step |-> "idle", input |-> None]
At(step) == command.step = step
GoTo(step) == command' = [command EXCEPT !.step = step]
Enter(step, input) == command' = [step |-> step, input |-> input]
End == command' = Idle

(* Something outside the program's control goes wrong. *)
Fault == faults < MaxFaults /\ faults' = faults + 1

(* Mutated form: the service's lock does not keep commands out. *)
NoCommand == command = Idle

(* The maintenance lock can be taken. *)
Unlocked == command = Idle /\ running = None

(* A write that fails may have installed the document. *)
PutIdentity(document, next) ==
    /\ UNCHANGED <<bootstrap, settings>>
    /\ \/ identity' = document /\ next /\ UNCHANGED faults
       \/ identity' \in {identity, document} /\ End /\ Fault

PutBootstrap(document, next) ==
    /\ UNCHANGED <<identity, settings>>
    /\ \/ bootstrap' = document /\ next /\ UNCHANGED faults
       \/ bootstrap' \in {bootstrap, document} /\ End /\ Fault

PutSettings(endpoint) ==
    /\ UNCHANGED <<identity, bootstrap>>
    /\ \/ settings' = endpoint /\ UNCHANGED faults
       \/ settings' \in {settings, endpoint} /\ Fault
    /\ UNCHANGED command

(* A credential can be generated; once the bound is reached it cannot.     *)
Entropy == generated < MaxCredentials

Elsewhere == UNCHANGED <<running, editor, posts, answer, managerVars>>

Given(document) == login' = IF Decodes(document') THEN document'.login ELSE login

(***************************************************************************)
(* execute_pair                                                            *)
(***************************************************************************)

(* Mutated form: a new attempt takes a new credential. *)
ResubmittedAnew(input) ==
    [identity EXCEPT !.config = input, !.credential = generated + 1]

(* A pending pairing with new input keeps its credential. *)
Resubmitted(input) == [identity EXCEPT !.config = input]

(* "pair" with protected input. *)
Pair(input) ==
    /\ Unlocked
    /\ \/ /\ Decodes(identity) /\ ~identity.enrolled
          /\ PutIdentity(Resubmitted(input), Enter("preflight", None))
          /\ login' = identity'.config.login
       \/ /\ Absent(identity)
          /\ PutBootstrap(input, Enter("preflight", None))
          /\ Given(bootstrap)
    /\ UNCHANGED <<rotated, generated>>
    /\ Elsewhere

(* "pair resume", or "pair" over a bootstrap that is already there. *)
Resume ==
    /\ Unlocked
    /\ identity # Unreadable
    /\ Decodes(identity) \/ ~Absent(bootstrap)
    /\ Enter("preflight", None)
    /\ UNCHANGED <<documents, generated, faults, history>>
    /\ Elsewhere

(* "pair replace" of an enrolled identity, or of one that does not decode. *)
Replace(input) ==
    /\ Unlocked
    /\ \/ /\ Decodes(identity) /\ identity.enrolled
          /\ Enter("validate", input)
          /\ UNCHANGED identity
       \/ /\ identity = Unreadable
          /\ identity' = None
          /\ Enter("rebootstrap", input)
    /\ UNCHANGED <<bootstrap, settings, generated, faults, history>>
    /\ Elsewhere

Rebootstrap ==
    /\ At("rebootstrap")
    /\ PutBootstrap(command.input, Enter("preflight", None))
    /\ Given(bootstrap)
    /\ UNCHANGED <<rotated, generated>>
    /\ Elsewhere

(* Mutated form: the replaced identity still counts as enrolled. *)
ReplacedEnrolled(input) ==
    [identity EXCEPT !.config = input, !.credential = generated + 1]

Replaced(input) ==
    [identity EXCEPT !.config = input, !.enrolled = FALSE, !.credential = generated + 1]

(* validate_replacement asks the Manager which device the code is for. *)
Validate ==
    /\ At("validate")
    /\ LET input == command.input IN
       IF input.code \in valid /\ CodeDevice[input.code] = identity.device /\ Entropy
       THEN /\ generated' = generated + 1
            /\ PutIdentity(Replaced(input), Enter("preflight", None))
            /\ login' = identity'.config.login
            /\ rotated' = IF identity' = identity THEN rotated
                          ELSE rotated \union {identity.credential}
       ELSE End /\ UNCHANGED <<documents, generated, faults, history>>
    /\ Elsewhere

(***************************************************************************)
(* pair and provision                                                      *)
(***************************************************************************)

(* Sunshine can be read with the configuration at hand. *)
Preflight ==
    /\ At("preflight")
    /\ \/ /\ Decodes(identity)
          /\ IF identity.enrolled THEN End ELSE GoTo("probe")
       \/ /\ Absent(identity) /\ Decodes(bootstrap)
          /\ GoTo("resolve")
       \/ /\ Absent(identity) /\ ~Decodes(bootstrap)
          /\ End
    /\ UNCHANGED <<documents, generated, faults, history>>
    /\ Elsewhere

(* A new identity, for the device of the code. *)
Fresh ==
    [installation |-> generated + 1, device |-> CodeDevice[bootstrap.code],
     credential |-> generated + 1, enrolled |-> FALSE, config |-> bootstrap]

(* The Manager names the device of the code; the identity is saved before  *)
(* anything is enrolled.                                                   *)
Resolve ==
    /\ At("resolve")
    /\ IF bootstrap.code \in valid /\ Entropy
       THEN /\ generated' = generated + 1
            /\ PutIdentity(Fresh, GoTo("probe"))
       ELSE End /\ UNCHANGED <<documents, generated, faults>>
    /\ UNCHANGED history
    /\ Elsewhere

Mine ==
    [installation |-> identity.installation, credential |-> identity.credential]

(* Mutated form: every attempt enrolls, without asking first. *)
NeverRecognised == FALSE

(* The Manager answers the credential with the binding it enrolled. *)
Recognised == registered[identity.device] = Mine

Probe ==
    /\ At("probe")
    /\ IF Recognised
       THEN GoTo("persist") /\ UNCHANGED posts
       ELSE /\ Len(posts) < MaxPosts
            /\ posts' = Append(posts, [device |-> identity.device, code |-> identity.config.code,
                                       as |-> Mine, awaited |-> TRUE])
            /\ GoTo("enroll")
    /\ UNCHANGED <<documents, running, editor, answer, managerVars, generated, faults,
                   history>>

(* The answer to the enrollment. *)
Enroll ==
    /\ At("enroll")
    /\ answer # "none"
    /\ IF answer = "accepted" THEN GoTo("persist") ELSE End
    /\ answer' = "none"
    /\ UNCHANGED <<documents, running, editor, posts, managerVars, generated, faults,
                   history>>

Enrolled == [identity EXCEPT !.enrolled = TRUE, !.config.code = None]

Persist ==
    /\ At("persist")
    /\ PutIdentity(Enrolled, GoTo("clear"))
    /\ UNCHANGED <<generated, history>>
    /\ Elsewhere

(* An empty object takes the place of the bootstrap. *)
Clear ==
    /\ At("clear")
    /\ PutBootstrap(Unreadable, End)
    /\ UNCHANGED <<generated, history>>
    /\ Elsewhere

(* A timeout, an answer that says nothing, an interrupt, or a crash. *)
Interrupt ==
    /\ command # Idle
    /\ Fault
    /\ End
    /\ posts' = [i \in DOMAIN posts |-> [posts[i] EXCEPT !.awaited = FALSE]]
    /\ answer' = "none"
    /\ UNCHANGED <<documents, running, editor, managerVars, generated, history>>

(***************************************************************************)
(* Other commands                                                          *)
(***************************************************************************)

(* The configuration the commands work on. *)
Current ==
    IF Decodes(identity) THEN identity.config
    ELSE IF identity = Unreadable THEN None
    ELSE IF Decodes(bootstrap) THEN bootstrap
    ELSE IF bootstrap = Unreadable \/ Absent(settings) THEN None
    ELSE [code |-> None, endpoint |-> settings, login |-> None]

(* Where the configuration came from is where it is saved. *)
PutCurrent(config) ==
    IF Decodes(identity)
    THEN PutIdentity([identity EXCEPT !.config = config], UNCHANGED command)
    ELSE IF config.code = None THEN PutSettings(config.endpoint)
    ELSE PutBootstrap(config, UNCHANGED command)

(* "config edit" reads without the lock. *)
Edit(endpoint) ==
    /\ editor = None
    /\ Current # None
    /\ editor' = [config |-> Current, endpoint |-> endpoint]
    /\ UNCHANGED <<documents, command, running, posts, answer, managerVars, generated,
                   faults, history>>

(* Mutated form: what was read first is saved. *)
SavedAsRead == [editor.config EXCEPT !.endpoint = editor.endpoint]

(* Mutated form: the settings take the place of the configuration. *)
SavedSettings == [code |-> Current.code, endpoint |-> editor.endpoint]

(* What is saved was read again under the lock. *)
Saved == [Current EXCEPT !.endpoint = editor.endpoint]

SaveEdit ==
    /\ editor # None
    /\ Unlocked
    /\ editor' = None
    /\ IF Current # None /\ Current.endpoint = editor.config.endpoint
       THEN PutCurrent(Saved)
       ELSE UNCHANGED <<documents, command, faults>>
    /\ UNCHANGED <<running, posts, answer, managerVars, generated, history>>

(* "config apply" with the revision the operator expects. *)
Apply(endpoint, expected) ==
    /\ Unlocked
    /\ Current # None /\ Current.endpoint = expected
    /\ PutCurrent([Current EXCEPT !.endpoint = endpoint])
    /\ UNCHANGED <<generated, history>>
    /\ Elsewhere

UpdateCredentials(new) ==
    /\ Unlocked
    /\ Decodes(identity)
    /\ PutIdentity([identity EXCEPT !.config.login = new], UNCHANGED command)
    /\ login' = identity'.config.login
    /\ UNCHANGED <<rotated, generated>>
    /\ Elsewhere

ConfigInit(endpoint) ==
    /\ Unlocked
    /\ Absent(identity) /\ Absent(bootstrap) /\ Absent(settings)
    /\ PutSettings(endpoint)
    /\ UNCHANGED <<generated, history>>
    /\ Elsewhere

(* "init": import_bootstrap refuses to change what is being paired. *)
Import(config) ==
    /\ Unlocked
    /\ Absent(identity)
    /\ PutBootstrap(config, UNCHANGED command)
    /\ Given(bootstrap)
    /\ UNCHANGED <<rotated, generated>>
    /\ Elsewhere

(* The service runs with the identity it read at its start. *)
RunService ==
    /\ Unlocked
    /\ Decodes(identity) /\ identity.enrolled
    /\ running' = identity
    /\ UNCHANGED <<documents, command, editor, posts, answer, managerVars, generated,
                   faults, history>>

StopService ==
    /\ running # None
    /\ running' = None
    /\ UNCHANGED <<documents, command, editor, posts, answer, managerVars, generated,
                   faults, history>>

(***************************************************************************)
(* The Manager (external)                                                  *)
(***************************************************************************)

Local == UNCHANGED <<documents, command, running, editor, generated, history>>

(* An administrator makes the first or the next code of a device. *)
IssueCode(code) ==
    /\ code \notin issued
    /\ issued' = issued \union {code}
    /\ valid' = {c \in valid : CodeDevice[c] # CodeDevice[code]} \union {code}
    /\ registered' = [registered EXCEPT ![CodeDevice[code]] = None]
    /\ UNCHANGED <<posts, answer, faults, accepted>>
    /\ Local

(* A request arrives, late perhaps. *)
Land(i) ==
    LET post == posts[i]
        accepts == post.code \in valid /\ CodeDevice[post.code] = post.device IN
    /\ posts' = RemoveAt(posts, i)
    /\ valid' = IF accepts THEN valid \ {post.code} ELSE valid
    /\ registered' = IF accepts THEN [registered EXCEPT ![post.device] = post.as]
                     ELSE registered
    /\ accepted' = IF accepts THEN accepted \union {post.as.credential} ELSE accepted
    /\ answer' = IF ~post.awaited THEN answer
                 ELSE IF accepts THEN "accepted" ELSE "rejected"
    /\ UNCHANGED <<issued, faults>>
    /\ Local

(***************************************************************************)

Init ==
    /\ identity \in {None, Unreadable}
    /\ bootstrap \in {None, Unreadable}
    /\ settings = None
    /\ command = Idle /\ running = None /\ editor = None
    /\ posts = <<>> /\ answer = "none"
    /\ issued = {} /\ valid = {}
    /\ registered = [d \in Devices |-> None]
    /\ generated = 0 /\ faults = 0
    /\ rotated = {} /\ accepted = {} /\ login = None

Next ==
    \/ \E input \in Inputs :
          /\ input.code \in issued
          /\ Pair(input) \/ Replace(input) \/ Import(input)
    \/ Resume
    \/ Rebootstrap
    \/ Validate
    \/ Preflight
    \/ Resolve
    \/ Probe
    \/ Enroll
    \/ Persist
    \/ Clear
    \/ Interrupt
    \/ \E endpoint \in EditedEndpoints :
          \/ Edit(endpoint) \/ ConfigInit(endpoint)
          \/ \E expected \in Endpoints : Apply(endpoint, expected)
    \/ SaveEdit
    \/ \E new \in Logins : UpdateCredentials(new)
    \/ RunService
    \/ StopService
    \/ \E code \in Codes : IssueCode(code)
    \/ \E i \in DOMAIN posts : Land(i)

Spec == Init /\ [][Next]_vars

(* A command goes on, a request arrives, and whoever administers the       *)
(* client resumes a pairing that is not over.                              *)
FairSpec ==
    /\ Spec
    /\ WF_vars(Rebootstrap \/ Validate \/ Preflight \/ Resolve \/ Probe \/ Enroll
               \/ Persist \/ Clear)
    /\ WF_vars(\E i \in DOMAIN posts : Land(i))
    /\ WF_vars(Resume)

(***************************************************************************)
(* Properties                                                              *)
(***************************************************************************)

ProvisioningTypeOK ==
    /\ identity \in Identity \union {None, Unreadable}
    /\ bootstrap \in Config \union {None, Unreadable}
    /\ settings \in Endpoints \union {None}
    /\ command \in [step : Steps, input : Inputs \union {None}]
    /\ running \in Identity \union {None}
    /\ editor \in [config : Config, endpoint : Endpoints] \union {None}
    /\ posts \in Seq(Request)
    /\ answer \in {"none", "accepted", "rejected"}
    /\ valid \subseteq issued /\ issued \subseteq Codes
    /\ registered \in [Devices -> Registration \union {None}]
    /\ generated \in Nat /\ faults \in Nat
    /\ rotated \subseteq Nat /\ accepted \subseteq Nat
    /\ login \in Logins \union {None}

(* A credential the Manager accepted is never lost: whatever was lost,     *)
(* interrupted or retried, the identity document holds it, unless an       *)
(* administrator replaced it on purpose.                                   *)
AcceptedCredentialIsKept ==
    \A d \in Devices : registered[d] # None =>
        \/ Decodes(identity) /\ identity.device = d /\ registered[d] = Mine
        \/ registered[d].credential \in rotated

(* An identity that counts as enrolled was accepted by the Manager, and    *)
(* nothing but a newer code displaces it there: no late request of an      *)
(* earlier attempt, no replacement that was interrupted.                   *)
EnrolledIsAccepted ==
    Decodes(identity) /\ identity.enrolled =>
        /\ identity.credential \in accepted
        /\ registered[identity.device] \in {Mine, None}

(* The identity holds the login last given on purpose, whatever edits of   *)
(* other settings were begun before.                                       *)
LoginIsCurrent ==
    Decodes(identity) => identity.config.login = login

(* While the service runs, nothing changes the identity it runs with.      *)
RunsWithItsIdentity ==
    running # None => running = identity

Accepted == Decodes(identity) /\ registered[identity.device] = Mine

(* A pairing the Manager accepted is completed locally by resuming it,     *)
(* although the answer was lost and the code cannot be used again.         *)
PairingCompletes ==
    Accepted ~> (Decodes(identity) /\ identity.enrolled) \/ ~Accepted
=============================================================================
