------------------------- MODULE ProvisioningProofs -------------------------
(***************************************************************************)
(* Proofs about Provisioning: its invariants hold for every set of codes,  *)
(* devices and inputs and every value of the bounds.                       *)
(***************************************************************************)
EXTENDS Provisioning, SequenceTheorems, TLAPS

(***************************************************************************)
(* The inductive invariant                                                 *)
(***************************************************************************)

(* What a step of a command has found of the documents still holds: the    *)
(* lock keeps everybody else from them.                                    *)
StepsAreReady ==
    /\ At("rebootstrap") => Absent(identity)
    /\ At("resolve") => Absent(identity) /\ Decodes(bootstrap)
    /\ At("validate") => Decodes(identity) /\ identity.enrolled
    /\ At("probe") => Decodes(identity) /\ ~identity.enrolled
    /\ At("enroll") \/ At("persist") => Decodes(identity)
    /\ At("rebootstrap") \/ At("validate") => command.input \in Inputs

(* The service and a command exclude each other.                           *)
LockIsHeld ==
    running # None => command = Idle /\ running = identity

(* The login is in the identity or, before there is one, in the bootstrap. *)
LoginIsHeld ==
    /\ Decodes(identity) => identity.config.login = login
    /\ ~Decodes(identity) /\ Decodes(bootstrap) =>
          Absent(identity) /\ bootstrap.login = login

(* Every code in a document or on the way was issued.                      *)
Known(code) == code \in issued \union {None}

CodesAreKnown ==
    /\ Decodes(identity) => Known(identity.config.code)
    /\ Decodes(bootstrap) => Known(bootstrap.code)
    /\ command.input # None => Known(command.input.code)
    /\ \A i \in DOMAIN posts : Known(posts[i].code)

(* The Manager has one valid code per device, and none while the device is *)
(* enrolled.                                                               *)
CodesAreSingle ==
    /\ \A c1, c2 \in valid : CodeDevice[c1] = CodeDevice[c2] => c1 = c2
    /\ \A c \in valid : registered[CodeDevice[c]] = None
    /\ \A d \in Devices : registered[d] # None => registered[d].credential \in accepted

(* What enrolls or has enrolled the device is the identity's credential,   *)
(* or one it had.                                                          *)
Ours(device, registration) ==
    /\ Decodes(identity) /\ identity.device = device
    /\ registration = Mine \/ registration.credential \in rotated

EnrollmentsAreOurs ==
    /\ \A i \in DOMAIN posts : Ours(posts[i].device, posts[i].as)
    /\ \A d \in Devices : registered[d] # None => Ours(d, registered[d])

(* Only the command that waits has a request that is awaited, and it has   *)
(* no more than the one.                                                   *)
OneIsAwaited ==
    /\ \A i, j \in DOMAIN posts : posts[i].awaited /\ posts[j].awaited => i = j
    /\ \A i \in DOMAIN posts :
          posts[i].awaited => At("enroll") /\ answer = "none" /\ posts[i].as = Mine
    /\ answer # "none" => At("enroll")

(* A request that the Manager would enroll if it landed now.               *)
Enrolls(post) == post.code \in valid /\ CodeDevice[post.code] = post.device

(* The identity is enrolled, or the command knows that the Manager did it. *)
Confirmed ==
    /\ Decodes(identity)
    /\ \/ identity.enrolled
       \/ At("persist")
       \/ At("enroll") /\ answer = "accepted"

(* From then on nothing on the way can enroll anything else.               *)
ConfirmedIsSettled ==
    Confirmed =>
        /\ identity.credential \in accepted
        /\ registered[identity.device] \in {Mine, None}
        /\ \A i \in DOMAIN posts : ~Enrolls(posts[i])

Inv ==
    /\ ProvisioningTypeOK
    /\ StepsAreReady
    /\ LockIsHeld
    /\ LoginIsHeld
    /\ CodesAreKnown
    /\ CodesAreSingle
    /\ EnrollmentsAreOurs
    /\ OneIsAwaited
    /\ ConfirmedIsSettled

(***************************************************************************)
(* Facts about the documents                                               *)
(***************************************************************************)

(* A document that decodes is a configuration or an identity.              *)
LEMMA Documents ==
    ASSUME ProvisioningTypeOK
    PROVE  /\ Decodes(identity) => identity \in Identity
           /\ Decodes(bootstrap) => bootstrap \in Config
           /\ Absent(identity) => ~Decodes(identity)
           /\ Absent(bootstrap) => ~Decodes(bootstrap)
           /\ Decodes(identity) => Mine \in Registration
           /\ Current # None => Current \in Config
           /\ \A input \in Inputs : input \in Config /\ input.code \in Codes
           /\ None \notin Config \union Identity
           /\ Unreadable \notin Config \union Identity
           /\ None \notin Codes /\ None \notin Registration
BY ProvisioningAssumption, NoDocumentAssumption
   DEF ProvisioningTypeOK, Decodes, Absent, Mine, Current, Config, Identity, Registration

(* What the parts of a document are.                                       *)
LEMMA Fields ==
    /\ \A config \in Config : /\ config.code \in Codes \union {None}
                              /\ config.endpoint \in Endpoints
                              /\ config.login \in Logins \union {None}
    /\ \A document \in Identity : /\ document.installation \in Nat
                                  /\ document.device \in Devices
                                  /\ document.credential \in Nat
                                  /\ document.enrolled \in BOOLEAN
                                  /\ document.config \in Config
    /\ \A post \in Request : /\ post.device \in Devices
                             /\ post.code \in Codes \union {None}
                             /\ post.as \in Registration
                             /\ post.awaited \in BOOLEAN
    /\ \A registration \in Registration : registration.credential \in Nat
    /\ EditedEndpoints \subseteq Endpoints
    /\ CodeDevice \in [Codes -> Devices]
BY ProvisioningAssumption DEF Config, Identity, Request, Registration

(* Taking one element out of a sequence leaves the others in their order.  *)
LEMMA Removed ==
    ASSUME NEW S, NEW s \in Seq(S), NEW i \in DOMAIN s
    PROVE  /\ RemoveAt(s, i) \in Seq(S)
           /\ \A k \in DOMAIN RemoveAt(s, i) :
                 LET from == IF k < i THEN k ELSE k + 1 IN
                 from \in DOMAIN s /\ from # i /\ RemoveAt(s, i)[k] = s[from]
  <1> DEFINE before == SubSeq(s, 1, i - 1)
             after == SubSeq(s, i + 1, Len(s))
  <1>1. i \in 1..Len(s) /\ Len(s) \in Nat
    BY LenProperties
  <1>2. /\ before \in Seq(S) /\ Len(before) = i - 1
        /\ \A k \in 1..(i - 1) : before[k] = s[k]
    BY <1>1, SubSeqProperties
  <1>3. /\ after \in Seq(S) /\ Len(after) = Len(s) - i
        /\ \A k \in 1..(Len(s) - i) : after[k] = s[i + k]
    BY <1>1, SubSeqProperties
  <1>4. RemoveAt(s, i) = before \o after
    BY DEF RemoveAt
  <1> HIDE DEF before, after
  <1>5. /\ before \o after \in Seq(S)
        /\ Len(before \o after) = Len(before) + Len(after)
        /\ \A k \in 1..(Len(before) + Len(after)) :
              (before \o after)[k] =
                  IF k <= Len(before) THEN before[k] ELSE after[k - Len(before)]
    BY <1>2, <1>3, ConcatProperties
  <1> DEFINE rest == before \o after
  <1>6. rest \in Seq(S) /\ DOMAIN rest = 1..Len(rest) /\ DOMAIN s = 1..Len(s)
    BY <1>5, LenProperties
  <1> HIDE DEF rest
  <1>7. /\ Len(rest) = Len(s) - 1
        /\ \A k \in 1..(Len(s) - 1) :
              rest[k] = IF k < i THEN s[k] ELSE s[k + 1]
    <2>1. Len(rest) = Len(s) - 1
      BY <1>1, <1>2, <1>3, <1>5 DEF rest
    <2>2. ASSUME NEW k \in 1..(Len(s) - 1), k < i
          PROVE  rest[k] = s[k]
      <3>1. k \in 1..(Len(before) + Len(after)) /\ k <= Len(before) /\ k \in 1..(i - 1)
        BY <1>1, <1>2, <1>3, <2>2
      <3>2. rest[k] = before[k]
        BY <1>5, <3>1 DEF rest
      <3> QED
        BY <1>2, <3>1, <3>2
    <2>3. ASSUME NEW k \in 1..(Len(s) - 1), ~(k < i)
          PROVE  rest[k] = s[k + 1]
      <3>1. rest[k] = after[k - (i - 1)]
        <4>1. k \in 1..(Len(before) + Len(after)) /\ ~(k <= Len(before))
          BY <1>1, <1>2, <1>3, <2>3
        <4>2. rest[k] = after[k - Len(before)]
          BY <1>5, <4>1 DEF rest
        <4> QED
          BY <1>2, <4>2
      <3>2. k - (i - 1) \in 1..(Len(s) - i) /\ i + (k - (i - 1)) = k + 1
        BY <1>1, <2>3
      <3> QED
        BY <1>3, <3>1, <3>2
    <2> QED
      BY <2>1, <2>2, <2>3
  <1>8. RemoveAt(s, i) = rest
    BY <1>4 DEF rest
  <1>9. ASSUME NEW k \in DOMAIN rest
        PROVE  LET from == IF k < i THEN k ELSE k + 1 IN
               from \in DOMAIN s /\ from # i /\ rest[k] = s[from]
    BY <1>1, <1>6, <1>7
  <1> QED
    BY <1>6, <1>8, <1>9

(***************************************************************************)
(* Types                                                                   *)
(***************************************************************************)

(* There is nothing but a document that may not decode.                    *)
LEMMA InitType == Init => ProvisioningTypeOK
  <1> SUFFICES ASSUME Init PROVE ProvisioningTypeOK
    OBVIOUS
  <1>1. posts \in Seq(Request)
    BY DEF Init
  <1>2. command \in [step : Steps, input : Inputs \union {None}]
    BY DEF Init, Idle, Steps
  <1> QED
    BY <1>1, <1>2 DEF Init, ProvisioningTypeOK

(* A document that takes the place of the identity keeps who it is for.    *)
Rewrites(document, credential, enrolled) ==
    /\ document \in Identity
    /\ document.installation = identity.installation
    /\ document.device = identity.device
    /\ document.credential = credential
    /\ document.enrolled = enrolled

(* A new configuration changes nothing else of the identity.               *)
LEMMA Reconfigured ==
    ASSUME ProvisioningTypeOK, Decodes(identity), NEW config \in Config
    PROVE  /\ Rewrites([identity EXCEPT !.config = config],
                       identity.credential, identity.enrolled)
           /\ [identity EXCEPT !.config = config].config = config
BY Documents DEF Rewrites, Identity

(* Pairing again keeps the credential; replacing takes a fresh one and     *)
(* forgets that the old one was enrolled.                                  *)
LEMMA RewrittenByPairing ==
    ASSUME ProvisioningTypeOK, Decodes(identity), NEW input \in Inputs
    PROVE  /\ Rewrites(Resubmitted(input), identity.credential, identity.enrolled)
           /\ Resubmitted(input).config = input
           /\ Rewrites(Replaced(input), generated + 1, FALSE)
           /\ Replaced(input).config = input
  <1>1. identity \in Identity /\ input \in Config /\ generated + 1 \in Nat
    BY Documents DEF ProvisioningTypeOK
  <1>2. Resubmitted(input) =
            [installation |-> identity.installation, device |-> identity.device,
             credential |-> identity.credential, enrolled |-> identity.enrolled,
             config |-> input]
    BY <1>1 DEF Identity, Resubmitted
  <1>3. Replaced(input) =
            [installation |-> identity.installation, device |-> identity.device,
             credential |-> generated + 1, enrolled |-> FALSE, config |-> input]
    <2>1. Replaced(input) =
              [[[identity EXCEPT !.config = input] EXCEPT !.enrolled = FALSE]
                  EXCEPT !.credential = generated + 1]
      BY <1>1 DEF Identity, Replaced
    <2> QED
      BY <1>1, <2>1 DEF Identity
  <1>4. Resubmitted(input) \in Identity /\ Replaced(input) \in Identity
    BY <1>1, <1>2, <1>3 DEF Identity
  <1>5. /\ Rewrites(Resubmitted(input), identity.credential, identity.enrolled)
        /\ Resubmitted(input).config = input
    BY <1>2, <1>4 DEF Rewrites
  <1>6. /\ Rewrites(Replaced(input), generated + 1, FALSE)
        /\ Replaced(input).config = input
    BY <1>3, <1>4 DEF Rewrites
  <1> QED
    BY <1>5, <1>6

(* Persist marks the identity and forgets the code.                        *)
LEMMA RewrittenByPersist ==
    ASSUME ProvisioningTypeOK, Decodes(identity)
    PROVE  /\ Rewrites(Enrolled, identity.credential, TRUE)
           /\ Enrolled.config = [identity.config EXCEPT !.code = None]
  <1> DEFINE spent == [identity.config EXCEPT !.code = None]
  <1>1. identity \in Identity /\ identity.config \in Config
    BY Documents DEF Identity
  <1>2. spent \in Config
    BY <1>1 DEF Config
  <1>3. Enrolled = [installation |-> identity.installation, device |-> identity.device,
                    credential |-> identity.credential, enrolled |-> TRUE,
                    config |-> spent]
    <2>1. Enrolled = [[identity EXCEPT !.enrolled = TRUE] EXCEPT !.config = spent]
      BY <1>1 DEF Identity, Enrolled
    <2> QED
      BY <1>1, <2>1 DEF Identity
  <1> HIDE DEF spent
  <1>4. Enrolled \in Identity
    BY <1>1, <1>2, <1>3 DEF Identity
  <1>5. Rewrites(Enrolled, identity.credential, TRUE) /\ Enrolled.config = spent
    BY <1>3, <1>4 DEF Rewrites
  <1> QED
    BY <1>5 DEF spent

(* What saving an edited configuration does to the documents.              *)
Reconfigures ==
    /\ UNCHANGED <<command, posts, answer, managerVars, generated, history, running>>
    /\ running = None /\ command = Idle
    /\ editor' \in {editor, None}
    /\ faults' \in Nat
    /\ settings' \in Endpoints \union {None}
    /\ \/ UNCHANGED <<identity, bootstrap>>
       \/ /\ Decodes(identity) /\ UNCHANGED bootstrap
          /\ Rewrites(identity', identity.credential, identity.enrolled)
          /\ identity'.config.login = identity.config.login
          /\ identity'.config.code = identity.config.code
       \/ /\ ~Decodes(identity) /\ Decodes(bootstrap) /\ UNCHANGED identity
          /\ bootstrap' \in Config
          /\ bootstrap'.login = bootstrap.login
          /\ bootstrap'.code = bootstrap.code

(* Where the configuration came from is where it is written.               *)
LEMMA CurrentIsSaved ==
    ASSUME ProvisioningTypeOK, Current # None, NEW endpoint \in Endpoints,
           Unlocked, PutCurrent([Current EXCEPT !.endpoint = endpoint]),
           UNCHANGED <<posts, answer, managerVars, generated, history, running>>,
           editor' \in {editor, None}
    PROVE  Reconfigures
  <1> DEFINE config == [Current EXCEPT !.endpoint = endpoint]
  <1>1. Current \in Config
    BY Documents
  <1>2. /\ config \in Config
        /\ config.code = Current.code /\ config.login = Current.login
        /\ config.endpoint = endpoint
    BY <1>1 DEF Config
  <1>3. PutCurrent(config) /\ command = Idle /\ running = None /\ faults \in Nat
    BY DEF Unlocked, ProvisioningTypeOK
  <1> HIDE DEF config
  <1>4. CASE Decodes(identity)
    <2>1. Current = identity.config /\ identity \in Identity
      BY <1>4, Documents DEF Current
    <2>2. /\ Rewrites([identity EXCEPT !.config = config], identity.credential, identity.enrolled)
          /\ [identity EXCEPT !.config = config].config = config
          /\ Rewrites(identity, identity.credential, identity.enrolled)
      BY <1>2, <1>4, <2>1, Reconfigured DEF Rewrites
    <2>3. /\ UNCHANGED <<bootstrap, settings>>
          /\ identity' \in {identity, [identity EXCEPT !.config = config]}
          /\ command' = Idle /\ faults' \in Nat
      BY <1>3, <1>4 DEF Fault, PutCurrent, PutIdentity, End
    <2> QED
      BY <1>2, <1>3, <1>4, <2>1, <2>2, <2>3 DEF Reconfigures, ProvisioningTypeOK
  <1>5. CASE ~Decodes(identity) /\ config.code = None
    BY <1>2, <1>3, <1>5
    DEF Fault, PutCurrent, PutSettings, Reconfigures, ProvisioningTypeOK
  <1>6. CASE ~Decodes(identity) /\ config.code # None
    <2>1. Decodes(bootstrap) /\ Current = bootstrap
      BY <1>2, <1>6 DEF Current, Decodes
    <2>2. /\ UNCHANGED <<identity, settings>>
          /\ bootstrap' \in {bootstrap, config}
          /\ command' = Idle /\ faults' \in Nat
      BY <1>3, <1>6 DEF Fault, PutCurrent, PutBootstrap, End
    <2> QED
      BY <1>1, <1>2, <1>3, <1>6, <2>1, <2>2 DEF Reconfigures, ProvisioningTypeOK
  <1> QED
    BY <1>4, <1>5, <1>6

(* "config apply", and the save of "config edit" when it saves.            *)
LEMMA Reconfigure ==
    ASSUME ProvisioningTypeOK, 
           SaveEdit \/ (\E endpoint \in EditedEndpoints, expected \in Endpoints :
                            Apply(endpoint, expected))
    PROVE  Reconfigures
  <1>1. CASE SaveEdit
    <2>1. editor.endpoint \in Endpoints /\ Unlocked
      BY <1>1 DEF SaveEdit, ProvisioningTypeOK
    <2>2. CASE Current # None /\ Current.endpoint = editor.config.endpoint
      BY <1>1, <2>1, <2>2, CurrentIsSaved DEF SaveEdit, Saved, history
    <2>3. CASE ~(Current # None /\ Current.endpoint = editor.config.endpoint)
      BY <1>1, <2>1, <2>3
      DEF SaveEdit, Reconfigures, Unlocked, ProvisioningTypeOK, documents, history
    <2> QED
      BY <2>2, <2>3
  <1>2. CASE \E endpoint \in EditedEndpoints, expected \in Endpoints : Apply(endpoint, expected)
    BY <1>2, CurrentIsSaved, ProvisioningAssumption DEF Apply, Elsewhere
  <1> QED
    BY <1>1, <1>2

(* Every action keeps the types.                                           *)
LEMMA TypeStep ==
    ASSUME Inv, [Next]_vars
    PROVE  ProvisioningTypeOK'
  <1> USE DEF Inv
  <1>1. CASE \/ \E input \in Inputs : Replace(input)
             \/ \E input \in Inputs : Import(input)
             \/ Resume
             \/ Preflight
             \/ Enroll
             \/ Clear
             \/ \E e \in EditedEndpoints : Edit(e)
             \/ \E e \in EditedEndpoints : ConfigInit(e)
             \/ RunService
             \/ StopService
             \/ \E code \in Codes : IssueCode(code)
             \/ UNCHANGED vars
    BY <1>1, Documents, Fields
    DEF Replace, Enter, Elsewhere, history, Unlocked, Decodes, managerVars,
        Idle, Import, Given, Absent, PutBootstrap, End, Fault, Resume,
        documents, Preflight, GoTo, At, Enroll, Clear, Edit, ConfigInit,
        PutSettings, RunService, StopService, IssueCode, Local, vars, Steps,
        ProvisioningTypeOK
  <1>2. ASSUME NEW input \in Inputs, input.code \in issued, Pair(input)
        PROVE  ProvisioningTypeOK'
    <2>1. CASE Decodes(identity) /\ ~identity.enrolled
      <3>1. identity' \in {identity, Resubmitted(input)} /\ identity' \in Identity
        BY <1>2, <2>1, RewrittenByPairing, Documents
        DEF Pair, PutIdentity, Rewrites, Absent, Decodes
      <3>2. UNCHANGED <<bootstrap, settings>> /\ login' = identity'.config.login
        BY <1>2, <2>1 DEF Pair, PutIdentity, Absent, Decodes
      <3>3. command' \in {Idle, [step |-> "preflight", input |-> None]} /\ faults' \in Nat
        BY <1>2, <2>1 DEF Pair, PutIdentity, Enter, End, Fault, Absent, Decodes, ProvisioningTypeOK
      <3> QED
        BY <1>2, <3>1, <3>2, <3>3, Fields
        DEF Pair, Elsewhere, managerVars, Idle, Steps, ProvisioningTypeOK
    <2>2. CASE Absent(identity)
      BY <1>2, <2>2, Documents, Fields
      DEF Pair, PutBootstrap, Enter, End, Idle, Fault, Given, Elsewhere, managerVars,
          Decodes, Absent, Steps, ProvisioningTypeOK
    <2> QED
      BY <1>2, <2>1, <2>2 DEF Pair
  <1>3. CASE Rebootstrap
    BY <1>3, Documents, Fields
    DEF Rebootstrap, Enter, At, Given, Elsewhere, PutBootstrap, Decodes,
        managerVars, End, Fault, Idle, StepsAreReady, Steps, ProvisioningTypeOK
  <1>4. CASE Validate
    <2>1. Decodes(identity) /\ identity \in Identity /\ command.input \in Inputs
      BY <1>4, Documents DEF Validate, StepsAreReady
    <2>2. CASE UNCHANGED <<documents, generated, faults, history>> /\ End
      BY <1>4, <2>2 DEF Validate, documents, history, End, Idle, Elsewhere, managerVars, Steps,
                     ProvisioningTypeOK
    <2>3. CASE /\ generated' = generated + 1
               /\ PutIdentity(Replaced(command.input), Enter("preflight", None))
               /\ login' = identity'.config.login
               /\ rotated' = IF identity' = identity THEN rotated
                             ELSE rotated \union {identity.credential}
      <3>1. /\ identity' \in {identity, Replaced(command.input)} /\ identity' \in Identity
            /\ UNCHANGED <<bootstrap, settings>>
        BY <2>1, <2>3, RewrittenByPairing DEF PutIdentity, Rewrites
      <3>2. command' \in {Idle, [step |-> "preflight", input |-> None]} /\ faults' \in Nat
        BY <2>3 DEF PutIdentity, Enter, End, Fault, ProvisioningTypeOK
      <3>3. rotated' \subseteq Nat /\ login' \in Logins \union {None} /\ generated' \in Nat
        BY <2>1, <2>3, <3>1, Fields DEF ProvisioningTypeOK
      <3> QED
        BY <1>4, <3>1, <3>2, <3>3 DEF Validate, Elsewhere, managerVars, Idle, Steps,
                                   ProvisioningTypeOK
    <2> QED
      BY <1>4, <2>2, <2>3 DEF Validate
  <1>5. CASE Resolve
    <2>1. Decodes(bootstrap) /\ bootstrap \in Config
      BY <1>5, Documents DEF Resolve, StepsAreReady
    <2>2. CASE UNCHANGED <<documents, generated, faults>> /\ End
      BY <1>5, <2>2 DEF Resolve, documents, history, End, Idle, Elsewhere, managerVars, Steps,
                     ProvisioningTypeOK
    <2>3. CASE /\ generated' = generated + 1
               /\ bootstrap.code \in valid
               /\ PutIdentity(Fresh, GoTo("probe"))
      <3>1. Fresh \in Identity
        BY <2>1, <2>3, Fields DEF Fresh, Identity, ProvisioningTypeOK
      <3>2. /\ identity' \in {identity, Fresh}
            /\ UNCHANGED <<bootstrap, settings>>
        BY <2>3 DEF PutIdentity
      <3>3. command' \in {Idle, [command EXCEPT !.step = "probe"]} /\ faults' \in Nat
        BY <2>3 DEF PutIdentity, GoTo, End, Fault, ProvisioningTypeOK
      <3> QED
        BY <1>5, <2>3, <3>1, <3>2, <3>3 DEF Resolve, Elsewhere, managerVars, history, Idle, Steps,
                                         ProvisioningTypeOK
    <2> QED
      BY <1>5, <2>2, <2>3 DEF Resolve, Fresh
  <1>6. CASE Probe
    <2>1. Decodes(identity) /\ identity \in Identity
      BY <1>6, Documents DEF Probe, StepsAreReady
    <2>2. posts' \in Seq(Request)
      <3> DEFINE post == [device |-> identity.device, code |-> identity.config.code,
                          as |-> Mine, awaited |-> TRUE]
      <3>1. post \in Request
        BY <2>1, Documents, Fields DEF Request
      <3>2. posts' \in {posts, Append(posts, post)}
        BY <1>6 DEF Probe
      <3> QED
        BY SMTT(20), <3>1, <3>2, AppendProperties DEF ProvisioningTypeOK
    <2>3. command' \in {[command EXCEPT !.step = "persist"], [command EXCEPT !.step = "enroll"]}
      BY <1>6 DEF Probe, GoTo
    <2> QED
      BY <1>6, <2>2, <2>3 DEF Probe, documents, managerVars, history, Steps, ProvisioningTypeOK
  <1>7. CASE Persist
    <2>1. Decodes(identity) /\ identity \in Identity
      BY <1>7, Documents DEF Persist, StepsAreReady
    <2>2. /\ identity' \in {identity, Enrolled} /\ identity' \in Identity
          /\ UNCHANGED <<bootstrap, settings>>
      BY <1>7, <2>1, RewrittenByPersist DEF Persist, PutIdentity, Rewrites
    <2>3. command' \in {Idle, [command EXCEPT !.step = "clear"]} /\ faults' \in Nat
      BY <1>7 DEF Persist, PutIdentity, GoTo, End, Fault, ProvisioningTypeOK
    <2> QED
      BY <1>7, <2>2, <2>3 DEF Persist, Elsewhere, managerVars, history, Idle, Steps,
                           ProvisioningTypeOK
  <1>8. CASE Interrupt
    <2>1. posts' \in Seq(Request)
      <3>1. \A i \in 1..Len(posts) : [posts[i] EXCEPT !.awaited = FALSE] \in Request
        <4>1. \A i \in 1..Len(posts) : posts[i] \in Request
          BY LenProperties DEF ProvisioningTypeOK
        <4> QED
          BY <4>1 DEF Request
      <3>2. posts' = [i \in 1..Len(posts) |-> [posts[i] EXCEPT !.awaited = FALSE]]
        BY <1>8, LenProperties DEF Interrupt, ProvisioningTypeOK
      <3>3. Len(posts) \in Nat
        BY LenProperties DEF ProvisioningTypeOK
      <3> QED
        BY <3>1, <3>2, <3>3
    <2> QED
      BY <1>8, <2>1 DEF Interrupt, documents, managerVars, history, End, Idle, Fault, Steps,
                     ProvisioningTypeOK
  <1>9. CASE SaveEdit \/ \E endpoint \in EditedEndpoints, expected \in Endpoints :
                           Apply(endpoint, expected)
    BY <1>9, Documents, Fields, Reconfigure
    DEF Reconfigures, managerVars, history, documents, Rewrites, Steps,
        ProvisioningTypeOK
  <1>10. ASSUME NEW new \in Logins, UpdateCredentials(new)
        PROVE  ProvisioningTypeOK'
    <2>1. Decodes(identity) /\ identity \in Identity
      BY <1>10, Documents DEF UpdateCredentials
    <2>2. [identity EXCEPT !.config.login = new] \in Identity
      BY <2>1 DEF Identity, Config
    <2>3. identity' \in Identity /\ UNCHANGED <<bootstrap, settings>>
      BY <1>10, <2>1, <2>2 DEF UpdateCredentials, PutIdentity
    <2>4. command' \in {Idle, command} /\ faults' \in Nat
      BY <1>10 DEF UpdateCredentials, PutIdentity, End, Fault, ProvisioningTypeOK
    <2> QED
      BY <1>10, <2>3, <2>4, Fields DEF UpdateCredentials, Elsewhere, managerVars, Idle, Steps,
                                   ProvisioningTypeOK
  <1>11. ASSUME NEW i \in DOMAIN posts, Land(i)
        PROVE  ProvisioningTypeOK'
    <2>1. posts' \in Seq(Request) /\ posts[i] \in Request
      BY <1>11, Removed, LenProperties DEF Land, ProvisioningTypeOK
    <2> QED
      BY <1>11, <2>1, Fields DEF Land, Local, documents, history, ProvisioningTypeOK
  <1> QED
    BY <1>1, <1>2, <1>3, <1>4, <1>5, <1>6, <1>7, <1>8, <1>9, <1>10, <1>11 DEF Next

(***************************************************************************)
(* What the writing actions do, for the proofs below                       *)
(***************************************************************************)

(* Where a command can be after a step.                                    *)
LEMMA Moves ==
    ASSUME ProvisioningTypeOK
    PROVE  /\ command.step = "idle" => ~(command.step \in Steps \ {"idle"})
           /\ \A step : GoTo(step) => /\ command'.step = step
                                      /\ command'.input = command.input
           /\ \A step, input : Enter(step, input) => /\ command'.step = step
                                                     /\ command'.input = input
           /\ End => command'.step = "idle" /\ command'.input = None
           /\ command = Idle => command.step = "idle" /\ command.input = None
BY DEF ProvisioningTypeOK, GoTo, Enter, End, Idle

(* The identity is the same but for its configuration, and its code is     *)
(* the one it had or the one that was entered.                             *)
Keeps(codes) ==
    /\ Decodes(identity) /\ Decodes(identity')
    /\ Rewrites(identity', identity.credential, identity.enrolled)
    /\ identity'.config.code \in codes \union {identity.config.code, None}

(* An identity is a document that decodes.                                 *)
LEMMA IdentityDecodes ==
    ASSUME ProvisioningTypeOK, NEW document \in Identity
    PROVE  Decodes(document)
BY Documents DEF Decodes

(* Pair writes the identity it resubmits or, without one, the bootstrap.   *)
LEMMA PairWrites ==
    ASSUME Inv, NEW input \in Inputs, Pair(input)
    PROVE  /\ command = Idle /\ running = None
           /\ UNCHANGED <<settings, running, editor, posts, answer, managerVars, rotated,
                          generated>>
           /\ \/ ~identity.enrolled /\ Keeps({input.code}) /\ UNCHANGED bootstrap
              \/ /\ Absent(identity) /\ UNCHANGED identity
                 /\ bootstrap' \in {bootstrap, input}
           /\ \/ End
              \/ Enter("preflight", None)
  <1> USE DEF Inv
  <1>1. CASE Decodes(identity) /\ ~identity.enrolled
    <2>1. identity' \in {identity, Resubmitted(input)} /\ UNCHANGED <<bootstrap, settings>>
      BY <1>1 DEF Pair, PutIdentity, Absent, Decodes
    <2>2. Keeps({input.code})
      <3>1. /\ Rewrites(identity, identity.credential, identity.enrolled)
            /\ Rewrites(Resubmitted(input), identity.credential, identity.enrolled)
            /\ Resubmitted(input).config = input
        BY <1>1, RewrittenByPairing, Documents DEF Rewrites
      <3>2. Rewrites(identity', identity.credential, identity.enrolled)
        BY <2>1, <3>1
      <3>3. Decodes(identity')
        BY <3>2, IdentityDecodes DEF Rewrites
      <3> QED
        BY <1>1, <2>1, <3>1, <3>2, <3>3 DEF Keeps
    <2> QED
      BY <1>1, <2>1, <2>2
      DEF Pair, PutIdentity, Unlocked, Elsewhere, Absent, Decodes
  <1>2. CASE Absent(identity)
    BY <1>2 DEF Pair, PutBootstrap, Unlocked, Elsewhere, Absent, Decodes
  <1> QED
    BY <1>1, <1>2 DEF Pair

(* Validate leaves everything or sets the credential aside for a new one.  *)
LEMMA ValidateWrites ==
    ASSUME Inv, Validate
    PROVE  /\ At("validate") /\ Decodes(identity) /\ Decodes(identity')
           /\ UNCHANGED <<bootstrap, settings, running, editor, posts, answer, managerVars>>
           /\ \/ UNCHANGED <<identity, rotated>>
              \/ /\ Rewrites(identity', generated + 1, FALSE)
                 /\ identity'.config.code = command.input.code
                 /\ rotated' = rotated \union {identity.credential}
           /\ command.input \in Inputs
           /\ End \/ Enter("preflight", None)
  <1> USE DEF Inv
  <1>1. At("validate") /\ Decodes(identity) /\ command.input \in Inputs
    BY DEF Validate, StepsAreReady
  <1>2. CASE UNCHANGED <<documents, generated, faults, history>> /\ End
    BY <1>1, <1>2 DEF Validate, documents, history, Elsewhere, Decodes
  <1>3. CASE /\ PutIdentity(Replaced(command.input), Enter("preflight", None))
             /\ rotated' = IF identity' = identity THEN rotated
                           ELSE rotated \union {identity.credential}
    <2>1. PICK renewed \in Identity :
              /\ renewed = Replaced(command.input)
              /\ Rewrites(renewed, generated + 1, FALSE)
              /\ renewed.config = command.input
      BY <1>1, RewrittenByPairing DEF Rewrites
    <2>2. /\ identity' \in {identity, renewed}
          /\ UNCHANGED <<bootstrap, settings>>
          /\ End \/ Enter("preflight", None)
      BY <1>3, <2>1 DEF PutIdentity
    <2>3. Decodes(identity')
      <3>1. Decodes(renewed)
        BY <2>1, IdentityDecodes
      <3> QED
        BY <1>1, <2>2, <3>1 DEF Decodes
    <2>4. \/ identity' = identity /\ rotated' = rotated
          \/ identity' = renewed /\ rotated' = rotated \union {identity.credential}
      BY <1>3, <2>2
    <2>5. UNCHANGED <<running, editor, posts, answer, managerVars>>
      BY DEF Validate, Elsewhere
    <2>6. identity' = renewed => /\ Rewrites(identity', generated + 1, FALSE)
                                 /\ identity'.config.code = command.input.code
      BY <2>1 DEF Rewrites
    <2> QED
      BY <1>1, <2>2, <2>3, <2>4, <2>5, <2>6
  <1> QED
    BY <1>2, <1>3 DEF Validate

(* Resolve makes the first identity from the bootstrap.                    *)
LEMMA ResolveWrites ==
    ASSUME Inv, Resolve
    PROVE  /\ At("resolve") /\ ~Decodes(identity) /\ Absent(identity)
           /\ Decodes(bootstrap) /\ bootstrap.login = login
           /\ UNCHANGED <<bootstrap, settings, running, editor, posts, answer, managerVars,
                          history>>
           /\ \/ UNCHANGED identity /\ End
              \/ /\ Decodes(identity') /\ ~identity'.enrolled
                 /\ identity'.config = bootstrap
                 /\ End \/ GoTo("probe")
  <1> USE DEF Inv
  <1>1. At("resolve") /\ ~Decodes(identity) /\ Decodes(bootstrap)
    BY DEF Resolve, StepsAreReady, Absent, Decodes
  <1>2. UNCHANGED <<bootstrap, settings>> /\ bootstrap.login = login
    BY <1>1 DEF Resolve, PutIdentity, documents, LoginIsHeld
  <1>3. CASE UNCHANGED identity /\ End
    BY <1>1, <1>2, <1>3 DEF Resolve, StepsAreReady, Elsewhere
  <1>4. CASE identity' = Fresh /\ bootstrap.code \in valid /\ (End \/ GoTo("probe"))
    <2>1. Fresh \in Identity
      BY <1>1, <1>4, Documents, Fields DEF Fresh, Identity, ProvisioningTypeOK
    <2>2. Fresh.config = bootstrap /\ Fresh.enrolled = FALSE
      BY DEF Fresh
    <2> QED
      BY <1>1, <1>2, <1>4, <2>1, <2>2, Documents DEF Resolve, StepsAreReady, Elsewhere, Decodes
  <1> QED
    BY <1>3, <1>4 DEF Resolve, PutIdentity, documents

(* Persist keeps the credential.                                           *)
LEMMA PersistWrites ==
    ASSUME Inv, Persist
    PROVE  /\ At("persist") /\ Decodes(identity) /\ Decodes(identity')
           /\ UNCHANGED <<bootstrap, settings, running, editor, posts, answer, managerVars,
                          generated, history>>
           /\ \/ UNCHANGED identity /\ End
              \/ /\ Rewrites(identity', identity.credential, TRUE)
                 /\ identity'.config.code = None
                 /\ identity'.config.login = identity.config.login
                 /\ End \/ GoTo("clear")
  <1> USE DEF Inv
  <1>1. At("persist") /\ Decodes(identity) /\ identity.config \in Config
    BY Documents, Fields DEF Persist, StepsAreReady
  <1>2. Rewrites(Enrolled, identity.credential, TRUE) /\ Decodes(Enrolled)
    BY <1>1, RewrittenByPersist, Documents DEF Rewrites, Decodes
  <1>3. Enrolled.config.code = None /\ Enrolled.config.login = identity.config.login
    BY <1>1, RewrittenByPersist DEF Config
  <1> HIDE DEF Enrolled
  <1>4. \/ identity' = identity /\ End
        \/ identity' = Enrolled /\ (End \/ GoTo("clear"))
    BY DEF Persist, PutIdentity
  <1>5. UNCHANGED <<bootstrap, settings>>
    BY DEF Persist, PutIdentity
  <1> QED
    BY <1>1, <1>2, <1>3, <1>4, <1>5 DEF Persist, Elsewhere

(* UpdateCredentials changes the login and nothing else.                   *)
LEMMA UpdateWrites ==
    ASSUME Inv, NEW new \in Logins, UpdateCredentials(new)
    PROVE  /\ Keeps({}) /\ command = Idle /\ running = None
           /\ command' = command
           /\ UNCHANGED <<bootstrap, settings, running, editor, posts, answer, managerVars,
                          rotated, generated>>
           /\ login' = identity'.config.login
  <1> USE DEF Inv
  <1>1. Decodes(identity) /\ identity \in Identity /\ command = Idle /\ running = None
    BY Documents DEF UpdateCredentials, Unlocked
  <1> DEFINE config == [identity.config EXCEPT !.login = new]
  <1>2. config \in Config /\ config.code = identity.config.code
    BY <1>1 DEF Config, Identity
  <1>3. [identity EXCEPT !.config.login = new] = [identity EXCEPT !.config = config]
    BY <1>1 DEF Identity
  <1> HIDE DEF config
  <1>4. identity' \in {identity, [identity EXCEPT !.config = config]}
    BY <1>3 DEF UpdateCredentials, PutIdentity
  <1>5. Keeps({})
    <2>1. /\ Rewrites(identity, identity.credential, identity.enrolled)
          /\ Rewrites([identity EXCEPT !.config = config], identity.credential, identity.enrolled)
          /\ [identity EXCEPT !.config = config].config = config
      BY <1>1, <1>2, Reconfigured DEF Rewrites
    <2>2. Rewrites(identity', identity.credential, identity.enrolled)
      BY <1>4, <2>1
    <2>3. Decodes(identity')
      BY <2>2, IdentityDecodes DEF Rewrites
    <2> QED
      BY <1>1, <1>2, <1>4, <2>1, <2>2, <2>3 DEF Keeps
  <1>6. command' = command /\ UNCHANGED <<bootstrap, settings>>
    BY <1>1 DEF UpdateCredentials, PutIdentity, End
  <1> QED
    BY <1>1, <1>5, <1>6 DEF UpdateCredentials, Elsewhere

(* The requests on the way after Probe, Interrupt and Land.                *)
LEMMA Sent ==
    ASSUME ProvisioningTypeOK, Probe, ~Recognised
    PROVE  /\ DOMAIN posts' = DOMAIN posts \union {Len(posts) + 1}
           /\ \A i \in DOMAIN posts : i # Len(posts) + 1 /\ posts'[i] = posts[i]
           /\ posts'[Len(posts) + 1] =
                 [device |-> identity.device, code |-> identity.config.code,
                  as |-> Mine, awaited |-> TRUE]
           /\ GoTo("enroll")
  <1>1. posts \in Seq(Request) /\ Len(posts) \in Nat /\ DOMAIN posts = 1..Len(posts)
    BY LenProperties DEF ProvisioningTypeOK
  <1>2. posts' = Append(posts, [device |-> identity.device, code |-> identity.config.code,
                                as |-> Mine, awaited |-> TRUE]) /\ GoTo("enroll")
    BY DEF Probe
  <1> QED
    BY <1>1, <1>2

(* An interrupted command awaits none of its requests any more.            *)
LEMMA Abandoned ==
    ASSUME ProvisioningTypeOK, Interrupt
    PROVE  /\ DOMAIN posts' = DOMAIN posts
           /\ \A i \in DOMAIN posts :
                 /\ posts'[i].device = posts[i].device /\ posts'[i].code = posts[i].code
                 /\ posts'[i].as = posts[i].as /\ posts'[i].awaited = FALSE
  <1>1. \A i \in DOMAIN posts : posts[i] \in Request
    BY LenProperties DEF ProvisioningTypeOK
  <1>2. posts' = [i \in DOMAIN posts |-> [posts[i] EXCEPT !.awaited = FALSE]]
    BY DEF Interrupt
  <1> QED
    BY <1>1, <1>2 DEF Request

(* A request that landed is gone, and the others are as they were.         *)
LEMMA Landed ==
    ASSUME ProvisioningTypeOK, NEW i \in DOMAIN posts, Land(i)
    PROVE  \A k \in DOMAIN posts' :
              LET from == IF k < i THEN k ELSE k + 1 IN
              from \in DOMAIN posts /\ from # i /\ posts'[k] = posts[from]
BY Removed DEF Land, ProvisioningTypeOK

(* Nobody writes while the service runs or a command goes on.              *)
LEMMA LockStep ==
    ASSUME Inv, [Next]_vars
    PROVE  LockIsHeld'
  <1> USE DEF Inv
  <1>1. CASE \/ \E input \in Inputs : Pair(input)
             \/ \E input \in Inputs : Replace(input)
             \/ \E input \in Inputs : Import(input)
             \/ Resume
             \/ Rebootstrap
             \/ Preflight
             \/ Resolve
             \/ Probe
             \/ Enroll
             \/ Persist
             \/ Clear
             \/ Interrupt
             \/ \E e \in EditedEndpoints : ConfigInit(e)
             \/ RunService
             \/ StopService
             \/ \E code \in Codes : IssueCode(code)
             \/ \E i \in DOMAIN posts : Land(i)
             \/ UNCHANGED vars
    BY <1>1
    DEF Pair, Enter, Given, Elsewhere, Unlocked, Decodes, Absent, PutIdentity,
        PutBootstrap, managerVars, Idle, End, Fault, Replace, history, Import,
        Resume, documents, Rebootstrap, At, Preflight, GoTo, Resolve, Entropy,
        Probe, Enroll, Persist, Clear, Interrupt, ConfigInit, PutSettings,
        RunService, StopService, IssueCode, Local, Land, vars, LockIsHeld
  <1>2. CASE Validate
    BY <1>2
    DEF Validate, Enter, At, End, Elsewhere, documents, history, PutIdentity,
        Entropy, Idle, managerVars, Fault, Idle, LockIsHeld
  <1>3. ASSUME NEW endpoint \in EditedEndpoints, Edit(endpoint)
        PROVE  LockIsHeld'
    BY <1>3
    DEF Edit, documents, managerVars, history, LockIsHeld
  <1>4. CASE SaveEdit \/ \E endpoint \in EditedEndpoints, expected \in Endpoints :
                           Apply(endpoint, expected)
    BY <1>4, Reconfigure
    DEF Reconfigures, managerVars, history, documents, LockIsHeld
  <1>5. ASSUME NEW new \in Logins, UpdateCredentials(new)
        PROVE  LockIsHeld'
    BY <1>5
    DEF UpdateCredentials, Elsewhere, Unlocked, Decodes, PutIdentity,
        managerVars, Idle, End, Fault, LockIsHeld
  <1> QED
    BY <1>1, <1>2, <1>3, <1>4, <1>5 DEF Next

(* A new code replaces the device's code and its registration; an accepted  *)
(* request uses the code up.                                               *)
LEMMA CodesStep ==
    ASSUME Inv, [Next]_vars
    PROVE  CodesAreSingle'
  <1> USE DEF Inv
  <1>1. CASE \/ \E input \in Inputs : Pair(input)
             \/ \E input \in Inputs : Replace(input)
             \/ \E input \in Inputs : Import(input)
             \/ Resume
             \/ Rebootstrap
             \/ Validate
             \/ Preflight
             \/ Resolve
             \/ Probe
             \/ Enroll
             \/ Persist
             \/ Clear
             \/ Interrupt
             \/ \E e \in EditedEndpoints : Edit(e)
             \/ \E e \in EditedEndpoints : ConfigInit(e)
             \/ \E new \in Logins : UpdateCredentials(new)
             \/ RunService
             \/ StopService
             \/ UNCHANGED vars
    BY <1>1, Documents, Fields
    DEF Pair, Enter, Given, Elsewhere, Unlocked, Decodes, Absent, PutIdentity,
        PutBootstrap, managerVars, Idle, End, Fault, Replace, history, Import,
        Resume, documents, Rebootstrap, At, Validate, Entropy, Preflight, GoTo,
        Resolve, Probe, Enroll, Persist, Clear, Interrupt, Edit, ConfigInit,
        PutSettings, UpdateCredentials, RunService, StopService, vars,
        CodesAreSingle
  <1>2. CASE SaveEdit \/ \E endpoint \in EditedEndpoints, expected \in Endpoints :
                           Apply(endpoint, expected)
    BY <1>2, Documents, Fields, Reconfigure
    DEF Reconfigures, managerVars, history, documents, CodesAreSingle
  <1>3. ASSUME NEW code \in Codes, IssueCode(code)
        PROVE  CodesAreSingle'
    BY <1>3, Documents, Fields
    DEF IssueCode, Local, documents, history, ProvisioningTypeOK,
        CodesAreSingle
  <1>4. ASSUME NEW i \in DOMAIN posts, Land(i)
        PROVE  CodesAreSingle'
    BY <1>4, Documents, Fields, Removed
    DEF Land, Local, documents, history, RemoveAt, ProvisioningTypeOK, Request,
        Enrolls, CodesAreSingle
  <1> QED
    BY <1>1, <1>2, <1>3, <1>4 DEF Next

(* Whatever writes the configuration takes the login from what is current. *)
LEMMA LoginStep ==
    ASSUME Inv, [Next]_vars
    PROVE  LoginIsHeld'
  <1> USE DEF Inv
  <1>1. CASE \/ \E input \in Inputs : Replace(input)
             \/ \E input \in Inputs : Import(input)
             \/ Resume
             \/ Preflight
             \/ Probe
             \/ Enroll
             \/ Interrupt
             \/ \E e \in EditedEndpoints : Edit(e)
             \/ \E e \in EditedEndpoints : ConfigInit(e)
             \/ RunService
             \/ StopService
             \/ \E code \in Codes : IssueCode(code)
             \/ \E i \in DOMAIN posts : Land(i)
             \/ UNCHANGED vars
    BY <1>1, Documents, Fields
    DEF Replace, Enter, Elsewhere, history, Unlocked, managerVars, Idle,
        Import, Given, PutBootstrap, End, Fault, Resume, documents, Preflight,
        GoTo, At, Probe, Enroll, Interrupt, Edit, ConfigInit, PutSettings,
        RunService, StopService, IssueCode, Local, Land, vars, Decodes, Absent,
        LoginIsHeld
  <1>2. ASSUME NEW input \in Inputs, input.code \in issued, Pair(input)
        PROVE  LoginIsHeld'
    <2>1. CASE Decodes(identity) /\ ~identity.enrolled
      <3>1. identity' \in {identity, Resubmitted(input)} /\ login' = identity'.config.login
        BY <1>2, <2>1 DEF Pair, PutIdentity, Absent, Decodes
      <3>2. Resubmitted(input) \in Identity /\ identity \in Identity
        BY <1>2, <2>1, RewrittenByPairing, Documents DEF Rewrites
      <3>3. identity' \in Identity
        BY <3>1, <3>2
      <3>4. Decodes(identity')
        BY <3>3, Documents DEF Decodes
      <3> QED
        BY <3>1, <3>4 DEF LoginIsHeld
    <2>2. CASE Absent(identity)
      BY <1>2, <2>2 DEF Pair, PutBootstrap, Given, Absent, Decodes, LoginIsHeld
    <2> QED
      BY <1>2, <2>1, <2>2 DEF Pair
  <1>3. CASE Rebootstrap
    BY <1>3, Documents, Fields
    DEF Rebootstrap, Enter, At, Given, Elsewhere, PutBootstrap, managerVars,
        End, Fault, Idle, StepsAreReady, Decodes, Absent, LoginIsHeld
  <1>4. CASE Validate
    <2>1. Decodes(identity) /\ identity \in Identity /\ command.input \in Inputs
      BY <1>4, Documents DEF Validate, StepsAreReady
    <2>2. CASE UNCHANGED <<documents, login>>
      BY <2>2 DEF LoginIsHeld, documents, Decodes, Absent
    <2>3. CASE identity' \in {identity, Replaced(command.input)} /\ login' = identity'.config.login
      <3>1. Replaced(command.input) \in Identity
        BY <2>1, RewrittenByPairing DEF Rewrites
      <3>2. identity' \in Identity
        BY <2>1, <2>3, <3>1
      <3>3. Decodes(identity')
        BY <3>2, Documents DEF Decodes
      <3> QED
        BY <2>3, <3>3 DEF LoginIsHeld
    <2> QED
      BY <1>4, <2>2, <2>3 DEF Validate, PutIdentity, history
  <1>5. CASE Resolve
    BY <1>5, Documents, Fields, ResolveWrites
    DEF Decodes, Absent, LoginIsHeld, At, managerVars, history, documents
  <1>6. CASE Persist
    BY <1>6, Documents, Fields, RewrittenByPersist
    DEF Persist, GoTo, At, Elsewhere, history, PutIdentity, managerVars, End,
        Fault, Idle, StepsAreReady, Rewrites, Config, Decodes, Absent,
        LoginIsHeld
  <1>7. CASE Clear
    BY <1>7, Documents, Fields
    DEF Clear, At, End, Elsewhere, history, PutBootstrap, Idle, managerVars,
        Fault, StepsAreReady, Decodes, Absent, LoginIsHeld
  <1>8. CASE SaveEdit \/ \E endpoint \in EditedEndpoints, expected \in Endpoints :
                           Apply(endpoint, expected)
    BY <1>8, Documents, Fields, Reconfigure
    DEF Reconfigures, managerVars, history, documents, Rewrites, Decodes,
        Absent, LoginIsHeld
  <1>9. ASSUME NEW new \in Logins, UpdateCredentials(new)
        PROVE  LoginIsHeld'
    <2>1. Decodes(identity) /\ identity' \in {identity, [identity EXCEPT !.config.login = new]}
      BY <1>9 DEF UpdateCredentials, PutIdentity
    <2>2. identity' \in Identity
      BY <2>1, TypeStep, Documents DEF Identity, Config
    <2> QED
      BY <1>9, <2>2, Documents DEF UpdateCredentials, LoginIsHeld, Decodes
  <1> QED
    BY <1>1, <1>2, <1>3, <1>4, <1>5, <1>6, <1>7, <1>8, <1>9 DEF Next

(* A command leaves the next step what that step counts on.                *)
LEMMA ReadyStep ==
    ASSUME Inv, [Next]_vars
    PROVE  StepsAreReady'
  <1> USE DEF Inv
  <1>1. CASE \/ \E input \in Inputs : Replace(input)
             \/ \E input \in Inputs : Import(input)
             \/ Resume
             \/ Rebootstrap
             \/ Clear
             \/ Interrupt
             \/ \E e \in EditedEndpoints : Edit(e)
             \/ \E e \in EditedEndpoints : ConfigInit(e)
             \/ RunService
             \/ StopService
             \/ \E code \in Codes : IssueCode(code)
             \/ \E i \in DOMAIN posts : Land(i)
             \/ UNCHANGED vars
    BY <1>1, Documents, Moves
    DEF Replace, Enter, Elsewhere, history, Unlocked, managerVars, Idle,
        Import, Given, PutBootstrap, End, Fault, Resume, documents,
        Rebootstrap, At, Clear, Interrupt, Edit, ConfigInit, PutSettings,
        RunService, StopService, IssueCode, Local, Land, vars, Absent, Decodes,
        StepsAreReady
  <1>2. ASSUME NEW input \in Inputs, input.code \in issued, Pair(input)
        PROVE  StepsAreReady'
    BY <1>2, Documents, Moves, PairWrites
    DEF Absent, Decodes, StepsAreReady, Keeps, Rewrites, At, managerVars,
        history, documents
  <1>3. CASE Validate
    <2>1. command'.step \in {"idle", "preflight"}
      BY <1>3, ValidateWrites, Moves
    <2> QED
      BY <2>1 DEF StepsAreReady, At
  <1>4. CASE Preflight
    BY <1>4, Documents, Moves
    DEF Preflight, GoTo, At, End, Elsewhere, documents, history, Idle,
        managerVars, Absent, Decodes, StepsAreReady
  <1>5. CASE Resolve
    BY <1>5, Documents, Moves, ResolveWrites
    DEF Absent, Decodes, StepsAreReady, At, managerVars, history, documents
  <1>6. CASE Probe
    BY <1>6, Documents, Moves
    DEF Probe, GoTo, At, documents, managerVars, history, Absent, Decodes,
        StepsAreReady
  <1>7. CASE Enroll
    BY <1>7, Documents, Moves
    DEF Enroll, GoTo, At, End, documents, managerVars, history, Idle, Absent,
        Decodes, StepsAreReady
  <1>8. CASE Persist
    <2>1. command'.step \in {"idle", "clear"}
      BY <1>8, PersistWrites, Moves
    <2> QED
      BY <2>1 DEF StepsAreReady, At
  <1>9. CASE SaveEdit \/ \E endpoint \in EditedEndpoints, expected \in Endpoints :
                           Apply(endpoint, expected)
    BY <1>9, Documents, Moves, Reconfigure
    DEF Absent, Decodes, StepsAreReady, Reconfigures, Rewrites, At,
        managerVars, history, documents
  <1>10. ASSUME NEW new \in Logins, UpdateCredentials(new)
        PROVE  StepsAreReady'
    BY <1>10, Documents, Moves, UpdateWrites
    DEF Absent, Decodes, StepsAreReady, Keeps, Rewrites, At, managerVars,
        history, documents
  <1> QED
    BY <1>1, <1>2, <1>3, <1>4, <1>5, <1>6, <1>7, <1>8, <1>9, <1>10 DEF Next

(* No step makes a code up.                                                *)
LEMMA KnownStep ==
    ASSUME Inv, [Next]_vars
    PROVE  CodesAreKnown'
  <1> USE DEF Inv
  <1>1. CASE \/ Resume
             \/ Rebootstrap
             \/ Clear
             \/ \E e \in EditedEndpoints : Edit(e)
             \/ \E e \in EditedEndpoints : ConfigInit(e)
             \/ RunService
             \/ StopService
             \/ \E code \in Codes : IssueCode(code)
             \/ UNCHANGED vars
    BY <1>1, Documents, Moves
    DEF Resume, Enter, Elsewhere, documents, history, Unlocked, Absent,
        managerVars, Idle, Rebootstrap, At, Given, PutBootstrap, End, Fault,
        Clear, Edit, ConfigInit, PutSettings, RunService, StopService,
        IssueCode, Local, vars, Decodes, Known, CodesAreKnown
  <1>2. ASSUME NEW input \in Inputs, input.code \in issued, Pair(input)
        PROVE  CodesAreKnown'
    BY <1>2, Documents, Moves, PairWrites
    DEF Decodes, Known, CodesAreKnown, Keeps, Rewrites, At, managerVars,
        history, documents
  <1>3. ASSUME NEW input \in Inputs, input.code \in issued, Replace(input)
        PROVE  CodesAreKnown'
    BY <1>3, Documents, Moves
    DEF Replace, Enter, Elsewhere, history, Unlocked, managerVars, Idle,
        Decodes, Known, CodesAreKnown
  <1>4. ASSUME NEW input \in Inputs, input.code \in issued, Import(input)
        PROVE  CodesAreKnown'
    BY <1>4, Documents, Moves
    DEF Import, Given, Elsewhere, Unlocked, Absent, PutBootstrap, managerVars,
        Idle, End, Fault, Decodes, Known, CodesAreKnown
  <1>5. CASE Validate
    BY <1>5, Documents, Moves, ValidateWrites
    DEF Decodes, Known, CodesAreKnown, Rewrites, At, managerVars, history,
        documents
  <1>6. CASE Preflight
    BY <1>6, Documents, Moves
    DEF Preflight, GoTo, At, End, Elsewhere, documents, history, Absent, Idle,
        managerVars, Decodes, Known, CodesAreKnown
  <1>7. CASE Resolve
    BY <1>7, Documents, Moves, ResolveWrites
    DEF Decodes, Known, CodesAreKnown, At, managerVars, history, documents
  <1>8. CASE Probe
    BY <1>8, Documents, Moves, Sent
    DEF Probe, GoTo, At, documents, managerVars, history, StepsAreReady,
        Decodes, Known, CodesAreKnown
  <1>9. CASE Enroll
    BY <1>9, Documents, Moves
    DEF Enroll, GoTo, At, End, documents, managerVars, history, Idle, Decodes,
        Known, CodesAreKnown
  <1>10. CASE Persist
    BY <1>10, Documents, Moves, PersistWrites
    DEF Decodes, Known, CodesAreKnown, Rewrites, At, managerVars, history,
        documents
  <1>11. CASE Interrupt
    BY <1>11, Documents, Moves, Abandoned
    DEF Interrupt, End, Idle, Fault, documents, managerVars, history, Decodes,
        Known, CodesAreKnown
  <1>12. CASE SaveEdit \/ \E endpoint \in EditedEndpoints, expected \in Endpoints :
                           Apply(endpoint, expected)
    BY <1>12, Documents, Moves, Reconfigure
    DEF Decodes, Known, CodesAreKnown, Reconfigures, Rewrites, At, managerVars,
        history, documents
  <1>13. ASSUME NEW new \in Logins, UpdateCredentials(new)
        PROVE  CodesAreKnown'
    BY <1>13, Documents, Moves, UpdateWrites
    DEF Decodes, Known, CodesAreKnown, Keeps, Rewrites, At, managerVars,
        history, documents
  <1>14. ASSUME NEW i \in DOMAIN posts, Land(i)
        PROVE  CodesAreKnown'
    <2>1. /\ UNCHANGED <<identity, bootstrap, command, issued>>
          /\ \A k \in DOMAIN posts' : \E from \in DOMAIN posts : posts'[k] = posts[from]
      BY <1>14, Landed DEF Land, Local, documents
    <2> QED
      BY <2>1 DEF CodesAreKnown, Known, Decodes
  <1> QED
    BY <1>1, <1>2, <1>3, <1>4, <1>5, <1>6, <1>7, <1>8, <1>9, <1>10, <1>11,
        <1>12, <1>13, <1>14 DEF Next

(* The credential changes only by Validate, which sets the old one aside,  *)
(* and a request carries the credential of its time.                       *)
LEMMA OursStep ==
    ASSUME Inv, [Next]_vars
    PROVE  EnrollmentsAreOurs'
  <1> USE DEF Inv
  <1>1. CASE \/ \E input \in Inputs : Import(input)
             \/ Resume
             \/ Rebootstrap
             \/ Preflight
             \/ Enroll
             \/ Clear
             \/ \E e \in EditedEndpoints : Edit(e)
             \/ \E e \in EditedEndpoints : ConfigInit(e)
             \/ RunService
             \/ StopService
             \/ UNCHANGED vars
    <2>1. UNCHANGED <<identity, posts, registered, rotated>>
      BY <1>1
      DEF Import, Given, Elsewhere, Unlocked, Absent, PutBootstrap, Decodes,
          managerVars, Idle, End, Fault, Resume, Enter, documents, history,
          Rebootstrap, At, Preflight, GoTo, Enroll, Clear, Edit, ConfigInit,
          PutSettings, RunService, StopService, vars
    <2> QED
      BY <2>1 DEF EnrollmentsAreOurs, Ours, Mine, Decodes
  <1>2. ASSUME NEW input \in Inputs, input.code \in issued, Pair(input)
        PROVE  EnrollmentsAreOurs'
    BY <1>2, Documents, PairWrites
    DEF Decodes, Mine, Ours, EnrollmentsAreOurs, Keeps, Rewrites, At,
        managerVars, history, documents
  <1>3. ASSUME NEW input \in Inputs, input.code \in issued, Replace(input)
        PROVE  EnrollmentsAreOurs'
    BY <1>3, Documents
    DEF Replace, Enter, Elsewhere, history, Unlocked, managerVars, Idle,
        Decodes, Mine, Ours, EnrollmentsAreOurs
  <1>4. CASE Validate
    <2>1. /\ Decodes(identity')
          /\ identity'.device = identity.device
          /\ UNCHANGED <<posts, registered>>
          /\ \/ identity' = identity /\ rotated' = rotated
             \/ rotated' = rotated \union {identity.credential}
      BY <1>4, ValidateWrites DEF Rewrites, managerVars
    <2>2. ASSUME NEW device, NEW registration, Ours(device, registration)
          PROVE  Ours(device, registration)'
      BY <2>1, <2>2 DEF Ours, Mine
    <2> QED
      BY <2>1, <2>2 DEF EnrollmentsAreOurs
  <1>5. CASE Resolve
    BY <1>5, Documents, ResolveWrites
    DEF Decodes, Mine, Ours, EnrollmentsAreOurs, At, managerVars, history,
        documents
  <1>6. CASE Probe
    BY <1>6, Documents, Sent
    DEF Probe, GoTo, At, documents, managerVars, history, StepsAreReady,
        Decodes, Mine, Ours, EnrollmentsAreOurs
  <1>7. CASE Persist
    BY <1>7, Documents, PersistWrites
    DEF Decodes, Mine, Ours, EnrollmentsAreOurs, Rewrites, At, managerVars,
        history, documents
  <1>8. CASE Interrupt
    <2>1. UNCHANGED <<identity, registered, rotated>>
      BY <1>8 DEF Interrupt, documents, managerVars, history
    <2> QED
      BY <1>8, <2>1, Abandoned DEF EnrollmentsAreOurs, Ours, Mine
  <1>9. CASE SaveEdit \/ \E endpoint \in EditedEndpoints, expected \in Endpoints :
                           Apply(endpoint, expected)
    <2>1. /\ UNCHANGED <<posts, registered, rotated>>
          /\ \/ UNCHANGED identity
             \/ Rewrites(identity', identity.credential, identity.enrolled)
      BY <1>9, Reconfigure DEF Reconfigures, managerVars, history
    <2>2. ASSUME NEW device, NEW registration, Ours(device, registration)
          PROVE  Ours(device, registration)'
      BY <2>1, <2>2, IdentityDecodes DEF Ours, Mine, Rewrites
    <2> QED
      BY <2>1, <2>2 DEF EnrollmentsAreOurs
  <1>10. ASSUME NEW new \in Logins, UpdateCredentials(new)
        PROVE  EnrollmentsAreOurs'
    BY <1>10, Documents, UpdateWrites
    DEF Decodes, Mine, Ours, EnrollmentsAreOurs, Keeps, Rewrites, At,
        managerVars, history, documents
  <1>11. ASSUME NEW code \in Codes, IssueCode(code)
        PROVE  EnrollmentsAreOurs'
    BY <1>11, Documents
    DEF IssueCode, Local, documents, history, Decodes, Mine, Ours,
        EnrollmentsAreOurs
  <1>12. ASSUME NEW i \in DOMAIN posts, Land(i)
        PROVE  EnrollmentsAreOurs'
    <2>1. UNCHANGED <<identity, rotated>>
      BY <1>12 DEF Land, Local, documents, history
    <2>2. \A k \in DOMAIN posts' : \E from \in DOMAIN posts : posts'[k] = posts[from]
      BY <1>12, Landed
    <2>3. ASSUME NEW d \in Devices, registered'[d] # None
          PROVE  registered'[d] = registered[d] \/ (d = posts[i].device /\ registered'[d] = posts[i].as)
      BY <1>12, <2>3 DEF Land, ProvisioningTypeOK
    <2> QED
      BY <2>1, <2>2, <2>3 DEF EnrollmentsAreOurs, Ours, Mine, Decodes
  <1> QED
    BY <1>1, <1>2, <1>3, <1>4, <1>5, <1>6, <1>7, <1>8, <1>9, <1>10, <1>11,
        <1>12 DEF Next

(* One request is sent at a time, and its answer is taken or given up.     *)
LEMMA AwaitedStep ==
    ASSUME Inv, [Next]_vars
    PROVE  OneIsAwaited'
  <1> USE DEF Inv
  <1>1. CASE \/ \E input \in Inputs : Replace(input)
             \/ \E input \in Inputs : Import(input)
             \/ Resume
             \/ Rebootstrap
             \/ Clear
             \/ \E e \in EditedEndpoints : Edit(e)
             \/ \E e \in EditedEndpoints : ConfigInit(e)
             \/ RunService
             \/ StopService
             \/ \E code \in Codes : IssueCode(code)
             \/ UNCHANGED vars
    BY <1>1, Documents, Moves
    DEF Replace, Enter, Elsewhere, history, Unlocked, Decodes, managerVars,
        Idle, Import, Given, Absent, PutBootstrap, End, Fault, Resume,
        documents, Rebootstrap, At, Clear, Edit, ConfigInit, PutSettings,
        RunService, StopService, IssueCode, Local, vars, Mine, OneIsAwaited
  <1>2. ASSUME NEW input \in Inputs, input.code \in issued, Pair(input)
        PROVE  OneIsAwaited'
    BY <1>2, Documents, Moves, PairWrites
    DEF Mine, OneIsAwaited, Keeps, Rewrites, At, managerVars, history,
        documents
  <1>3. CASE Validate
    BY <1>3, Documents, Moves, ValidateWrites
    DEF Mine, OneIsAwaited, Rewrites, At, managerVars, history, documents
  <1>4. CASE Preflight
    BY <1>4, Documents, Moves
    DEF Preflight, GoTo, At, End, Elsewhere, documents, history, Decodes,
        Absent, Idle, managerVars, Mine, OneIsAwaited
  <1>5. CASE Resolve
    BY <1>5, Documents, Moves, ResolveWrites
    DEF Mine, OneIsAwaited, At, managerVars, history, documents
  <1>6. CASE Probe
    <2>1. CASE Recognised
      BY <1>6, <2>1, Moves DEF Probe, At, OneIsAwaited
    <2>2. CASE ~Recognised
      <3>1. /\ At("probe") /\ At("enroll")' /\ UNCHANGED <<answer, identity>>
        BY <1>6, <2>2, Sent, Moves DEF Probe, At, documents
      <3>2. answer' = "none" /\ \A k \in DOMAIN posts : ~posts[k].awaited
        BY <3>1 DEF OneIsAwaited, At
      <3>3. \A k \in DOMAIN posts' : posts'[k].awaited => k = Len(posts) + 1
        BY <1>6, <2>2, <3>2, Sent
      <3>4. posts'[Len(posts) + 1].as = Mine /\ Mine' = Mine
        BY <1>6, <2>2, <3>1, Sent DEF Mine
      <3> QED
        BY <3>1, <3>2, <3>3, <3>4 DEF OneIsAwaited
    <2> QED
      BY <2>1, <2>2
  <1>7. CASE Enroll
    BY <1>7, Documents, Moves
    DEF Enroll, GoTo, At, End, documents, managerVars, history, Idle, Mine,
        OneIsAwaited
  <1>8. CASE Persist
    BY <1>8, Documents, Moves, PersistWrites
    DEF Mine, OneIsAwaited, Rewrites, At, managerVars, history, documents
  <1>9. CASE Interrupt
    BY <1>9, Documents, Moves, Abandoned
    DEF Interrupt, End, Idle, Fault, documents, managerVars, history, Mine,
        OneIsAwaited
  <1>10. CASE SaveEdit \/ \E endpoint \in EditedEndpoints, expected \in Endpoints :
                           Apply(endpoint, expected)
    BY <1>10, Documents, Moves, Reconfigure
    DEF Mine, OneIsAwaited, Reconfigures, Rewrites, At, managerVars, history,
        documents
  <1>11. ASSUME NEW new \in Logins, UpdateCredentials(new)
        PROVE  OneIsAwaited'
    BY <1>11, Documents, Moves, UpdateWrites
    DEF Mine, OneIsAwaited, Keeps, Rewrites, At, managerVars, history,
        documents
  <1>12. ASSUME NEW i \in DOMAIN posts, Land(i)
        PROVE  OneIsAwaited'
    <2>1. UNCHANGED <<identity, command>> /\ Mine' = Mine
      BY <1>12 DEF Land, Local, documents, Mine
    <2>2. \A j \in DOMAIN posts, k \in DOMAIN posts :
              posts[j].awaited /\ posts[k].awaited => j = k
      BY DEF OneIsAwaited
    <2>3. \A k \in DOMAIN posts' : \E from \in DOMAIN posts :
              from # i /\ posts'[k] = posts[from]
      BY <1>12, Landed
    <2>4. \A j \in DOMAIN posts', k \in DOMAIN posts' :
              posts'[j].awaited /\ posts'[k].awaited => j = k
      <3> SUFFICES ASSUME NEW j \in DOMAIN posts', NEW k \in DOMAIN posts',
                          posts'[j].awaited, posts'[k].awaited
                   PROVE  j = k
        OBVIOUS
      <3> DEFINE was(n) == IF n < i THEN n ELSE n + 1
      <3>1. /\ was(j) \in DOMAIN posts /\ was(k) \in DOMAIN posts
            /\ posts'[j] = posts[was(j)] /\ posts'[k] = posts[was(k)]
        BY <1>12, Landed
      <3>2. was(j) = was(k)
        BY <2>2, <3>1
      <3>3. j \in Nat /\ k \in Nat /\ i \in Nat
        BY <1>12, Removed, LenProperties DEF Land, ProvisioningTypeOK
      <3> QED
        BY <3>2, <3>3
    <2>5. CASE posts[i].awaited
      <3>1. \A k \in DOMAIN posts' : ~posts'[k].awaited
        BY <2>2, <2>3, <2>5
      <3>2. At("enroll")'
        BY <2>1, <2>5 DEF OneIsAwaited, At
      <3> QED
        BY <3>1, <3>2 DEF OneIsAwaited
    <2>6. CASE ~posts[i].awaited
      <3>1. answer' = answer
        BY <1>12, <2>6 DEF Land
      <3> QED
        BY <2>1, <2>3, <2>4, <3>1 DEF OneIsAwaited, At
    <2> QED
      BY <2>5, <2>6
  <1> QED
    BY <1>1, <1>2, <1>3, <1>4, <1>5, <1>6, <1>7, <1>8, <1>9, <1>10, <1>11,
        <1>12 DEF Next

(* What makes the Manager enroll the identity uses up the code every other *)
(* request could be enrolled with, and a new code is in no request.        *)
LEMMA SettledStep ==
    ASSUME Inv, [Next]_vars
    PROVE  ConfirmedIsSettled'
  <1> USE DEF Inv
  <1>1. CASE \/ \E input \in Inputs : Replace(input)
             \/ \E input \in Inputs : Import(input)
             \/ Resume
             \/ Rebootstrap
             \/ Clear
             \/ \E e \in EditedEndpoints : Edit(e)
             \/ \E e \in EditedEndpoints : ConfigInit(e)
             \/ RunService
             \/ StopService
             \/ UNCHANGED vars
    BY <1>1, Documents, Moves
    DEF Replace, Enter, Elsewhere, history, Unlocked, managerVars, Idle,
        Import, Given, Absent, PutBootstrap, End, Fault, Resume, documents,
        Rebootstrap, At, Clear, Edit, ConfigInit, PutSettings, RunService,
        StopService, vars, Decodes, Mine, Enrolls, Confirmed,
        ConfirmedIsSettled
  <1>2. ASSUME NEW input \in Inputs, input.code \in issued, Pair(input)
        PROVE  ConfirmedIsSettled'
    BY <1>2, Documents, Moves, PairWrites
    DEF Decodes, Mine, Enrolls, Confirmed, ConfirmedIsSettled, Keeps, Rewrites,
        At, managerVars, history, documents
  <1>3. CASE Validate
    <2>1. /\ command'.step \in {"idle", "preflight"}
          /\ Decodes(identity) /\ identity.enrolled
          /\ UNCHANGED <<posts, answer, valid, registered, accepted>>
          /\ UNCHANGED identity \/ identity'.enrolled = FALSE
      BY <1>3, ValidateWrites, Moves DEF Rewrites, StepsAreReady, managerVars
    <2>2. CASE UNCHANGED identity
      BY <2>1, <2>2 DEF ConfirmedIsSettled, Confirmed, Mine, Enrolls, Decodes, At
    <2>3. CASE identity'.enrolled = FALSE
      BY <2>1, <2>3 DEF ConfirmedIsSettled, Confirmed, At
    <2> QED
      BY <2>1, <2>2, <2>3
  <1>4. CASE Preflight
    BY <1>4, Documents, Moves
    DEF Preflight, GoTo, At, End, Elsewhere, documents, history, Absent, Idle,
        managerVars, Decodes, Mine, Enrolls, Confirmed, ConfirmedIsSettled
  <1>5. CASE Resolve
    BY <1>5, Documents, Moves, ResolveWrites
    DEF Decodes, Mine, Enrolls, Confirmed, ConfirmedIsSettled, At, managerVars,
        history, documents
  <1>6. CASE Probe
    <2>1. At("probe") /\ Decodes(identity) /\ ~identity.enrolled
      BY <1>6 DEF Probe, StepsAreReady
    <2>2. UNCHANGED <<identity, answer, valid, registered, accepted>>
      BY <1>6 DEF Probe, documents, managerVars
    <2>3. CASE Recognised
      <3>1. UNCHANGED posts /\ identity.device \in Devices /\ Mine # None
        BY <1>6, <2>1, <2>3, Documents, Fields DEF Probe
      <3>2. registered[identity.device] = Mine
        BY <2>3 DEF Recognised
      <3>3. identity.credential \in accepted
        BY <3>1, <3>2 DEF CodesAreSingle, Mine
      <3>4. \A c \in valid : CodeDevice[c] # identity.device
        BY <3>1, <3>2 DEF CodesAreSingle
      <3>5. \A k \in DOMAIN posts : posts[k].device = identity.device
        BY DEF EnrollmentsAreOurs, Ours
      <3> QED
        BY <2>2, <3>1, <3>2, <3>3, <3>4, <3>5 DEF ConfirmedIsSettled, Enrolls, Mine
    <2>4. CASE ~Recognised
      <3>1. At("enroll")' /\ answer' # "accepted"
        BY <1>6, <2>1, <2>2, <2>4, Sent, Moves DEF At, OneIsAwaited
      <3> QED
        BY <2>1, <2>2, <3>1 DEF ConfirmedIsSettled, Confirmed, At
    <2> QED
      BY <2>3, <2>4
  <1>7. CASE Enroll
    BY <1>7, Documents, Moves
    DEF Enroll, GoTo, At, End, documents, managerVars, history, Idle, Decodes,
        Mine, Enrolls, Confirmed, ConfirmedIsSettled
  <1>8. CASE Persist
    <2>1. Confirmed
      BY <1>8, PersistWrites DEF Confirmed
    <2>2. /\ Mine' = Mine /\ identity'.device = identity.device
          /\ identity'.credential = identity.credential
          /\ UNCHANGED <<posts, registered, accepted, valid>>
      BY <1>8, PersistWrites DEF Mine, Rewrites, managerVars
    <2> QED
      BY <2>1, <2>2 DEF ConfirmedIsSettled, Enrolls
  <1>9. CASE Interrupt
    <2>1. /\ UNCHANGED <<identity, registered, accepted, valid>>
          /\ command'.step = "idle"
      BY <1>9, Moves DEF Interrupt, documents, managerVars
    <2>2. Confirmed' => Confirmed
      BY <2>1 DEF Confirmed, Decodes, At
    <2> QED
      BY <1>9, <2>1, <2>2, Abandoned DEF ConfirmedIsSettled, Enrolls, Mine
  <1>10. CASE SaveEdit \/ \E endpoint \in EditedEndpoints, expected \in Endpoints :
                           Apply(endpoint, expected)
    BY <1>10, Documents, Moves, Reconfigure
    DEF Decodes, Mine, Enrolls, Confirmed, ConfirmedIsSettled, Reconfigures,
        Rewrites, At, managerVars, history, documents
  <1>11. ASSUME NEW new \in Logins, UpdateCredentials(new)
        PROVE  ConfirmedIsSettled'
    BY <1>11, Documents, Moves, UpdateWrites
    DEF Decodes, Mine, Enrolls, Confirmed, ConfirmedIsSettled, Keeps, Rewrites,
        At, managerVars, history, documents
  <1>12. ASSUME NEW code \in Codes, IssueCode(code)
        PROVE  ConfirmedIsSettled'
    <2>1. UNCHANGED <<identity, command, answer, posts, accepted>> /\ Mine' = Mine
      BY <1>12 DEF IssueCode, Local, documents, Mine
    <2>2. \A k \in DOMAIN posts : Enrolls(posts[k])' => Enrolls(posts[k])
      BY <1>12, <2>1, Documents DEF IssueCode, Enrolls, CodesAreKnown, Known
    <2>3. \A d \in Devices : registered'[d] \in {registered[d], None}
      BY <1>12, Fields DEF IssueCode, ProvisioningTypeOK
    <2>4. Decodes(identity) => identity.device \in Devices
      BY Documents, Fields
    <2> QED
      BY <2>1, <2>2, <2>3, <2>4 DEF ConfirmedIsSettled, Confirmed, Decodes, At
  <1>13. ASSUME NEW i \in DOMAIN posts, Land(i)
        PROVE  ConfirmedIsSettled'
    <2>1. UNCHANGED <<identity, command>> /\ Mine' = Mine
      BY <1>13 DEF Land, Local, documents, Mine
    <2>2. \A k \in DOMAIN posts' : \E from \in DOMAIN posts :
              from # i /\ posts'[k] = posts[from]
      BY <1>13, Landed
    <2>3. CASE ~Enrolls(posts[i])
      <3>1. UNCHANGED <<valid, registered, accepted>> /\ answer' \in {answer, "rejected"}
        BY <1>13, <2>3 DEF Land, Enrolls
      <3>2. Confirmed' => Confirmed
        BY <2>1, <3>1 DEF Confirmed, Decodes, At
      <3> QED
        BY <2>1, <2>2, <3>1, <3>2 DEF ConfirmedIsSettled, Enrolls
    <2>4. CASE Enrolls(posts[i])
      <3>1. /\ valid' = valid \ {posts[i].code}
            /\ registered' = [registered EXCEPT ![posts[i].device] = posts[i].as]
            /\ accepted' = accepted \union {posts[i].as.credential}
            /\ answer' = IF ~posts[i].awaited THEN answer ELSE "accepted"
        BY <1>13, <2>4 DEF Land, Enrolls
      <3>2. ~Confirmed
        BY <2>4 DEF ConfirmedIsSettled
      <3>3. CASE ~posts[i].awaited
        BY <2>1, <3>1, <3>2, <3>3 DEF ConfirmedIsSettled, Confirmed, Decodes, At
      <3>4. CASE posts[i].awaited
        <4>1. /\ posts[i].as = Mine /\ posts[i].device = identity.device
              /\ Decodes(identity)
          BY <3>4 DEF OneIsAwaited, EnrollmentsAreOurs, Ours
        <4>2. identity.device \in Devices
          BY <4>1, Documents, Fields
        <4>3. identity.credential \in accepted' /\ registered'[identity.device] = Mine
          BY <3>1, <4>1, <4>2 DEF Mine, ProvisioningTypeOK
        <4>4. \A k \in DOMAIN posts : posts[k].device = identity.device
          BY DEF EnrollmentsAreOurs, Ours
        <4>5. \A c \in valid' : CodeDevice[c] # identity.device
          BY <2>4, <3>1, <4>1 DEF CodesAreSingle, Enrolls
        <4> QED
          BY <2>1, <2>2, <4>3, <4>4, <4>5 DEF ConfirmedIsSettled, Enrolls
      <3> QED
        BY <3>3, <3>4
    <2> QED
      BY <2>3, <2>4
  <1> QED
    BY <1>1, <1>2, <1>3, <1>4, <1>5, <1>6, <1>7, <1>8, <1>9, <1>10, <1>11,
        <1>12, <1>13 DEF Next

(***************************************************************************)
(* The theorems                                                            *)
(***************************************************************************)

(* Nothing is paired, running or on the way at first.                      *)
LEMMA InitInv == Init => Inv
  <1> SUFFICES ASSUME Init PROVE Inv
    OBVIOUS
  <1>1. ProvisioningTypeOK
    BY InitType
  <1>2. /\ ~Decodes(identity) /\ ~Decodes(bootstrap)
        /\ command.step = "idle" /\ command.input = None
        /\ DOMAIN posts = {} /\ valid = {} /\ running = None /\ answer = "none"
        /\ \A d \in Devices : registered[d] = None
    BY DEF Init, Idle, Decodes
  <1>3. StepsAreReady /\ LockIsHeld /\ LoginIsHeld /\ CodesAreKnown
    BY <1>2 DEF StepsAreReady, LockIsHeld, LoginIsHeld, CodesAreKnown, At
  <1>4. CodesAreSingle /\ EnrollmentsAreOurs /\ OneIsAwaited /\ ConfirmedIsSettled
    BY <1>2 DEF CodesAreSingle, EnrollmentsAreOurs, OneIsAwaited, ConfirmedIsSettled,
                Confirmed, At
  <1> QED
    BY <1>1, <1>3, <1>4 DEF Inv

(* Inv holds in every state of every behaviour.                            *)
THEOREM Invariance == Spec => []Inv
  <1>1. Init => Inv
    BY InitInv
  <1>2. Inv /\ [Next]_vars => Inv'
    BY TypeStep, LockStep, CodesStep, LoginStep, ReadyStep, KnownStep, OursStep,
       AwaitedStep, SettledStep
    DEF Inv
  <1> QED
    BY <1>1, <1>2, PTL DEF Spec

(* ProvisioningTypeOK: the documents, requests and answers have their      *)
(* types, whatever was entered, interrupted or lost.                       *)
THEOREM TypeCorrect == Spec => []ProvisioningTypeOK
  <1>1. Inv => ProvisioningTypeOK
    BY DEF Inv
  <1> QED
    BY <1>1, Invariance, PTL

(* AcceptedCredentialIsKept: the identity document holds the credential    *)
(* the Manager enrolled, or it was replaced on purpose (execute_pair and   *)
(* provision, however often they are interrupted and resumed).             *)
THEOREM AcceptedIsKept == Spec => []AcceptedCredentialIsKept
  <1>1. Inv => AcceptedCredentialIsKept
    BY DEF Inv, EnrollmentsAreOurs, Ours, AcceptedCredentialIsKept
  <1> QED
    BY <1>1, Invariance, PTL

(* EnrolledIsAccepted: an identity marked as enrolled was accepted, and no *)
(* late request of an earlier attempt displaces it at the Manager.         *)
THEOREM EnrolledWasAccepted == Spec => []EnrolledIsAccepted
  <1>1. Inv => EnrolledIsAccepted
    BY DEF Inv, ConfirmedIsSettled, Confirmed, EnrolledIsAccepted
  <1> QED
    BY <1>1, Invariance, PTL

(* LoginIsCurrent: no edit that began before a login was given brings an   *)
(* older login back (edit_config, save_config, update_credentials).        *)
THEOREM LoginStaysCurrent == Spec => []LoginIsCurrent
  <1>1. Inv => LoginIsCurrent
    BY DEF Inv, LoginIsHeld, LoginIsCurrent
  <1> QED
    BY <1>1, Invariance, PTL

(* RunsWithItsIdentity: the maintenance lock keeps every writer from the   *)
(* identity the service runs with.                                         *)
THEOREM ServiceKeepsIdentity == Spec => []RunsWithItsIdentity
  <1>1. Inv => RunsWithItsIdentity
    BY DEF Inv, LockIsHeld, RunsWithItsIdentity
  <1> QED
    BY <1>1, Invariance, PTL
=============================================================================
