---------------------------- MODULE PublisherProofs ----------------------------
(***************************************************************************)
(* Proofs about publishing, for any number of calls, messages, middleware,  *)
(* topics and set-ups, of any kind, and for any number of failures.         *)
(***************************************************************************)
EXTENDS Publisher, TLAPS

(* Every message: its links are dispatched one after the other, and only    *)
(* once its call has got to sending; the broker has it only when the        *)
(* innermost handler was dispatched, and not before that has asked.         *)
SendSound(m) ==
    /\ \A k \in 1 .. Handler : link[m][k] # "off" => k <= index[m]
    /\ call[callOf[m]] \in {"idle", "setup"} => index[m] = 0
    /\ call[callOf[m]] \in {"sending", "success"} => index[m] # 0
    /\ work[m] # "begin" => Handling(m)
    /\ link[m][Handler] = "off" => sent[m] = 0
    /\ Handling(m) => (sent[m] = 1 <=> work[m] = "attributes")

SendsSound == \A m \in Sends : SendSound(m)

LEMMA Links == Handler \in Nat /\ Handler \in 1 .. Handler /\ 1 \in 1 .. Handler /\ Handler \notin Chain
BY MiddlewareAssumption DEF Handler, Chain

(* Every link of the chain has a next one.                                  *)
LEMMA NextLinks == \A k \in Chain : k \in 1 .. Handler /\ k + 1 \in 1 .. Handler
BY MiddlewareAssumption DEF Handler, Chain

LEMMA Setters == Calls \subseteq Setups /\ Sends \subseteq Setups /\ Consumers \subseteq Setups
BY PublisherAssumption

LEMMA CallTypes == ASSUME TypeOK, NEW m \in Sends PROVE callOf[m] \in Calls
BY PublisherAssumption DEF TypeOK

-----------------------------------------------------------------------------
(* The set-ups keep the types of their state.                               *)
LEMMA FaultTypes == ASSUME faults \in 0 .. MaxFaults, Fault \/ Fine PROVE faults' \in 0 .. MaxFaults
BY QueuesAssumption DEF Fault, Fine

LEMMA BeginTypes == ASSUME QTypeOK, NEW s \in Setups, Begin(s) PROVE QTypeOK'
<1>1. First(s) \in Stage
    BY DEF First, AfterUrl, Stage
<1>2. QED
    BY <1>1 DEF Begin, To, QTypeOK, configured

LEMMA SetupTypes ==
    ASSUME QTypeOK, NEW s \in Setups, SetupStep(s)
    PROVE  QTypeOK'
<1> USE DEF QTypeOK, To, NewSet, configured
<1>0. /\ Topic[s] \in Topics
      /\ AfterUrl(s) \in Stage
      /\ \A st \in Stage : [stage EXCEPT ![s] = st] \in [Setups -> Stage]
    BY QueuesAssumption DEF AfterUrl, Stage
<1> DEFINE named == {"url", "dlqUrl", "dlqCreate", "arn", "create", "list", "connecting", "ok", "bad"}
<1>s. named \subseteq Stage
    BY DEF Stage
<1>1. CASE GetUrl(s)
    BY <1>0, <1>1, <1>s, FaultTypes DEF GetUrl
<1>2. CASE GetDlqUrl(s)
    BY <1>0, <1>2, <1>s, FaultTypes DEF GetDlqUrl
<1>3. CASE CreateDlq(s)
    BY <1>0, <1>3, <1>s, FaultTypes DEF CreateDlq
<1>4. CASE GetArn(s)
    BY <1>0, <1>4, <1>s, FaultTypes DEF GetArn
<1>5. CASE CreateQueue(s)
    <2>1. CreateWithPolicy(s) => queues' \in SUBSET Topics /\ redrive' \in SUBSET Topics
        BY <1>0 DEF CreateWithPolicy
    <2>2. QED
        BY <1>0, <1>5, <2>1, <1>s, FaultTypes DEF CreateQueue
<1>6. CASE ListQueues(s)
    BY <1>0, <1>6, <1>s, FaultTypes DEF ListQueues
<1>7. CASE CreateLands(s)
    BY <1>0, <1>7, FaultTypes DEF CreateLands
<1>8. CASE CreateOnce(s)
    BY <1>0, <1>8, <1>s, FaultTypes DEF CreateOnce
<1>9. CASE ConnectFails(s)
    BY <1>0, <1>9, <1>s DEF ConnectFails
<1>10. QED
    BY <1>1, <1>2, <1>3, <1>4, <1>5, <1>6, <1>7, <1>8, <1>9 DEF SetupStep

LEMMA ConnectionTypes == ASSUME QTypeOK, Ready \/ Disconnect PROVE QTypeOK'
<1>1. CASE Ready
    BY <1>1 DEF Ready, QTypeOK, configured, Stage
<1>2. CASE Disconnect
    BY <1>2, FaultTypes DEF Disconnect, QTypeOK, configured
<1>3. QED
    BY <1>1, <1>2

-----------------------------------------------------------------------------
(* What the steps do to the chains.                                         *)

LEMMA SendAllEffect ==
    ASSUME TypeOK, NEW c \in Calls, SendAll(c)
    PROVE  /\ MwTypeOK'
           /\ nature' = nature
           /\ \A m \in Sends \ SendsOf(c) : index'[m] = index[m] /\ link'[m] = link[m]
           /\ \A m \in SendsOf(c) :
                 /\ index'[m] = 1
                 /\ link'[m][1] = IF Lacking(1) THEN "ok" ELSE "running"
                 /\ \A k \in 1 .. Handler : k # 1 => link'[m][k] = link[m][k]
<1>1. Runs = Sends
    BY PublisherAssumption
<1>2. 1 \in 0 .. Handler
    BY Links
<1>3. index' \in [Runs -> 0 .. Handler]
    BY <1>1, <1>2 DEF TypeOK, MwTypeOK, SendAll
<1>4. link' \in [Runs -> [1 .. Handler -> {"off", "running", "ok", "bad"}]]
    BY <1>1, Links DEF TypeOK, MwTypeOK, SendAll
<1>5. QED
    BY <1>1, <1>3, <1>4, Links DEF TypeOK, MwTypeOK, SendAll, SendsOf

LEMMA EndsEffect ==
    ASSUME TypeOK, NEW m \in Sends, NEW k \in 1 .. Handler, NEW result \in {"ok", "bad"},
           Ends(m, k, result), UNCHANGED <<nature, index>>
    PROVE  /\ MwTypeOK'
           /\ link'[m][k] = result
           /\ \A x \in Sends, j \in 1 .. Handler : <<x, j>> # <<m, k>> => link'[x][j] = link[x][j]
<1>1. Runs = Sends
    BY PublisherAssumption
<1>2. QED
    BY <1>1 DEF TypeOK, MwTypeOK, Ends

LEMMA DispatchEffect ==
    ASSUME TypeOK, NEW m \in Sends, NEW k \in 1 .. Handler, Dispatch(m, k)
    PROVE  /\ MwTypeOK'
           /\ nature' = nature
           /\ k > index[m] /\ index'[m] = k
           /\ link'[m][k] = IF Lacking(k) THEN "ok" ELSE "running"
           /\ \A x \in Sends \ {m} : index'[x] = index[x]
           /\ \A x \in Sends, j \in 1 .. Handler : <<x, j>> # <<m, k>> => link'[x][j] = link[x][j]
<1>1. Runs = Sends
    BY PublisherAssumption
<1>2. 1 .. Handler \subseteq 0 .. Handler
    OBVIOUS
<1>3. QED
    BY <1>1, <1>2 DEF TypeOK, MwTypeOK, Dispatch

(* A step of a chain, of one of its functions.                              *)
LEMMA ChainStepCases ==
    ASSUME NEW m \in Sends, ChainStep(m),
           NEW P,
           ASSUME NEW k \in Chain, CallNext(m, k), Dispatch(m, k + 1) PROVE P,
           ASSUME NEW k \in Chain, NEW result \in {"ok", "bad"}, link[m][k] = "running",
                  nature[k] = "wild" \/ link[m][k + 1] = result,
                  Ends(m, k, result), UNCHANGED <<nature, index>>
           PROVE  P
    PROVE  P
<1>1. PICK k \in Chain : CallNext(m, k) \/ Return(m, k)
    BY DEF ChainStep
<1>2. CASE CallNext(m, k)
    BY <1>2 DEF CallNext
<1>3. CASE Return(m, k)
    BY <1>3 DEF Return
<1>4. QED
    BY <1>1, <1>2, <1>3

-----------------------------------------------------------------------------
LEMMA StepTypes ==
    ASSUME TypeOK, SendsSound, [Next]_vars
    PROVE  TypeOK'
<1>0. Runs = Sends
    BY PublisherAssumption
<1> DEFINE R == callOf' \in Plans /\ call' \in [Calls -> {"idle", "setup", "sending", "success", "failure"}]
           W == work' \in [Sends -> {"begin", "setup", "send", "attributes"}] /\ sent' \in [Sends -> 0 .. 1]
<1>1. CASE UNCHANGED vars
    BY <1>1 DEF vars, TypeOK, MwTypeOK, QTypeOK, mwVars, queueVars, configured
<1>2. ASSUME UNCHANGED callOf, NEW c \in Calls, CallStep(c)
      PROVE  TypeOK'
    <2> c \in Setups
        BY Setters
    <2>1. QTypeOK'
        BY <1>2, BeginTypes
        DEF TypeOK, QTypeOK, CallStep, CallBegins, CallContinues, CallEnds, queueVars, configured
    <2>2. MwTypeOK'
        BY <1>2, SendAllEffect
        DEF TypeOK, MwTypeOK, CallStep, CallBegins, CallContinues, CallEnds, mwVars
    <2>3. R /\ W
        BY <1>2 DEF TypeOK, CallStep, CallBegins, CallContinues, CallEnds, Goes
    <2>4. QED
        BY <2>1, <2>2, <2>3 DEF TypeOK
<1>3. ASSUME UNCHANGED callOf, NEW m \in Sends, SendStep(m)
      PROVE  TypeOK'
    <2> m \in Setups
        BY Setters
    <2>1. QTypeOK'
        BY <1>3, BeginTypes, FaultTypes
        DEF TypeOK, QTypeOK, SendStep, HandlerBegins, HandlerContinues, Sent, Refused, GetAttributes,
            queueVars, configured
    <2>2. MwTypeOK'
        <3>1. CASE UNCHANGED mwVars
            BY <3>1 DEF TypeOK, MwTypeOK, mwVars
        <3>2. ASSUME NEW result \in {"ok", "bad"}, HandlerEnds(m, result)
              PROVE  MwTypeOK'
            BY <3>2, EndsEffect, Links DEF HandlerEnds
        <3>3. QED
            BY <1>3, <3>1, <3>2
            DEF SendStep, HandlerBegins, HandlerContinues, Sent, Refused, GetAttributes
    <2>3. SendSound(m) /\ sent[m] \in 0 .. 1
        BY DEF SendsSound, TypeOK
    <2>4. sent' \in [Sends -> 0 .. 1]
        <3>1. ASSUME Handling(m), work[m] = "send", Arrives(m)
              PROVE  sent' \in [Sends -> 0 .. 1]
            <4>1. sent[m] = 0
                BY <2>3, <3>1 DEF SendSound
            <4>2. QED
                BY <3>1, <4>1 DEF Arrives, TypeOK
        <3>2. QED
            BY <1>3, <3>1 DEF TypeOK, SendStep, HandlerBegins, HandlerContinues, Sent, Refused, GetAttributes
    <2>5. work' \in [Sends -> {"begin", "setup", "send", "attributes"}] /\ R
        BY <1>3 DEF TypeOK, SendStep, HandlerBegins, HandlerContinues, Sent, Refused, GetAttributes, Works, HandlerEnds
    <2>6. QED
        BY <2>1, <2>2, <2>4, <2>5 DEF TypeOK
<1>4. ASSUME UNCHANGED callOf, NEW m \in Sends, ChainStep(m)
      PROVE  TypeOK'
    <2>1. MwTypeOK'
        <3>1. ASSUME NEW k \in Chain, Dispatch(m, k + 1)
              PROVE  MwTypeOK'
            BY <3>1, NextLinks, DispatchEffect
        <3>2. ASSUME NEW k \in Chain, NEW result \in {"ok", "bad"},
                     Ends(m, k, result), UNCHANGED <<nature, index>>
              PROVE  MwTypeOK'
            BY <3>2, NextLinks, EndsEffect
        <3>3. QED
            BY <1>4, <3>1, <3>2, ChainStepCases
    <2>2. QED
        BY <1>4, <2>1 DEF ChainStep, TypeOK, QTypeOK, queueVars, configured
<1>5. ASSUME UNCHANGED callOf, NEW s \in Setups, QueueStep(s)
      PROVE  TypeOK'
    BY <1>5, SetupTypes DEF QueueStep, TypeOK, MwTypeOK, mwVars
<1>6. ASSUME UNCHANGED callOf, NEW s \in Consumers, RunnerCreatesQueue(s)
      PROVE  TypeOK'
    BY <1>6, BeginTypes, Setters DEF RunnerCreatesQueue, TypeOK, MwTypeOK, mwVars
<1>7. CASE UNCHANGED callOf /\ (Ready \/ Disconnect) /\ UNCHANGED <<mwVars, call, work, sent>>
    BY <1>7, ConnectionTypes DEF TypeOK, MwTypeOK, mwVars
<1>8. QED
    BY <1>1, <1>2, <1>3, <1>4, <1>5, <1>6, <1>7 DEF Next, Step

-----------------------------------------------------------------------------
(* A message that a step does nothing to stays sound.                       *)
LEMMA StaysSound ==
    ASSUME NEW m \in Sends, SendSound(m), UNCHANGED callOf,
           index'[m] = index[m], \A k \in 1 .. Handler : link'[m][k] = link[m][k],
           work'[m] = work[m], sent'[m] = sent[m],
           call'[callOf[m]] \in {"idle", "setup"} => call[callOf[m]] \in {"idle", "setup"},
           call'[callOf[m]] \in {"sending", "success"} => call[callOf[m]] \in {"sending", "success"}
    PROVE  SendSound(m)'
BY Links DEF SendSound, Handling

LEMMA CallStepSound ==
    ASSUME TypeOK, SendsSound, UNCHANGED callOf, NEW c \in Calls, CallStep(c)
    PROVE  SendsSound'
<1> SUFFICES ASSUME NEW m \in Sends
             PROVE  SendSound(m)'
    BY DEF SendsSound
<1>0. SendSound(m) /\ callOf[m] \in Calls
    BY CallTypes DEF SendsSound
<1>1. UNCHANGED <<work, sent>>
    BY DEF CallStep, CallBegins, CallContinues, CallEnds
<1>2. CASE callOf[m] # c
    <2>1. call'[callOf[m]] = call[callOf[m]]
        BY <1>0, <1>2 DEF CallStep, CallBegins, CallContinues, CallEnds, Goes, TypeOK
    <2>2. index'[m] = index[m] /\ link'[m] = link[m]
        BY <1>2, SendAllEffect DEF CallStep, CallBegins, CallContinues, CallEnds, mwVars, SendsOf
    <2>3. QED
        BY <1>0, <1>1, <2>1, <2>2, StaysSound
<1>3. CASE callOf[m] = c /\ SendAll(c) /\ call[c] \in {"idle", "setup"} /\ Goes(c, "sending")
    <2>1. index[m] = 0
        BY <1>0, <1>3 DEF SendSound
    <2>2. \A k \in 1 .. Handler : link[m][k] = "off"
        BY <1>0, <2>1, Links DEF SendSound
    <2>3. index'[m] = 1 /\ \A k \in 1 .. Handler : k # 1 => link'[m][k] = "off"
        BY <1>3, <2>2, SendAllEffect DEF SendsOf
    <2>4. call'[c] = "sending"
        BY <1>3 DEF Goes, TypeOK
    <2>5. work[m] = "begin" /\ sent[m] = 0
        BY <1>0, <2>2, Links DEF SendSound, Handling
    <2>6. QED
        BY <1>1, <1>3, <2>3, <2>4, <2>5, Links DEF SendSound, Handling
<1>4. CASE callOf[m] = c /\ UNCHANGED mwVars
           /\ (call'[c] \in {"idle", "setup"} => call[c] \in {"idle", "setup"})
           /\ (call'[c] \in {"sending", "success"} => call[c] \in {"sending", "success"})
    BY <1>0, <1>1, <1>4, StaysSound DEF mwVars
<1>5. CASE callOf[m] = c /\ CallBegins(c)
    <2>1. call[c] = "idle" /\ (Goes(c, "setup") => call'[c] = "setup")
        BY <1>5 DEF CallBegins, Goes, TypeOK
    <2>2. QED
        BY <1>3, <1>4, <1>5, <2>1 DEF CallBegins
<1>6. CASE callOf[m] = c /\ CallContinues(c)
    <2>1. call[c] = "setup" /\ (Goes(c, "failure") => call'[c] = "failure")
        BY <1>6 DEF CallContinues, Goes, TypeOK
    <2>2. QED
        BY <1>3, <1>4, <1>6, <2>1 DEF CallContinues
<1>7. CASE callOf[m] = c /\ CallEnds(c)
    <2>1. call[c] = "sending" /\ UNCHANGED mwVars /\ call'[c] \in {"failure", "success"}
        BY <1>7 DEF CallEnds, Goes, TypeOK
    <2>2. QED
        BY <1>4, <1>7, <2>1
<1>8. QED
    BY <1>2, <1>5, <1>6, <1>7 DEF CallStep

LEMMA SendStepSound ==
    ASSUME TypeOK, SendsSound, UNCHANGED callOf, NEW n \in Sends, SendStep(n)
    PROVE  SendsSound'
<1> SUFFICES ASSUME NEW m \in Sends
             PROVE  SendSound(m)'
    BY DEF SendsSound
<1>0. SendSound(m) /\ sent[m] \in 0 .. 1 /\ work[m] \in {"begin", "setup", "send", "attributes"}
    BY DEF SendsSound, TypeOK
<1>1. UNCHANGED <<index, call>> /\ Handling(n)
    BY DEF SendStep, HandlerBegins, HandlerContinues, Sent, Refused, GetAttributes, HandlerEnds, mwVars
<1>2. CASE m # n
    <2>1. work'[m] = work[m] /\ sent'[m] = sent[m]
        BY <1>2 DEF SendStep, HandlerBegins, HandlerContinues, Sent, Refused, GetAttributes,
                    HandlerEnds, Works, Arrives, TypeOK
    <2>2. \A k \in 1 .. Handler : link'[m][k] = link[m][k]
        <3>1. CASE UNCHANGED mwVars
            BY <3>1 DEF mwVars
        <3>2. ASSUME NEW result \in {"ok", "bad"}, HandlerEnds(n, result)
              PROVE  \A k \in 1 .. Handler : link'[m][k] = link[m][k]
            BY <1>2, <3>2, EndsEffect, Links DEF HandlerEnds
        <3>3. QED
            BY <3>1, <3>2 DEF SendStep, HandlerBegins, HandlerContinues, Sent, Refused, GetAttributes
    <2>3. QED
        BY <1>0, <1>1, <2>1, <2>2, StaysSound
<1>3. CASE m = n
    <2>1. ASSUME NEW result \in {"ok", "bad"}, HandlerEnds(m, result)
          PROVE  SendSound(m)'
        <3>1. link'[m][Handler] = result
              /\ \A k \in 1 .. Handler : k # Handler => link'[m][k] = link[m][k]
            BY <2>1, EndsEffect, Links DEF HandlerEnds
        <3>2. work'[m] = "begin"
            BY <2>1 DEF HandlerEnds, Works, TypeOK
        <3>3. QED
            BY <1>0, <1>1, <1>3, <3>1, <3>2, Links DEF SendSound, Handling
    <2>2. CASE UNCHANGED mwVars
        <3>1. ASSUME NEW st \in {"setup", "send"}, work[m] \in {"begin", "setup"}, Works(m, st), UNCHANGED sent
              PROVE  SendSound(m)'
            BY <1>0, <1>1, <1>3, <2>2, <3>1 DEF Works, SendSound, Handling, TypeOK, mwVars
        <3>2. ASSUME work[m] = "send", Arrives(m), Works(m, "attributes")
              PROVE  SendSound(m)'
            BY <1>0, <1>1, <1>3, <2>2, <3>2 DEF Works, Arrives, SendSound, Handling, TypeOK, mwVars
        <3>3. QED
            BY <1>3, <2>1, <2>2, <3>1, <3>2
            DEF SendStep, HandlerBegins, HandlerContinues, Sent, Refused, GetAttributes
    <2>3. QED
        BY <1>3, <2>1, <2>2 DEF SendStep, HandlerBegins, HandlerContinues, Sent, Refused, GetAttributes
<1>4. QED
    BY <1>2, <1>3

LEMMA ChainStepSound ==
    ASSUME TypeOK, SendsSound, UNCHANGED callOf, NEW n \in Sends, ChainStep(n)
    PROVE  SendsSound'
<1> SUFFICES ASSUME NEW m \in Sends
             PROVE  SendSound(m)'
    BY DEF SendsSound
<1>0. SendSound(m) /\ index[m] \in 0 .. Handler /\ Runs = Sends
    BY PublisherAssumption DEF SendsSound, TypeOK, MwTypeOK
<1>1. UNCHANGED <<call, work, sent>>
    BY DEF ChainStep
<1>2. ASSUME NEW k \in Chain, CallNext(n, k), Dispatch(n, k + 1)
      PROVE  SendSound(m)'
    <2>1. k + 1 \in 1 .. Handler /\ k \in 1 .. Handler
        BY NextLinks
    <2>2. CASE m # n
        BY <1>0, <1>1, <1>2, <2>1, <2>2, DispatchEffect, StaysSound
    <2>3. CASE m = n
        <3>1. k + 1 > index[m] /\ index'[m] = k + 1
              /\ \A j \in 1 .. Handler : j # k + 1 => link'[m][j] = link[m][j]
            BY <1>2, <2>1, <2>3, DispatchEffect
        <3>2. link[m][k] # "off"
            BY <1>2, <2>3 DEF CallNext
        <3>3. k <= index[m] /\ link[m][k + 1] = "off"
            BY <1>0, <2>1, <3>1, <3>2 DEF SendSound
        <3>4. index[m] # 0 /\ index'[m] # 0
            BY <1>0, <2>1, <3>1, <3>3
        <3>5. \A j \in 1 .. Handler : link'[m][j] # "off" => j <= index'[m]
            BY <1>0, <2>1, <3>1, <3>3 DEF SendSound
        <3>6. CASE k + 1 = Handler
            <4>1. link'[m][Handler] = "running"
                BY <1>2, <2>1, <2>3, <3>6, DispatchEffect, Links DEF Lacking
            <4>2. work[m] = "begin" /\ sent[m] = 0
                BY <1>0, <3>3, <3>6 DEF SendSound, Handling
            <4>3. QED
                BY <1>0, <1>1, <3>4, <3>5, <4>1, <4>2 DEF SendSound, Handling
        <3>7. CASE k + 1 # Handler
            <4>1. link'[m][Handler] = link[m][Handler]
                BY <3>1, <3>7, Links
            <4>2. QED
                BY <1>0, <1>1, <3>4, <3>5, <4>1 DEF SendSound, Handling
        <3>8. QED
            BY <3>6, <3>7
    <2>4. QED
        BY <2>2, <2>3
<1>3. ASSUME NEW k \in Chain, NEW result \in {"ok", "bad"}, link[n][k] = "running",
             Ends(n, k, result), UNCHANGED <<nature, index>>
      PROVE  SendSound(m)'
    <2>1. k \in 1 .. Handler /\ k # Handler
        BY NextLinks, Links
    <2>2. \A j \in 1 .. Handler : link'[m][j] = link[m][j] \/ (m = n /\ j = k)
        BY <1>3, <2>1, EndsEffect
    <2>3. link'[m][Handler] = link[m][Handler]
        BY <2>1, <2>2, Links
    <2>4. \A j \in 1 .. Handler : link'[m][j] # "off" => j <= index'[m]
        BY <1>0, <1>3, <2>1, <2>2 DEF SendSound
    <2>5. QED
        BY <1>0, <1>1, <1>3, <2>3, <2>4 DEF SendSound, Handling
<1>4. QED
    BY <1>2, <1>3, ChainStepCases

LEMMA OthersSound ==
    ASSUME SendsSound, UNCHANGED <<mwVars, callOf, call, work, sent>>
    PROVE  SendsSound'
BY DEF SendsSound, SendSound, Handling, mwVars

LEMMA StepSound ==
    ASSUME TypeOK, SendsSound, [Next]_vars
    PROVE  SendsSound'
<1>1. CASE UNCHANGED vars
    BY <1>1, OthersSound DEF vars
<1>2. CASE Next
    BY <1>2, CallStepSound, SendStepSound, ChainStepSound, OthersSound
    DEF Next, Step, QueueStep, RunnerCreatesQueue
<1>3. QED
    BY <1>1, <1>2

LEMMA InitSound == Init => TypeOK /\ SendsSound
<1> SUFFICES ASSUME Init
             PROVE  TypeOK /\ SendsSound
    OBVIOUS
<1>1. TypeOK
    BY PublisherAssumption, QueuesAssumption, MiddlewareAssumption, Links
    DEF Init, MwInit, QInit, TypeOK, MwTypeOK, QTypeOK, Stage
<1>2. SendsSound
    BY <1>1, CallTypes, Links, PublisherAssumption DEF Init, MwInit, SendsSound, SendSound, Handling
<1>3. QED
    BY <1>1, <1>2

(* The state of the calls, the chains, the set-ups and the producers is     *)
(* always of its type.                                                      *)
THEOREM PublisherTypes == SafeSpec => [](TypeOK /\ SendsSound)
<1>1. TypeOK /\ SendsSound /\ [Next]_vars => (TypeOK /\ SendsSound)'
    BY StepTypes, StepSound
<1>2. QED
    BY <1>1, InitSound, PTL DEF SafeSpec

(* Whatever the middleware does and however calls, set-ups and failures     *)
(* interleave: a send() hands its message to the broker at most once        *)
(* (composePublish): the handler is dispatched when it was not before, and  *)
(* only asks once.                                                          *)
THEOREM SentOnce == SafeSpec => []DeliveredOnce
<1>1. TypeOK => DeliveredOnce
    BY DEF TypeOK, DeliveredOnce
<1>2. QED
    BY <1>1, PublisherTypes, PTL

-----------------------------------------------------------------------------
(* Dead letter queues: a set-up that goes on to create the queue of a task  *)
(* that is to have one has its policy, and whoever has a policy, or asks    *)
(* for the ARN, has found the dead letter queue or created it.              *)
RedriveSound ==
    /\ creating = {}
    /\ \A s \in Setups :
          /\ stage[s] # "list"
          /\ stage[s] = "arn" \/ s \in policy => Topic[s] \in dlqs
          /\ stage[s] = "create" /\ SupportsDlq(s) => s \in policy
    /\ \A t \in (WithDlq \ fifo) \cap queues : t \in redrive /\ t \in dlqs

RedriveInv == engine = "sqs" => RedriveSound

(* A set-up that gets to another stage, of what exists already.             *)
LEMMA StageSound ==
    ASSUME TypeOK, RedriveSound, UNCHANGED <<configured, queues, dlqs, redrive, policy, creating>>,
           NEW s \in Setups, NEW st, To(s, st),
           st # "list",
           st = "arn" => Topic[s] \in dlqs,
           st = "create" => ~SupportsDlq(s) \/ s \in policy
    PROVE  RedriveSound'
BY DEF RedriveSound, To, SupportsDlq, TypeOK, QTypeOK, configured

LEMMA BeginSound ==
    ASSUME TypeOK, RedriveInv, NEW s \in Setups, Begin(s)
    PROVE  RedriveInv'
<1>1. SUFFICES ASSUME engine = "sqs"
               PROVE  RedriveSound'
    BY DEF RedriveInv, Begin, configured
<1>2. First(s) = IF s \in Consumers THEN AfterUrl(s) ELSE "url"
    BY <1>1 DEF First
<1>3. First(s) \in {"url", "dlqUrl", "create"} /\ (First(s) = "create" => ~SupportsDlq(s))
    BY <1>2 DEF AfterUrl
<1>4. QED
    BY <1>1, <1>3, StageSound DEF Begin, RedriveInv

LEMMA SetupSound ==
    ASSUME TypeOK, RedriveInv, NEW s \in Setups, SetupStep(s)
    PROVE  RedriveInv'
<1> UNCHANGED configured
    BY DEF SetupStep, GetUrl, GetDlqUrl, CreateDlq, GetArn, CreateQueue, ListQueues, CreateLands, CreateOnce,
           ConnectFails
<1> SUFFICES ASSUME engine = "sqs"
             PROVE  RedriveSound'
    BY DEF RedriveInv, configured
<1>0. RedriveSound /\ Topic[s] \in Topics
    BY QueuesAssumption DEF RedriveInv
<1>1. CASE GetUrl(s)
    BY <1>0, <1>1, StageSound DEF GetUrl, AfterUrl
<1>2. CASE GetDlqUrl(s)
    BY <1>0, <1>2, StageSound DEF GetDlqUrl
<1>3. CASE CreateDlq(s)
    <2>1. /\ dlqs \subseteq dlqs'
          /\ \/ To(s, "bad")
             \/ To(s, "arn") /\ Topic[s] \in dlqs'
        BY <1>3 DEF CreateDlq, NewSet
    <2>2. UNCHANGED <<configured, queues, redrive, policy, creating>>
        BY <1>3 DEF CreateDlq
    <2>3. QED
        BY <1>0, <2>1, <2>2 DEF RedriveSound, To, SupportsDlq, TypeOK, QTypeOK, configured
<1>4. CASE GetArn(s)
    <2>1. /\ UNCHANGED <<configured, queues, dlqs, redrive, creating>>
          /\ stage[s] = "arn"
          /\ \/ To(s, "bad") /\ policy' = policy
             \/ To(s, "create") /\ policy' = policy \cup {s}
        BY <1>4 DEF GetArn, NewSet
    <2>2. QED
        BY <1>0, <2>1 DEF RedriveSound, To, SupportsDlq, TypeOK, QTypeOK, configured
<1>5. CASE CreateQueue(s)
    <2>1. /\ UNCHANGED <<configured, dlqs, policy, creating>>
          /\ stage[s] = "create"
          /\ To(s, "ok") \/ To(s, "bad")
        BY <1>5 DEF CreateQueue
    <2>2. \/ UNCHANGED <<queues, redrive>>
          \/ ~Conflict(s) /\ CreateWithPolicy(s)
        BY <1>5 DEF CreateQueue
    <2>3. SupportsDlq(s) => s \in policy /\ Topic[s] \in dlqs
        BY <1>0, <2>1 DEF RedriveSound
    <2>4. Topic[s] \in WithDlq \ fifo => SupportsDlq(s)
        BY DEF SupportsDlq
    <2>5. \A t \in ((WithDlq \ fifo) \cap queues)' : t \in redrive' /\ t \in dlqs'
        BY <1>0, <2>1, <2>2, <2>3, <2>4 DEF RedriveSound, CreateWithPolicy, NewSet, configured
    <2>6. QED
        BY <1>0, <2>1, <2>5 DEF RedriveSound, To, SupportsDlq, TypeOK, QTypeOK, configured
<1>6. CASE ListQueues(s) \/ CreateLands(s) \/ CreateOnce(s)
    BY <1>0, <1>6 DEF ListQueues, CreateLands, CreateOnce, RedriveSound
<1>7. CASE ConnectFails(s)
    BY <1>0, <1>7, StageSound DEF ConnectFails
<1>8. QED
    BY <1>1, <1>2, <1>3, <1>4, <1>5, <1>6, <1>7 DEF SetupStep

LEMMA RedriveStaysSound ==
    ASSUME RedriveInv, UNCHANGED <<configured, queues, dlqs, redrive, stage, policy, creating>>
    PROVE  RedriveInv'
BY DEF RedriveInv, RedriveSound, SupportsDlq, configured

LEMMA RedriveStep ==
    ASSUME TypeOK, RedriveInv, [Next]_vars
    PROVE  RedriveInv'
<1>1. CASE UNCHANGED vars
    BY <1>1, RedriveStaysSound DEF vars, queueVars
<1>2. ASSUME NEW c \in Calls, CallStep(c)
      PROVE  RedriveInv'
    BY <1>2, RedriveStaysSound, BeginSound, Setters
    DEF CallStep, CallBegins, CallContinues, CallEnds, queueVars
<1>3. ASSUME NEW m \in Sends, SendStep(m)
      PROVE  RedriveInv'
    BY <1>3, RedriveStaysSound, BeginSound, Setters
    DEF SendStep, HandlerBegins, HandlerContinues, Sent, Refused, GetAttributes, queueVars
<1>4. ASSUME NEW m \in Sends, ChainStep(m)
      PROVE  RedriveInv'
    BY <1>4, RedriveStaysSound DEF ChainStep, queueVars
<1>5. ASSUME NEW s \in Setups, QueueStep(s)
      PROVE  RedriveInv'
    BY <1>5, SetupSound DEF QueueStep
<1>6. ASSUME NEW s \in Consumers, RunnerCreatesQueue(s)
      PROVE  RedriveInv'
    BY <1>6, BeginSound, Setters DEF RunnerCreatesQueue
<1>7. CASE Ready
    <2>1. SUFFICES ASSUME engine = "sqs"
                   PROVE  RedriveSound'
        BY <1>7 DEF RedriveInv, Ready, configured
    <2>2. RedriveSound
        BY <2>1 DEF RedriveInv
    <2>3. QED
        BY <1>7, <2>2 DEF Ready, RedriveSound, SupportsDlq, TypeOK, QTypeOK, configured
<1>8. CASE Disconnect
    BY <1>8, RedriveStaysSound DEF Disconnect
<1>9. QED
    BY <1>1, <1>2, <1>3, <1>4, <1>5, <1>6, <1>7, <1>8 DEF Next, Step

(* Whoever comes first, producer or runner, and whatever fails on the way:  *)
(* the SQS queue of a task with a dead letter queue never exists without    *)
(* it, as long as the task is not a FIFO one (getDeadLetterQueuePolicy).    *)
THEOREM RedriveAlways == SafeSpec => []RedriveKept
<1>1. Init => RedriveInv
    BY DEF Init, QInit, RedriveInv, RedriveSound
<1>2. TypeOK /\ RedriveInv /\ [Next]_vars => RedriveInv'
    BY RedriveStep
<1>3. RedriveInv => RedriveKept
    BY DEF RedriveInv, RedriveSound, RedriveKept
<1>4. QED
    BY <1>1, <1>2, <1>3, PublisherTypes, PTL DEF SafeSpec

-----------------------------------------------------------------------------
(* With orderly middleware a link that has ended well has had the handler   *)
(* end well, which has sent the message, and a call that has ended well     *)
(* has had all its first links end so.                                      *)
DeliverySound(m) ==
    /\ \A k \in 1 .. Handler : link[m][k] = "ok" => link[m][Handler] = "ok"
    /\ link[m][Handler] = "ok" => sent[m] = 1
    /\ call[callOf[m]] = "success" => link[m][1] = "ok"

DeliveryInv == Orderly /\ engine # "dummy" => \A m \in Sends : DeliverySound(m)

LEMMA StaysDelivered ==
    ASSUME NEW m \in Sends, DeliverySound(m), UNCHANGED callOf,
           \A k \in 1 .. Handler : link'[m][k] = link[m][k],
           sent'[m] = sent[m],
           call'[callOf[m]] = "success" => call[callOf[m]] = "success"
    PROVE  DeliverySound(m)'
BY Links DEF DeliverySound

LEMMA DeliveryStep ==
    ASSUME TypeOK, SendsSound, DeliveryInv, [Next]_vars
    PROVE  DeliveryInv'
<1>u. UNCHANGED <<nature, engine, callOf>>
    <2>1. \A c \in Calls : CallStep(c) => UNCHANGED <<nature, engine>>
        BY DEF CallStep, CallBegins, CallContinues, CallEnds, SendAll, Begin, mwVars, queueVars, configured
    <2>2. \A m \in Sends : SendStep(m) => UNCHANGED <<nature, engine>>
        BY DEF SendStep, HandlerBegins, HandlerContinues, Sent, Refused, GetAttributes, HandlerEnds, Begin,
               mwVars, queueVars, configured
    <2>3. \A m \in Sends : ChainStep(m) => UNCHANGED <<nature, engine>>
        BY DEF ChainStep, CallNext, Dispatch, Return, queueVars, configured
    <2>4. \A s \in Setups : QueueStep(s) => UNCHANGED <<nature, engine>>
        BY DEF QueueStep, SetupStep, GetUrl, GetDlqUrl, CreateDlq, GetArn, CreateQueue, ListQueues,
               CreateLands, CreateOnce, ConnectFails, mwVars, configured
    <2>5. QED
        BY <2>1, <2>2, <2>3, <2>4
        DEF Next, Step, RunnerCreatesQueue, Begin, Ready, Disconnect, vars, mwVars, queueVars, configured
<1> SUFFICES ASSUME Orderly, engine # "dummy", NEW m \in Sends
             PROVE  DeliverySound(m)'
    BY <1>u DEF DeliveryInv, Orderly
<1>0. SendSound(m) /\ DeliverySound(m) /\ callOf[m] \in Calls
    BY CallTypes DEF SendsSound, DeliveryInv
<1>1. ASSUME UNCHANGED <<link, sent>>, call'[callOf[m]] = "success" => call[callOf[m]] = "success"
      PROVE  DeliverySound(m)'
    BY <1>0, <1>1, <1>u, StaysDelivered
<1>2. ASSUME NEW c \in Calls, CallStep(c)
      PROVE  DeliverySound(m)'
    <2>1. CASE callOf[m] # c
        <3>1. call'[callOf[m]] = call[callOf[m]] /\ sent' = sent
            BY <1>0, <1>2, <2>1 DEF CallStep, CallBegins, CallContinues, CallEnds, Goes, TypeOK
        <3>2. link'[m] = link[m]
            BY <1>2, <2>1, SendAllEffect DEF CallStep, CallBegins, CallContinues, CallEnds, mwVars, SendsOf
        <3>3. QED
            BY <1>0, <1>u, <3>1, <3>2, StaysDelivered
    <2>2. CASE callOf[m] = c /\ SendAll(c) /\ call[c] \in {"idle", "setup"} /\ Goes(c, "sending")
        <3>1. \A k \in 1 .. Handler : link[m][k] = "off"
            BY <1>0, <2>2, Links DEF SendSound
        <3>2. ~Lacking(1)
            BY DEF Lacking, Orderly
        <3>3. \A k \in 1 .. Handler : link'[m][k] # "ok"
            BY <2>2, <3>1, <3>2, SendAllEffect DEF SendsOf
        <3>4. call'[c] # "success"
            BY <2>2 DEF Goes, TypeOK
        <3>5. QED
            BY <1>u, <2>2, <3>3, <3>4, Links DEF DeliverySound
    <2>3. CASE callOf[m] = c /\ call'[c] # "success" /\ UNCHANGED <<mwVars, sent>>
        BY <1>1, <2>3 DEF mwVars
    <2>4. CASE callOf[m] = c /\ CallEnds(c)
        <3>1. UNCHANGED <<link, sent>>
            BY <2>4 DEF CallEnds, mwVars
        <3>2. call'[c] = "success" => link[m][1] = "ok"
            BY <2>4 DEF CallEnds, Goes, TypeOK, SendsOf, Outcome
        <3>3. QED
            BY <1>0, <1>u, <2>4, <3>1, <3>2 DEF DeliverySound
    <2>5. \A st \in {"setup", "failure"} : Goes(c, st) => call'[c] # "success"
        BY DEF Goes, TypeOK
    <2>6. QED
        BY <1>2, <2>1, <2>2, <2>3, <2>4, <2>5 DEF CallStep, CallBegins, CallContinues
<1>3. ASSUME NEW n \in Sends, SendStep(n)
      PROVE  DeliverySound(m)'
    <2>0. call' = call /\ Handling(n)
        BY <1>3 DEF SendStep, HandlerBegins, HandlerContinues, Sent, Refused, GetAttributes
    <2>1. CASE m # n
        <3>1. sent'[m] = sent[m]
            BY <1>3, <2>1 DEF SendStep, HandlerBegins, HandlerContinues, Sent, Refused, GetAttributes,
                              Arrives, TypeOK
        <3>2. \A k \in 1 .. Handler : link'[m][k] = link[m][k]
            <4>1. ASSUME NEW result \in {"ok", "bad"}, HandlerEnds(n, result)
                  PROVE  \A k \in 1 .. Handler : link'[m][k] = link[m][k]
                BY <2>1, <4>1, EndsEffect, Links DEF HandlerEnds
            <4>2. QED
                BY <1>3, <4>1 DEF SendStep, HandlerBegins, HandlerContinues, Sent, Refused, GetAttributes, mwVars
        <3>3. QED
            BY <1>0, <1>u, <2>0, <3>1, <3>2, StaysDelivered
    <2>2. CASE m = n
        <3>1. \A k \in 1 .. Handler : link[m][k] # "ok"
            BY <1>0, <2>0, <2>2, Links DEF DeliverySound, Handling
        <3>2. call[callOf[m]] # "success"
            BY <1>0, <3>1, Links DEF DeliverySound
        <3>3. CASE UNCHANGED mwVars
            BY <1>u, <2>0, <3>1, <3>2, <3>3, Links DEF DeliverySound, mwVars
        <3>4. ASSUME HandlerEnds(m, "bad")
              PROVE  DeliverySound(m)'
            <4>1. \A k \in 1 .. Handler : link'[m][k] # "ok"
                BY <3>1, <3>4, EndsEffect, Links DEF HandlerEnds
            <4>2. QED
                BY <1>u, <2>0, <3>2, <4>1, Links DEF DeliverySound
        <3>5. ASSUME HandlerEnds(m, "ok"), sent'[m] = 1
              PROVE  DeliverySound(m)'
            <4>1. link'[m][Handler] = "ok"
                BY <3>5, EndsEffect, Links DEF HandlerEnds
            <4>2. QED
                BY <1>u, <2>0, <3>2, <3>5, <4>1 DEF DeliverySound
        <3>6. CASE HandlerEnds(m, "ok") /\ Sent(m)
            <4>1. sent[m] = 0
                BY <1>0, <3>6 DEF Sent, SendSound, TypeOK
            <4>2. sent'[m] = 1
                BY <3>6, <4>1 DEF Sent, Arrives, TypeOK
            <4>3. QED
                BY <3>5, <3>6, <4>2
        <3>7. CASE HandlerEnds(m, "ok") /\ GetAttributes(m)
            BY <1>0, <3>5, <3>7 DEF GetAttributes, SendSound
        <3>8. QED
            BY <1>3, <2>2, <3>3, <3>4, <3>6, <3>7
            DEF SendStep, HandlerBegins, HandlerContinues, Sent, Refused, GetAttributes
    <2>3. QED
        BY <2>1, <2>2
<1>4. ASSUME NEW n \in Sends, ChainStep(n)
      PROVE  DeliverySound(m)'
    <2>0. UNCHANGED <<call, sent>>
        BY <1>4 DEF ChainStep
    <2>1. ASSUME NEW k \in Chain, CallNext(n, k), Dispatch(n, k + 1)
          PROVE  DeliverySound(m)'
        <3>1. k + 1 \in 1 .. Handler
            BY NextLinks
        <3>2. CASE m # n
            BY <1>0, <1>u, <2>0, <2>1, <3>1, <3>2, DispatchEffect, StaysDelivered
        <3>3. CASE m = n
            <4>1. link[m][k + 1] = "off"
                <5>1. index[m] \in 0 .. Handler /\ k + 1 > index[m]
                    BY <2>1, <3>1, <3>3, DispatchEffect, PublisherAssumption DEF TypeOK, MwTypeOK
                <5>2. QED
                    BY <1>0, <3>1, <5>1 DEF SendSound
            <4>2. link'[m][k + 1] = "running"
                BY <2>1, <3>1, <3>3, DispatchEffect DEF Lacking, Orderly
            <4>3. \A j \in 1 .. Handler : j # k + 1 => link'[m][j] = link[m][j]
                BY <2>1, <3>1, <3>3, DispatchEffect
            <4>4. QED
                BY <1>0, <1>u, <2>0, <3>1, <4>1, <4>2, <4>3, Links DEF DeliverySound
        <3>4. QED
            BY <3>2, <3>3
    <2>2. ASSUME NEW k \in Chain, NEW result \in {"ok", "bad"}, link[n][k] = "running",
                 nature[k] = "wild" \/ link[n][k + 1] = result,
                 Ends(n, k, result), UNCHANGED <<nature, index>>
          PROVE  DeliverySound(m)'
        <3>1. k \in 1 .. Handler /\ k # Handler /\ k + 1 \in 1 .. Handler
            BY NextLinks, Links
        <3>2. CASE m # n
            BY <1>0, <1>u, <2>0, <2>2, <3>1, <3>2, EndsEffect, StaysDelivered
        <3>3. CASE m = n
            <4>1. link[m][k + 1] = result
                BY <2>2, <3>3 DEF Orderly
            <4>2. result = "ok" => link[m][Handler] = "ok"
                BY <1>0, <3>1, <4>1 DEF DeliverySound
            <4>3. link'[m][k] = result /\ \A j \in 1 .. Handler : j # k => link'[m][j] = link[m][j]
                BY <2>2, <3>1, <3>3, EndsEffect
            <4>4. call[callOf[m]] = "success" => k # 1
                BY <1>0, <2>2, <3>3 DEF DeliverySound
            <4>5. QED
                BY <1>0, <1>u, <2>0, <3>1, <4>2, <4>3, <4>4, Links DEF DeliverySound
        <3>4. QED
            BY <3>2, <3>3
    <2>3. QED
        BY <1>4, <2>1, <2>2, ChainStepCases
<1>5. QED
    BY <1>1, <1>2, <1>3, <1>4
    DEF Next, Step, QueueStep, RunnerCreatesQueue, vars, mwVars

(* With orderly middleware, a publish() that resolves has sent each of its  *)
(* messages, unless the engine is the dummy: all the links of a run end as  *)
(* the handler has ended, and it ends well only after the broker has        *)
(* answered (Task.publish, send, composePublish).                           *)
THEOREM SuccessDelivered == SafeSpec => []SuccessMeansDelivered
<1>1. Init => DeliveryInv
    BY PublisherAssumption, Links, CallTypes, InitSound DEF Init, MwInit, DeliveryInv, DeliverySound
<1>2. TypeOK /\ SendsSound /\ DeliveryInv /\ [Next]_vars => DeliveryInv'
    BY DeliveryStep
<1>3. DeliveryInv => SuccessMeansDelivered
    BY Links DEF DeliveryInv, DeliverySound, SuccessMeansDelivered
<1>4. QED
    BY <1>1, <1>2, <1>3, PublisherTypes, PTL DEF SafeSpec
=============================================================================
