---------------------------- MODULE ServiceProofs ----------------------------
(***************************************************************************)
(* Proofs about Service, for any functions, names, requests and pool size: *)
(* a request is routed to a function of the name it asks for, posts its    *)
(* own result at most once, and is taken only after the init function.     *)
(***************************************************************************)
EXTENDS Service, SequenceTheorems, TLAPS

USE DEF HandlerName, Become, Cell
-----------------------------------------------------------------------------
(* The endpoints.  Their names differ, which is why the first endpoint of  *)
(* a name exists as soon as one does.                                      *)
HandlersDiffer ==
  \A i, j \in DOMAIN handlers : i # j => NameOf[handlers[i]] # NameOf[handlers[j]]

(* A request that was not refused runs a function of the name it asks for. *)
Routed(r) ==
  status[r] \notin {"unsent", "not_found"} => ran[r] \in Functions /\ NameOf[ran[r]] = path[r]

RoutedByName == \A r \in Requests : Routed(r)

RouteInv == TypeOK /\ HandlersDiffer /\ RoutedByName

(* expose adds a name that is new.                                         *)
LEMMA ExposeKeepsDiffering ==
  ASSUME TypeOK, HandlersDiffer, NEW f \in Functions,
         NameOf[f] \notin HandlerNames, handlers' = Append(handlers, f)
  PROVE  HandlersDiffer'
<1>1. handlers \in Seq(Functions)
  BY DEF TypeOK
<1>2. \A i \in DOMAIN handlers : NameOf[handlers[i]] # NameOf[f]
  <2> SUFFICES ASSUME NEW i \in DOMAIN handlers, NameOf[handlers[i]] = NameOf[f]
               PROVE  FALSE
    OBVIOUS
  <2>1. handlers[i] \in ToSet(handlers)
    BY DEF ToSet
  <2> QED BY <2>1 DEF HandlerNames
<1>3. \A i \in DOMAIN handlers' :
        \/ i \in DOMAIN handlers /\ handlers'[i] = handlers[i]
        \/ i = Len(handlers) + 1 /\ handlers'[i] = f
  <2>1. handlers' = Append(handlers, f)
    OBVIOUS
  <2>2. /\ Len(handlers') = Len(handlers) + 1
        /\ handlers' \in Seq(Functions)
        /\ \A i \in 1 .. Len(handlers) : handlers'[i] = handlers[i]
        /\ handlers'[Len(handlers) + 1] = f
    BY <1>1, <2>1, AppendProperties
  <2>3. DOMAIN handlers' = 1 .. Len(handlers) + 1 /\ DOMAIN handlers = 1 .. Len(handlers)
    BY <1>1, <2>2
  <2>4. Len(handlers) \in Nat
    BY <1>1
  <2>5. ASSUME NEW i \in DOMAIN handlers'
        PROVE  \/ i \in DOMAIN handlers /\ handlers'[i] = handlers[i]
               \/ i = Len(handlers) + 1 /\ handlers'[i] = f
    BY <2>2, <2>3, <2>4, <2>5
  <2> QED BY <2>5
<1> QED BY <1>2, <1>3 DEF HandlersDiffer

(* The endpoint the CHOOSE of Accept picks.                                *)
LEMMA FirstOfAName ==
  ASSUME TypeOK, HandlersDiffer, NEW name \in HandlerNames,
         NEW k, k = CHOOSE i \in DOMAIN handlers :
                  /\ NameOf[handlers[i]] = name
                  /\ \A j \in 1 .. i - 1 : NameOf[handlers[j]] # name
  PROVE  handlers[k] \in Functions /\ NameOf[handlers[k]] = name
<1>1. handlers \in Seq(Functions)
  BY DEF TypeOK
<1>2. PICK i \in DOMAIN handlers : NameOf[handlers[i]] = name
  BY DEF HandlerNames, ToSet
<1>3. \A j \in 1 .. i - 1 : NameOf[handlers[j]] # name
  <2> SUFFICES ASSUME NEW j \in 1 .. i - 1 PROVE NameOf[handlers[j]] # name
    OBVIOUS
  <2>1. j \in DOMAIN handlers /\ j # i
    BY <1>1
  <2> QED BY <1>2, <2>1 DEF HandlersDiffer
<1>4. k \in DOMAIN handlers /\ NameOf[handlers[k]] = name
  BY <1>2, <1>3
<1> QED BY <1>1, <1>4

LEMMA RouteInit == Init => RouteInv
<1> SUFFICES ASSUME Init PROVE RouteInv
  OBVIOUS
<1>1. handlers \in Seq(Functions) /\ posts \in Seq(Requests \X Values)
  BY DEF Init
<1>2. config \in BOOLEAN \X BOOLEAN
  BY Zenon DEF Init, config
<1>3. TypeOK
  BY <1>1, <1>2 DEF Init, TypeOK, Statuses, Values
<1>4. HandlersDiffer /\ RoutedByName
  BY DEF Init, HandlersDiffer, RoutedByName, Routed
<1> QED BY <1>3, <1>4 DEF RouteInv

LEMMA RouteAccept ==
  ASSUME ServiceAssumption, RouteInv, NEW r \in Requests, NEW name \in Names, Accept(r, name)
  PROVE  RouteInv'
<1>1. TypeOK /\ HandlersDiffer /\ RoutedByName
  BY DEF RouteInv
<1>2. HandlersDiffer'
  BY <1>1 DEF Accept, HandlersDiffer
<1>3. CASE name \notin HandlerNames
  <2>1. TypeOK'
    BY <1>1, <1>3 DEF Accept, TypeOK, Statuses, config
  <2>2. RoutedByName'
    BY <1>1, <1>3 DEF Accept, TypeOK, RoutedByName, Routed
  <2> QED BY <1>2, <2>1, <2>2 DEF RouteInv
<1>4. CASE name \in HandlerNames
  <2> DEFINE k == CHOOSE i \in DOMAIN handlers :
                    /\ NameOf[handlers[i]] = name
                    /\ \A j \in 1 .. i - 1 : NameOf[handlers[j]] # name
             f == handlers[k]
  <2>1. f \in Functions /\ NameOf[f] = name
    BY <1>1, <1>4, FirstOfAName
  <2>2. /\ ran' = [ran EXCEPT ![r] = f]
        /\ path' = [path EXCEPT ![r] = name]
        /\ status' = [status EXCEPT ![r] = "accepted"]
        /\ UNCHANGED <<config, server, handlers, initDone, worker, cell, value, posts>>
    BY <1>4 DEF Accept
  <2> HIDE DEF f
  <2>3. TypeOK'
    BY <1>1, <2>1, <2>2 DEF TypeOK, Statuses, config
  <2>4. RoutedByName'
    BY <1>1, <2>1, <2>2 DEF TypeOK, RoutedByName, Routed
  <2> QED BY <1>2, <2>3, <2>4 DEF RouteInv
<1> QED BY <1>3, <1>4

LEMMA RouteStep == RouteInv /\ [Next]_vars => RouteInv'
<1> SUFFICES ASSUME RouteInv, [Next]_vars PROVE RouteInv'
  OBVIOUS
<1>0. TypeOK /\ HandlersDiffer /\ RoutedByName
  BY DEF RouteInv
<1>1. ASSUME NEW f \in Functions, Expose(f) PROVE RouteInv'
  <2>1. TypeOK'
    BY <1>0, <1>1 DEF Expose, TypeOK, config
  <2>2. HandlersDiffer'
    BY <1>0, <1>1, ExposeKeepsDiffering DEF Expose
  <2>3. RoutedByName'
    BY <1>0, <1>1 DEF Expose, RoutedByName, Routed
  <2> QED BY <2>1, <2>2, <2>3 DEF RouteInv
<1>2. CASE Start \/ InitSucceeds \/ InitFails
  BY <1>2 DEF Start, InitSucceeds, InitFails, RouteInv, TypeOK, config,
              HandlersDiffer, RoutedByName, Routed
<1>3. ASSUME NEW r \in Requests, NEW name \in Names, Accept(r, name) PROVE RouteInv'
  BY <1>3, RouteAccept, ServiceAssumption
<1>4. ASSUME NEW r \in Requests, Run(r) PROVE RouteInv'
  BY <1>0, <1>4 DEF Run, RouteInv, TypeOK, config, HandlersDiffer, RoutedByName, Routed, Statuses
<1>5. ASSUME NEW r \in Requests, TimesOut(r) PROVE RouteInv'
  BY <1>0, <1>5 DEF TimesOut, RouteInv, TypeOK, config, HandlersDiffer, RoutedByName, Routed, Statuses
<1>6. ASSUME NEW r \in Requests, Collect(r) PROVE RouteInv'
  BY <1>0, <1>6 DEF Collect, RouteInv, TypeOK, config, HandlersDiffer, RoutedByName, Routed, Statuses
<1>7. ASSUME NEW r \in Requests, SendCallback(r) PROVE RouteInv'
  <2>1. value[r] \in Values
    BY <1>0 DEF TypeOK
  <2>2. posts' \in Seq(Requests \X Values)
    <3>1. posts \in Seq(Requests \X Values) /\ <<r, value[r]>> \in Requests \X Values
      BY <1>0, <2>1 DEF TypeOK
    <3>2. Append(posts, <<r, value[r]>>) \in Seq(Requests \X Values)
      BY <3>1, AppendProperties
    <3> QED BY <1>7, <3>1, <3>2 DEF SendCallback
  <2>3. status' \in [Requests -> Statuses]
    BY <1>0, <1>7 DEF SendCallback, TypeOK, Statuses
  <2>4. UNCHANGED <<config, server, handlers, initDone, path, ran, worker, cell, value>>
    BY <1>7 DEF SendCallback
  <2>5. TypeOK'
    BY <1>0, <2>2, <2>3, <2>4 DEF TypeOK, config
  <2>6. HandlersDiffer' /\ RoutedByName'
    BY <1>0, <1>7 DEF SendCallback, TypeOK, HandlersDiffer, RoutedByName, Routed
  <2> QED BY <2>5, <2>6 DEF RouteInv
<1>8. ASSUME NEW r \in Requests, Raises(r) PROVE RouteInv'
  BY <1>0, <1>8 DEF Raises, RouteInv, TypeOK, config, HandlersDiffer, RoutedByName, Routed
<1>9. ASSUME NEW r \in Requests, NEW v \in {r, Falsy}, Returns(r, v) PROVE RouteInv'
  BY <1>0, <1>9 DEF Returns, RouteInv, TypeOK, config, HandlersDiffer, RoutedByName, Routed, Values
<1>10. CASE UNCHANGED vars
  BY <1>10 DEF vars, RouteInv, TypeOK, config, HandlersDiffer, RoutedByName, Routed
<1> QED BY <1>1, <1>2, <1>3, <1>4, <1>5, <1>6, <1>7, <1>8, <1>9, <1>10 DEF Next

(* Every variable keeps its type; the routed function is one that exists.  *)
THEOREM TypeCorrect == Spec => []TypeOK
<1>1. RouteInv => TypeOK
  BY DEF RouteInv
<1> QED BY <1>1, RouteInit, RouteStep, PTL DEF Spec

(* A request is answered by a function of the name in its URL              *)
(* (server.py 68-107): routing is decided by name, and names are unique.   *)
THEOREM RequestsReachTheirFunction == Spec => []RoutedByName
<1>1. RouteInv => RoutedByName
  BY DEF RouteInv
<1> QED BY <1>1, RouteInit, RouteStep, PTL DEF Spec
-----------------------------------------------------------------------------
(* The init function comes first: nothing is taken before the server       *)
(* serves, and it serves only once the init function has returned.         *)
NoneTakenYet == server # "serving" => \A r \in Requests : status[r] = "unsent"
ServingIsReady == server = "serving" /\ hasInit => initDone

InitInv == TypeOK /\ NoneTakenYet /\ ServingIsReady

LEMMA InitInvInit == Init => InitInv
BY RouteInit DEF Init, RouteInv, InitInv, NoneTakenYet, ServingIsReady

LEMMA InitInvStep == InitInv /\ TypeOK' /\ [Next]_vars => InitInv'
<1> SUFFICES ASSUME InitInv, TypeOK', [Next]_vars PROVE InitInv'
  OBVIOUS
<1> USE DEF InitInv, NoneTakenYet, ServingIsReady
<1>0. status \in [Requests -> Statuses]
  BY DEF TypeOK
<1>1. ASSUME NEW f \in Functions, Expose(f) PROVE InitInv'
  BY <1>1 DEF Expose, config
<1>2. CASE Start \/ InitFails
  BY <1>2 DEF Start, InitFails, config
<1>3. CASE InitSucceeds
  BY <1>3 DEF InitSucceeds, config
<1>4. ASSUME NEW r \in Requests,
             \/ \E name \in Names : Accept(r, name)
             \/ Run(r) \/ TimesOut(r) \/ Collect(r) \/ SendCallback(r)
             \/ Raises(r) \/ \E v \in {r, Falsy} : Returns(r, v)
      PROVE  InitInv'
  <2>1. server = "serving" \/ status' = status
    BY <1>0, <1>4 DEF Accept, Run, TimesOut, Collect, SendCallback, Raises, Returns
  <2>2. server' = server /\ hasInit' = hasInit /\ initDone' = initDone
    BY <1>4 DEF Accept, Run, TimesOut, Collect, SendCallback, Raises, Returns, config
  <2> QED BY <2>1, <2>2
<1>5. CASE UNCHANGED vars
  BY <1>5 DEF vars, config
<1> QED BY <1>1, <1>2, <1>3, <1>4, <1>5 DEF Next

(* No request is taken before a registered init function has returned      *)
(* (lifespan, server.py 34-56).                                            *)
THEOREM ServedAfterInit == Spec => []ServesAfterInit
<1>1. Spec => []TypeOK
  BY TypeCorrect
<1>2. InitInv => ServesAfterInit
  BY DEF InitInv, NoneTakenYet, ServingIsReady, ServesAfterInit
<1> QED BY <1>1, <1>2, InitInvInit, InitInvStep, PTL DEF Spec
-----------------------------------------------------------------------------
(* The results.  A cell belongs to one call and is written when the call   *)
(* returns; a runner posts only what it found in its own cell.             *)
CallOwnsItsCell(r) ==
  /\ cell[r] \in {Null, r, Falsy}
  /\ worker[r] # "returned" => cell[r] = Null
  /\ status[r] \in {"unsent", "accepted", "not_found"} => worker[r] = "none"
  /\ status[r] = "posting" => value[r] = r /\ worker[r] = "returned"

PostInv ==
  /\ TypeOK
  /\ \A r \in Requests : CallOwnsItsCell(r)
  /\ PostsOwnResultOnce

LEMMA PostInit == Init => PostInv
<1> SUFFICES ASSUME Init PROVE PostInv
  OBVIOUS
<1>1. TypeOK
  BY RouteInit DEF RouteInv
<1>2. \A r \in Requests : CallOwnsItsCell(r)
  BY DEF Init, CallOwnsItsCell
<1>3. PostsOwnResultOnce
  BY DEF Init, PostsOwnResultOnce
<1> QED BY <1>1, <1>2, <1>3 DEF PostInv

(* A step that ends no request and posts nothing spoils no post.           *)
LEMMA PostsStand ==
  ASSUME PostInv, posts' = posts,
         \A q \in Requests : status[q] \in {"success", "failed"} /\ worker[q] = "returned"
           => status'[q] = status[q] /\ worker'[q] = worker[q]
  PROVE  PostsOwnResultOnce'
<1>1. posts \in Seq(Requests \X Values)
  BY DEF PostInv, TypeOK
<1>2. \A i \in DOMAIN posts : posts[i][1] \in Requests
  BY <1>1
<1> QED BY <1>2 DEF PostInv, PostsOwnResultOnce

LEMMA SendKeepsPosts ==
  ASSUME PostInv, NEW r \in Requests, SendCallback(r)
  PROVE  PostsOwnResultOnce'
<1>0. /\ posts \in Seq(Requests \X Values)
      /\ status \in [Requests -> Statuses]
      /\ value \in [Requests -> Values]
      /\ PostsOwnResultOnce
  BY DEF PostInv, TypeOK
<1>1. status[r] = "posting" /\ value[r] = r /\ worker[r] = "returned" /\ worker' = worker
  BY DEF SendCallback, PostInv, CallOwnsItsCell
<1>2. \A q \in Requests : q # r => status'[q] = status[q]
  BY <1>0 DEF SendCallback
<1>3. \A i \in DOMAIN posts : posts[i][1] \in Requests /\ posts[i][1] # r
  BY <1>0, <1>1 DEF PostsOwnResultOnce
<1>4. CASE posts' = posts
  BY <1>1, <1>2, <1>3, <1>4, PostsStand
<1>5. CASE posts' = Append(posts, <<r, value[r]>>) /\ status'[r] \in {"success", "failed"}
  <2>1. /\ Len(posts') = Len(posts) + 1
        /\ posts' \in Seq(Requests \X Values)
        /\ \A i \in 1 .. Len(posts) : posts'[i] = posts[i]
        /\ posts'[Len(posts) + 1] = <<r, r>>
    <3>1. <<r, value[r]>> \in Requests \X Values
      BY <1>0
    <3> QED BY <1>0, <1>1, <1>5, <3>1, AppendProperties
  <2>2. ASSUME NEW i \in DOMAIN posts'
        PROVE  \/ i \in DOMAIN posts /\ posts'[i] = posts[i]
               \/ i = Len(posts) + 1 /\ posts'[i] = <<r, r>>
    BY <1>0, <2>1
  <2>3. ASSUME NEW i \in DOMAIN posts'
        PROVE  /\ posts'[i][2] = posts'[i][1]
               /\ worker'[posts'[i][1]] = "returned"
               /\ status'[posts'[i][1]] \in {"success", "failed"}
    BY <1>0, <1>1, <1>2, <1>3, <1>5, <2>2 DEF PostsOwnResultOnce
  <2>4. ASSUME NEW i \in DOMAIN posts', NEW j \in DOMAIN posts', i # j
        PROVE  posts'[i][1] # posts'[j][1]
    BY <1>0, <1>3, <2>2, <2>4 DEF PostsOwnResultOnce
  <2> QED BY <2>3, <2>4 DEF PostsOwnResultOnce
<1> QED BY <1>0, <1>4, <1>5 DEF SendCallback

LEMMA PostStep == PostInv /\ ServiceAssumption /\ TypeOK' /\ [Next]_vars => PostInv'
<1> SUFFICES ASSUME PostInv, ServiceAssumption, TypeOK', [Next]_vars PROVE PostInv'
  OBVIOUS
<1>0. /\ status \in [Requests -> Statuses]
      /\ worker \in [Requests -> {"none", "running", "returned", "raised"}]
      /\ cell \in [Requests -> Values]
      /\ value \in [Requests -> Values]
      /\ \A r \in Requests : CallOwnsItsCell(r)
  BY DEF PostInv, TypeOK
<1>1. SUFFICES (\A r \in Requests : CallOwnsItsCell(r)') /\ PostsOwnResultOnce'
  BY DEF PostInv
<1>2. CASE UNCHANGED <<status, worker, cell, value, posts>>
  BY <1>0, <1>2, PostsStand DEF CallOwnsItsCell
<1>3. ASSUME NEW r \in Requests, NEW name \in Names, Accept(r, name)
      PROVE  (\A q \in Requests : CallOwnsItsCell(q)') /\ PostsOwnResultOnce'
  <2>1. /\ status[r] = "unsent"
        /\ UNCHANGED <<worker, cell, value, posts>>
        /\ \E s \in {"accepted", "not_found"} : status' = [status EXCEPT ![r] = s]
    BY <1>3 DEF Accept
  <2> QED BY <1>0, <2>1, PostsStand DEF CallOwnsItsCell
<1>4. ASSUME NEW r \in Requests, Run(r)
      PROVE  (\A q \in Requests : CallOwnsItsCell(q)') /\ PostsOwnResultOnce'
  BY <1>0, <1>4, PostsStand DEF Run, CallOwnsItsCell
<1>5. ASSUME NEW r \in Requests, TimesOut(r)
      PROVE  (\A q \in Requests : CallOwnsItsCell(q)') /\ PostsOwnResultOnce'
  BY <1>0, <1>5, PostsStand DEF TimesOut, CallOwnsItsCell
<1>6. ASSUME NEW r \in Requests, Collect(r)
      PROVE  (\A q \in Requests : CallOwnsItsCell(q)') /\ PostsOwnResultOnce'
  <2>1. value'[r] \in Requests => value'[r] = r /\ worker[r] = "returned"
    BY <1>0, <1>6 DEF Collect, CallOwnsItsCell, ServiceAssumption
  <2> QED BY <1>0, <1>6, <2>1, PostsStand DEF Collect, CallOwnsItsCell
<1>7. ASSUME NEW r \in Requests, SendCallback(r)
      PROVE  (\A q \in Requests : CallOwnsItsCell(q)') /\ PostsOwnResultOnce'
  BY <1>0, <1>7, SendKeepsPosts DEF SendCallback, CallOwnsItsCell
<1>8. ASSUME NEW r \in Requests, Raises(r)
      PROVE  (\A q \in Requests : CallOwnsItsCell(q)') /\ PostsOwnResultOnce'
  BY <1>0, <1>8, PostsStand DEF Raises, CallOwnsItsCell
<1>9. ASSUME NEW r \in Requests, NEW v \in {r, Falsy}, Returns(r, v)
      PROVE  (\A q \in Requests : CallOwnsItsCell(q)') /\ PostsOwnResultOnce'
  BY <1>0, <1>9, PostsStand DEF Returns, CallOwnsItsCell
<1>10. ASSUME NEW f \in Functions, Expose(f) PROVE UNCHANGED <<status, worker, cell, value, posts>>
  BY <1>10 DEF Expose
<1>11. Start \/ InitSucceeds \/ InitFails \/ UNCHANGED vars
        => UNCHANGED <<status, worker, cell, value, posts>>
  BY DEF Start, InitSucceeds, InitFails, vars
<1> QED BY <1>2, <1>3, <1>4, <1>5, <1>6, <1>7, <1>8, <1>9, <1>10, <1>11 DEF Next

(* A request posts at most once, the result its own call returned, and     *)
(* nothing once it has timed out, however many calls of the same function  *)
(* run or return late (timed_handler, decorators.py 56-88).                *)
THEOREM OwnResultPostedOnce == Spec => []PostsOwnResultOnce
<1>1. Spec => []TypeOK
  BY TypeCorrect
<1>2. PostInv => PostsOwnResultOnce
  BY DEF PostInv
<1> QED BY <1>1, <1>2, ServiceAssumption, PostInit, PostStep, PTL DEF Spec
=============================================================================
