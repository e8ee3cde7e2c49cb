--------------------- MODULE EngineeringTemplateProofs ---------------------
(* The template graph is a DAG for every set of parts, every number of     *)
(* concurrent handlers and every bound on the rows.                        *)
EXTENDS EngineeringTemplate, TLAPS

-----------------------------------------------------------------------------
(* Graphs                                                                  *)

(* An acyclic graph stays acyclic when edges are taken away.               *)
LEMMA AcyclicSubgraph ==
    ASSUME NEW E, NEW F, F \subseteq E, Acyclic(E)
    PROVE  Acyclic(F)
<1>1. SUFFICES ASSUME NEW e \in F
               PROVE  ~Reaches(F, e[2], e[1])
  BY DEF Acyclic
<1>2. PICK S \in SUBSET Parts : e[2] \in S /\ Closed(S, E) /\ e[1] \notin S
  BY DEF Acyclic, Reaches
<1>3. Closed(S, F)
  BY <1>2 DEF Closed
<1> QED BY <1>2, <1>3 DEF Reaches

(* An edge p -> c closes no cycle when some set V that is closed under the *)
(* edges, as the set would_create_cycle has visited when its stack is      *)
(* empty, holds c and not p.                                               *)
LEMMA AcyclicAdd ==
    ASSUME NEW E, E \subseteq Parts \X Parts, Acyclic(E),
           NEW p \in Parts, NEW c \in Parts,
           NEW V \in SUBSET Parts, c \in V, p \notin V, Closed(V, E)
    PROVE  Acyclic(E \cup {<<p, c>>})
<1> DEFINE F == E \cup {<<p, c>>}
<1>1. SUFFICES ASSUME NEW e \in F
               PROVE  \E T \in SUBSET Parts :
                          e[2] \in T /\ Closed(T, F) /\ e[1] \notin T
  BY DEF Acyclic, Reaches
<1>2. CASE e = <<p, c>>
  <2>1. Closed(V, F)
    BY DEF Closed
  <2> QED BY <1>2, <2>1
<1>3. CASE e \in E
  <2>1. PICK S \in SUBSET Parts : e[2] \in S /\ Closed(S, E) /\ e[1] \notin S
    BY <1>3 DEF Acyclic, Reaches
  <2>2. CASE p \notin S
    <3>1. Closed(S, F)
      BY <2>1, <2>2 DEF Closed
    <3> QED BY <2>1, <3>1
  <2>3. CASE p \in S /\ e[1] \notin V
    <3>1. Closed(S \cup V, F)
      BY <2>1 DEF Closed
    <3>2. S \cup V \in SUBSET Parts
      OBVIOUS
    <3> QED BY <2>1, <2>3, <3>1, <3>2
  <2>4. CASE e[1] \in V
    <3>1. e[2] \in V
      BY <1>3, <2>4 DEF Closed
    <3>2. Closed(V, F)
      BY DEF Closed
    <3>3. Closed(S \cap V, F)
      BY <2>1 DEF Closed
    <3>4. S \cap V \in SUBSET Parts
      OBVIOUS
    <3> QED BY <2>1, <3>1, <3>3, <3>4
  <2> QED BY <2>2, <2>3, <2>4
<1> QED BY <1>2, <1>3

-----------------------------------------------------------------------------
(* The inductive invariant                                                 *)

Creating == {"lockCreate", "checkChild", "dfs", "insert"}
Critical == {"checkChild", "dfs", "insert", "patch", "delete"}

(* Only the holder of the lock is past it, so at most one request is.      *)
LockInv == \A r \in Requests : pc[r] \in Critical => graphLock = r

EdgeInv == \A r \in Requests : pc[r] \in Creating => edge[r] \in Parts \X Parts

Pending(r) == {s.at : s \in stack[r]}

(* The search of r: the child is seen or pending, what a seen part leads   *)
(* to is seen or pending, and the parent is neither.                       *)
SearchInv(r) ==
    /\ edge[r][2] \in visited[r] \cup Pending(r)
    /\ edge[r][1] \notin visited[r] \cup Pending(r)
    /\ \A e \in Edges(template) :
          e[1] \in visited[r] => e[2] \in visited[r] \cup Pending(r)

DfsInv == \A r \in Requests : pc[r] \in {"dfs", "insert"} => SearchInv(r)

InsertInv ==
    \A r \in Requests :
        pc[r] = "insert" => stack[r] = {} /\ edge[r] \notin Edges(template)

IInv ==
    /\ TypeOK
    /\ LockInv
    /\ EdgeInv
    /\ DfsInv
    /\ InsertInv
    /\ TemplateAcyclic
    /\ PairsUniqueAndCatalogued

-----------------------------------------------------------------------------
(* Initial state and the steps that leave the graph alone                  *)

LEMMA InitIInv == Init => IInv
<1> SUFFICES ASSUME Init PROVE IInv
  OBVIOUS
<1>1. TypeOK
  BY MaxRowsAssumption DEF Init, GraphInit, TypeOK, Labels
<1>2. LockInv /\ EdgeInv /\ DfsInv /\ InsertInv
  BY DEF Init, LockInv, EdgeInv, DfsInv, InsertInv, Critical, Creating
<1>3. TemplateAcyclic /\ PairsUniqueAndCatalogued
  BY DEF Init, GraphInit, TemplateAcyclic, PairsUniqueAndCatalogued, Acyclic, Edges
<1> QED BY <1>1, <1>2, <1>3 DEF IInv

(* A step of r that reads: the graph stays, and the other requests keep    *)
(* their place, their pair and their search.                               *)
Private(r) ==
    /\ UNCHANGED <<template, lastId>>
    /\ \A q \in Requests \ {r} :
          /\ pc'[q] = pc[q]
          /\ edge'[q] = edge[q]
          /\ visited'[q] = visited[q]
          /\ stack'[q] = stack[q]

(* What a reading step has to establish is only about the request that     *)
(* takes it, and about the lock.                                           *)
LEMMA PrivateStep ==
    ASSUME IInv, NEW r \in Requests, Private(r), TypeOK', LockInv',
           catalog' = catalog,
           pc'[r] \in Creating => edge'[r] \in Parts \X Parts,
           pc'[r] \in {"dfs", "insert"} => SearchInv(r)',
           pc'[r] = "insert" => stack'[r] = {} /\ edge'[r] \notin Edges(template)
    PROVE  IInv'
<1>1. EdgeInv'
  BY DEF IInv, EdgeInv, Private
<1>2. DfsInv'
  <2> SUFFICES ASSUME NEW q \in Requests, pc'[q] \in {"dfs", "insert"}
               PROVE  SearchInv(q)'
    BY DEF DfsInv
  <2>1. CASE q = r
    BY <2>1
  <2>2. CASE q # r
    <3>1. SearchInv(q)
      BY <2>2 DEF IInv, DfsInv, Private
    <3> QED BY <2>2, <3>1 DEF Private, SearchInv, Pending
  <2> QED BY <2>1, <2>2
<1>3. InsertInv'
  <2> SUFFICES ASSUME NEW q \in Requests, pc'[q] = "insert"
               PROVE  stack'[q] = {} /\ edge'[q] \notin Edges(template')
    BY DEF InsertInv
  <2> QED BY DEF IInv, InsertInv, Private
<1>4. TemplateAcyclic' /\ PairsUniqueAndCatalogued'
  BY DEF IInv, TemplateAcyclic, PairsUniqueAndCatalogued, Private
<1> QED BY <1>1, <1>2, <1>3, <1>4 DEF IInv

(* A handler that ends frees the lock only if it holds it.                 *)
LEMMA FinishLock ==
    ASSUME TypeOK, LockInv, NEW r \in Requests, NEW path \in Seq(Parts),
           Finish(r, path)
    PROVE  /\ LockInv'
           /\ pc'[r] = "idle"
           /\ \A q \in Requests \ {r} :
                 /\ pc'[q] = pc[q]
                 /\ edge'[q] = edge[q]
                 /\ visited'[q] = visited[q]
                 /\ stack'[q] = stack[q]
           /\ graphLock' \in Requests \cup {None}
           /\ pc' \in [Requests -> Labels]
           /\ edge' \in [Requests -> (Parts \X Parts) \cup {<<>>}]
           /\ target' \in [Requests -> 0..MaxRows]
           /\ visited' \in [Requests -> SUBSET Parts]
           /\ stack' \in [Requests -> SUBSET [at : Parts, path : Seq(Parts)]]
           /\ answer' \in [Requests -> Seq(Parts)]
<1>1. pc'[r] = "idle" /\ \A q \in Requests \ {r} : pc'[q] = pc[q]
  BY DEF Finish, Goto, TypeOK
<1>2. LockInv'
  BY <1>1 DEF LockInv, Critical, Finish
<1>3. \A q \in Requests \ {r} :
          edge'[q] = edge[q] /\ visited'[q] = visited[q] /\ stack'[q] = stack[q]
  BY DEF Finish, TypeOK
<1>4. graphLock' \in Requests \cup {None} /\ pc' \in [Requests -> Labels]
  BY DEF Finish, Goto, TypeOK, Labels
<1>5. /\ edge' \in [Requests -> (Parts \X Parts) \cup {<<>>}]
      /\ target' \in [Requests -> 0..MaxRows]
  BY MaxRowsAssumption DEF Finish, TypeOK
<1>6. /\ visited' \in [Requests -> SUBSET Parts]
      /\ stack' \in [Requests -> SUBSET [at : Parts, path : Seq(Parts)]]
      /\ answer' \in [Requests -> Seq(Parts)]
  BY DEF Finish, TypeOK
<1> QED BY <1>1, <1>2, <1>3, <1>4, <1>5, <1>6

(* A handler that ends without having written keeps the invariant.         *)
LEMMA FinishStep ==
    ASSUME IInv, NEW r \in Requests, NEW path \in Seq(Parts),
           Finish(r, path), UNCHANGED graphVars
    PROVE  IInv'
<1>1. TypeOK' /\ LockInv' /\ Private(r) /\ pc'[r] = "idle"
  BY FinishLock DEF IInv, TypeOK, graphVars, Private
<1> QED BY <1>1, PrivateStep DEF graphVars, Creating
-----------------------------------------------------------------------------
(* One lemma per statement of the handlers                                 *)

LEMMA BeginCreateStep ==
    ASSUME IInv, NEW r \in Requests, NEW p \in Parts, NEW c \in Parts,
           BeginCreate(r, p, c)
    PROVE  IInv'
<1>1. TypeOK'
  BY DEF IInv, TypeOK, BeginCreate, Goto, Labels, graphVars, dfsVars
<1>2. LockInv'
  BY DEF IInv, TypeOK, LockInv, Critical, BeginCreate, Goto
<1>3. Private(r) /\ pc'[r] = "lockCreate" /\ edge'[r] \in Parts \X Parts
  BY DEF IInv, TypeOK, Private, BeginCreate, Goto, graphVars, dfsVars
<1>4. catalog' = catalog
  BY DEF BeginCreate, graphVars
<1> QED BY <1>1, <1>2, <1>3, <1>4, PrivateStep

LEMMA BeginEditStep ==
    ASSUME IInv, NEW r \in Requests, NEW row \in template,
           NEW label \in {"lockPatch", "lockDelete"}, BeginEdit(r, row, label)
    PROVE  IInv'
<1>1. TypeOK'
  BY DEF IInv, TypeOK, Row, BeginEdit, Goto, Labels, graphVars, dfsVars
<1>2. LockInv'
  BY DEF IInv, TypeOK, LockInv, Critical, BeginEdit, Goto
<1>3. Private(r) /\ pc'[r] = label
  BY DEF IInv, TypeOK, Private, BeginEdit, Goto, graphVars, dfsVars
<1>4. catalog' = catalog
  BY DEF BeginEdit, graphVars
<1> QED BY <1>1, <1>2, <1>3, <1>4, PrivateStep DEF Creating

LEMMA LockStep ==
    ASSUME IInv, NEW r \in Requests, NEW from, NEW to,
           <<from, to>> \in {<<"lockCreate", "checkChild">>,
                             <<"lockPatch", "patch">>,
                             <<"lockDelete", "delete">>},
           Lock(r, from, to)
    PROVE  IInv'
<1>1. TypeOK'
  BY DEF IInv, TypeOK, Lock, Goto, Labels, graphVars, dfsVars
<1>2. LockInv'
  BY NoneAssumption DEF IInv, TypeOK, LockInv, Critical, Lock, Goto
<1>3. Private(r) /\ pc'[r] = to /\ edge' = edge /\ catalog' = catalog
  BY DEF IInv, TypeOK, Private, Lock, Goto, graphVars, dfsVars
<1>4. to \in Creating => edge[r] \in Parts \X Parts
  BY DEF IInv, EdgeInv, Creating, Lock
<1> QED BY <1>1, <1>2, <1>3, <1>4, PrivateStep

(* A request past the lock that does not give it up keeps LockInv.         *)
LEMMA HoldLock ==
    ASSUME IInv, NEW r \in Requests, pc[r] \in Critical,
           \A q \in Requests \ {r} : pc'[q] = pc[q], graphLock' = graphLock
    PROVE  LockInv'
BY DEF IInv, LockInv

LEMMA CheckChildStep ==
    ASSUME IInv, NEW r \in Requests, CheckChild(r)
    PROVE  IInv'
<1> DEFINE p == edge[r][1]
           c == edge[r][2]
<1>1. p \in Parts /\ c \in Parts /\ edge[r] = <<p, c>>
  BY DEF CheckChild, IInv, EdgeInv, Creating
<1>2. CASE c \notin catalog /\ Finish(r, <<>>)
  <2>1. <<>> \in Seq(Parts) /\ UNCHANGED graphVars
    BY DEF CheckChild
  <2> QED BY <1>2, <2>1, FinishStep
<1>3. CASE p = c /\ Finish(r, <<p, p>>)
  <2>1. <<p, p>> \in Seq(Parts) /\ UNCHANGED graphVars
    BY <1>1 DEF CheckChild
  <2> QED BY <1>3, <2>1, FinishStep
<1>4. CASE /\ p # c
           /\ Goto(r, "dfs")
           /\ visited' = [visited EXCEPT ![r] = {}]
           /\ stack' = [stack EXCEPT ![r] = {[at |-> c, path |-> <<p, c>>]}]
           /\ UNCHANGED <<graphLock, edge, target, answer>>
  <2>1. UNCHANGED graphVars
    BY DEF CheckChild
  <2>2. TypeOK'
    BY <1>1, <1>4, <2>1 DEF IInv, TypeOK, Goto, Labels, graphVars
  <2>3. Private(r) /\ pc'[r] = "dfs"
    BY <1>4, <2>1 DEF IInv, TypeOK, Goto, graphVars, Private
  <2>4. visited'[r] = {} /\ stack'[r] = {[at |-> c, path |-> <<p, c>>]}
    BY <1>4 DEF IInv, TypeOK
  <2>5. SearchInv(r)'
    <3>1. Pending(r)' = {c}
      <4>1. [at |-> c, path |-> <<p, c>>].at = c
        OBVIOUS
      <4> QED BY <2>4, <4>1 DEF Pending
    <3> QED BY <1>4, <2>4, <3>1 DEF SearchInv
  <2>6. LockInv'
    BY <1>4, <2>3, HoldLock DEF CheckChild, Critical, Private
  <2> QED BY <1>1, <1>4, <2>1, <2>2, <2>3, <2>5, <2>6, PrivateStep DEF graphVars
<1> QED BY <1>2, <1>3, <1>4 DEF CheckChild

LEMMA DfsVisitStep ==
    ASSUME IInv, NEW r \in Requests, DfsVisit(r)
    PROVE  IInv'
<1> DEFINE p == edge[r][1]
<1>1. PICK s \in stack[r] : DfsVisit(r)!2!(s)
  BY DEF DfsVisit
<1>2. /\ s.at \in Parts /\ s.path \in Seq(Parts) /\ p \in Parts
      /\ edge[r] \in Parts \X Parts /\ UNCHANGED graphVars
      /\ SearchInv(r) /\ pc[r] \in Critical
  BY DEF DfsVisit, IInv, TypeOK, EdgeInv, DfsInv, Creating, Critical
<1>3. Children(s.at) \subseteq Parts
  BY DEF IInv, TypeOK, Children, Row
<1>4. \A e \in Edges(template) : e[1] = s.at => e[2] \in Children(s.at)
  BY DEF Edges, Children
<1>5. CASE /\ s.at \in visited[r]
           /\ stack' = [stack EXCEPT ![r] = @ \ {s}]
           /\ UNCHANGED <<graphLock, pc, edge, target, visited, answer>>
  <2>1. TypeOK'
    BY <1>2, <1>5 DEF IInv, TypeOK, graphVars
  <2>2. Private(r) /\ stack'[r] = stack[r] \ {s}
    BY <1>2, <1>5 DEF IInv, TypeOK, graphVars, Private
  <2>3. visited[r] \cup Pending(r)' = visited[r] \cup Pending(r)
    BY <1>5, <2>2 DEF Pending
  <2>4. SearchInv(r)'
    BY <1>2, <1>5, <2>3 DEF SearchInv, graphVars
  <2>5. LockInv'
    BY <1>2, <1>5, <2>2, HoldLock DEF Private
  <2> QED BY <1>2, <1>5, <2>1, <2>2, <2>4, <2>5, PrivateStep DEF graphVars, DfsVisit
<1>6. CASE Finish(r, Extended(s.path, p))
  <2>1. Extended(s.path, p) \in Seq(Parts) /\ UNCHANGED graphVars
    BY <1>2 DEF Extended
  <2> QED BY <1>6, <2>1, FinishStep
<1>7. CASE /\ s.at \notin visited[r]
           /\ p \notin Children(s.at)
           /\ visited' = [visited EXCEPT ![r] = @ \cup {s.at}]
           /\ stack' = [stack EXCEPT ![r] = (@ \ {s}) \cup Pushed(r, s)]
           /\ UNCHANGED <<graphLock, pc, edge, target, answer>>
  <2> DEFINE New == {[at |-> d, path |-> Append(s.path, d)] :
                        d \in Children(s.at) \ (visited[r] \cup {s.at})}
  <2>1. New \in SUBSET [at : Parts, path : Seq(Parts)]
    <3>1. ASSUME NEW d \in Children(s.at)
          PROVE  [at |-> d, path |-> Append(s.path, d)]
                     \in [at : Parts, path : Seq(Parts)]
      <4>1. d \in Parts /\ Append(s.path, d) \in Seq(Parts)
        BY <1>2, <1>3
      <4> QED BY <4>1
    <3> QED BY <3>1
  <2>2. /\ stack'[r] = (stack[r] \ {s}) \cup New
        /\ visited'[r] = visited[r] \cup {s.at}
    BY <1>7 DEF IInv, TypeOK, Pushed, Extended
  <2> HIDE DEF New
  <2>3. stack'[r] \in SUBSET [at : Parts, path : Seq(Parts)]
    BY <2>1, <2>2 DEF IInv, TypeOK
  <2>4. TypeOK'
    BY <1>2, <1>7, <2>3 DEF IInv, TypeOK, graphVars
  <2>5. Private(r)
    BY <1>2, <1>7 DEF IInv, TypeOK, graphVars, Private
  <2>6. {n.at : n \in New} = Children(s.at) \ (visited[r] \cup {s.at})
    <3> DEFINE Found == Children(s.at) \ (visited[r] \cup {s.at})
               entry(d) == [at |-> d, path |-> Append(s.path, d)]
    <3>1. \A d : entry(d).at = d
      OBVIOUS
    <3>2. New = {entry(d) : d \in Found}
      BY DEF New
    <3> HIDE DEF entry, Found
    <3>3. {n.at : n \in New} = {entry(d).at : d \in Found}
      BY <3>2
    <3> QED BY <3>1, <3>3 DEF Found
  <2>7. visited'[r] \cup Pending(r)' =
            visited[r] \cup Pending(r) \cup Children(s.at)
    <3>1. Pending(r)' = {t.at : t \in stack[r] \ {s}} \cup {n.at : n \in New}
      BY <2>2 DEF Pending
    <3>2. Pending(r) = {t.at : t \in stack[r] \ {s}} \cup {s.at}
      BY DEF Pending
    <3> QED BY <2>2, <2>6, <3>1, <3>2
  <2>8. SearchInv(r)'
    BY <1>2, <1>4, <1>7, <2>2, <2>7 DEF SearchInv, graphVars
  <2>9. LockInv'
    BY <1>2, <1>7, <2>5, HoldLock DEF Private
  <2> QED BY <1>2, <1>7, <2>4, <2>5, <2>8, <2>9, PrivateStep DEF graphVars, DfsVisit
<1> QED BY <1>1, <1>5, <1>6, <1>7

LEMMA CheckDuplicateStep ==
    ASSUME IInv, NEW r \in Requests, CheckDuplicate(r)
    PROVE  IInv'
<1>1. CASE Finish(r, <<>>)
  <2>1. <<>> \in Seq(Parts) /\ UNCHANGED graphVars
    BY DEF CheckDuplicate
  <2> QED BY <1>1, <2>1, FinishStep
<1>2. CASE /\ edge[r] \notin Edges(template)
           /\ Goto(r, "insert")
           /\ UNCHANGED <<graphLock, edge, target, dfsVars, answer>>
  <2>1. /\ UNCHANGED graphVars /\ pc[r] = "dfs" /\ pc[r] \in Critical
        /\ stack[r] = {} /\ SearchInv(r) /\ edge[r] \in Parts \X Parts
    BY DEF CheckDuplicate, IInv, DfsInv, EdgeInv, Creating, Critical
  <2>2. TypeOK'
    BY <1>2, <2>1 DEF IInv, TypeOK, Goto, Labels, graphVars, dfsVars
  <2>3. Private(r) /\ pc'[r] = "insert"
    BY <1>2, <2>1 DEF IInv, TypeOK, Goto, graphVars, dfsVars, Private
  <2>4. SearchInv(r)'
    BY <1>2, <2>1 DEF SearchInv, Pending, graphVars, dfsVars
  <2>5. LockInv'
    BY <1>2, <2>1, <2>3, HoldLock DEF Private
  <2> QED BY <1>2, <2>1, <2>2, <2>3, <2>4, <2>5, PrivateStep
          DEF graphVars, dfsVars
<1> QED BY <1>1, <1>2 DEF CheckDuplicate

(* The holder of the lock ends after it wrote: no other request is in the  *)
(* middle of a search that the write could make stale.                     *)
LEMMA WriteStep ==
    ASSUME IInv, NEW r \in Requests, pc[r] \in Critical, Finish(r, <<>>),
           catalog' = catalog, template' \subseteq Row, lastId' \in 0..MaxRows,
           TemplateAcyclic', PairsUniqueAndCatalogued'
    PROVE  IInv'
<1>1. <<>> \in Seq(Parts)
  OBVIOUS
<1>2. TypeOK' /\ LockInv' /\ pc'[r] = "idle"
  BY <1>1, FinishLock DEF IInv, TypeOK
<1>3. \A q \in Requests : pc'[q] \notin Critical
  <2> SUFFICES ASSUME NEW q \in Requests, q # r PROVE pc'[q] \notin Critical
    BY <1>2 DEF Critical
  <2>1. pc'[q] = pc[q]
    BY <1>1, FinishLock DEF IInv
  <2> QED BY <2>1 DEF IInv, LockInv
<1>4. DfsInv' /\ InsertInv'
  BY <1>3 DEF DfsInv, InsertInv, Critical
<1>5. EdgeInv'
  <2> SUFFICES ASSUME NEW q \in Requests, pc'[q] \in Creating
               PROVE  edge'[q] \in Parts \X Parts
    BY DEF EdgeInv
  <2>1. q # r
    BY <1>2 DEF Creating
  <2>2. pc'[q] = pc[q] /\ edge'[q] = edge[q]
    BY <1>1, <2>1, FinishLock DEF IInv
  <2> QED BY <2>2 DEF IInv, EdgeInv
<1> QED BY <1>2, <1>4, <1>5 DEF IInv

LEMMA InsertStep ==
    ASSUME IInv, NEW r \in Requests, Insert(r)
    PROVE  IInv'
<1> DEFINE p == edge[r][1]
           c == edge[r][2]
<1>1. /\ pc[r] = "insert" /\ pc[r] \in Critical /\ Finish(r, <<>>)
      /\ catalog' = catalog /\ stack[r] = {} /\ SearchInv(r)
      /\ edge[r] \notin Edges(template) /\ p \in Parts /\ c \in Parts
      /\ edge[r] = <<p, c>>
  BY DEF Insert, IInv, InsertInv, DfsInv, EdgeInv, Critical, Creating
<1>2. CASE UNCHANGED <<template, lastId>>
  <2>1. <<>> \in Seq(Parts) /\ UNCHANGED graphVars
    BY <1>1, <1>2 DEF graphVars
  <2> QED BY <1>1, <2>1, FinishStep
<1>3. ASSUME NEW flag \in BOOLEAN, {p, c} \subseteq catalog, lastId < MaxRows,
             lastId' = lastId + 1,
             template' = template \cup
                 {[id |-> lastId + 1, parent |-> p, child |-> c,
                   suppress |-> flag]}
      PROVE  IInv'
  <2> DEFINE new == [id |-> lastId + 1, parent |-> p, child |-> c,
                     suppress |-> flag]
  <2>1. new \in Row /\ lastId' \in 0..MaxRows
    BY <1>1, <1>3, MaxRowsAssumption DEF IInv, TypeOK, Row
  <2>2. Edges(template') = Edges(template) \cup {<<p, c>>}
    <3>1. <<new.parent, new.child>> = <<p, c>>
      OBVIOUS
    <3> HIDE DEF new
    <3>2. template' = template \cup {new}
      BY <1>3 DEF new
    <3>3. \A e : e \in Edges(template') <=> e \in Edges(template) \/ e = <<p, c>>
      BY <3>1, <3>2 DEF Edges
    <3> QED BY <3>3
  <2>3. Closed(visited[r], Edges(template)) /\ c \in visited[r] /\ p \notin visited[r]
    BY <1>1 DEF SearchInv, Pending, Closed
  <2>4. Edges(template) \subseteq Parts \X Parts /\ visited[r] \in SUBSET Parts
    BY DEF IInv, TypeOK, Edges, Row
  <2>5. Acyclic(Edges(template) \cup {<<p, c>>})
    BY <1>1, <2>3, <2>4, AcyclicAdd DEF IInv, TemplateAcyclic
  <2>6. TemplateAcyclic'
    BY <2>2, <2>5 DEF TemplateAcyclic
  <2>7. PairsUniqueAndCatalogued'
    <3>1. \A t \in template : ~(t.parent = p /\ t.child = c)
      BY <1>1 DEF Edges
    <3> QED BY <1>1, <1>3, <3>1 DEF IInv, PairsUniqueAndCatalogued
  <2>8. template' \subseteq Row
    BY <1>3, <2>1 DEF IInv, TypeOK
  <2> QED BY <1>1, <2>1, <2>6, <2>7, <2>8, WriteStep
<1> QED BY <1>2, <1>3 DEF Insert

LEMMA PatchStep ==
    ASSUME IInv, NEW r \in Requests, Patch(r)
    PROVE  IInv'
<1>1. PICK flag \in BOOLEAN :
          template' = {IF t.id = target[r] THEN [t EXCEPT !.suppress = flag]
                                           ELSE t : t \in template}
  BY DEF Patch, SetSuppress
<1> DEFINE patched(t) == IF t.id = target[r]
                         THEN [t EXCEPT !.suppress = flag] ELSE t
<1>2. \A t \in Row : /\ patched(t) \in Row
                     /\ patched(t).parent = t.parent
                     /\ patched(t).child = t.child
  BY DEF Row
<1>3. template' = {patched(t) : t \in template} /\ template \subseteq Row
  BY <1>1 DEF IInv, TypeOK
<1> HIDE DEF patched
<1>4. template' \subseteq Row
  BY <1>2, <1>3
<1>5. Edges(template') = Edges(template)
  BY <1>2, <1>3 DEF Edges
<1>6. TemplateAcyclic'
  BY <1>5 DEF IInv, TemplateAcyclic
<1>7. PairsUniqueAndCatalogued'
  BY <1>2, <1>3 DEF IInv, PairsUniqueAndCatalogued, Patch, SetSuppress
<1> QED BY <1>4, <1>6, <1>7, WriteStep
       DEF Patch, SetSuppress, Critical, IInv, TypeOK

LEMMA DeleteStep ==
    ASSUME IInv, NEW r \in Requests, Delete(r)
    PROVE  IInv'
<1>1. template' \subseteq template
  BY DEF Delete, RemoveRow
<1>2. TemplateAcyclic'
  BY <1>1, AcyclicSubgraph DEF IInv, TemplateAcyclic, Edges
<1>3. PairsUniqueAndCatalogued'
  BY <1>1 DEF IInv, PairsUniqueAndCatalogued, Delete, RemoveRow
<1> QED BY <1>1, <1>2, <1>3, WriteStep
       DEF Delete, RemoveRow, Critical, IInv, TypeOK

LEMMA CatalogStep ==
    ASSUME IInv, NEW p \in Parts, CreatePart(p) \/ DeletePart(p)
    PROVE  IInv'
<1>1. UNCHANGED <<template, lastId, graphLock, pc, edge, target, visited,
                  stack, answer>>
  BY DEF CreatePart, DeletePart, AddPart, RemovePart, dfsVars
<1>2. TypeOK'
  BY <1>1 DEF IInv, TypeOK, CreatePart, DeletePart, AddPart, RemovePart
<1>3. LockInv' /\ EdgeInv' /\ DfsInv' /\ InsertInv' /\ TemplateAcyclic'
  BY <1>1 DEF IInv, LockInv, EdgeInv, DfsInv, InsertInv, SearchInv, Pending,
              TemplateAcyclic
<1>4. PairsUniqueAndCatalogued'
  BY <1>1 DEF IInv, PairsUniqueAndCatalogued, CreatePart, DeletePart,
                 AddPart, RemovePart
<1> QED BY <1>2, <1>3, <1>4 DEF IInv

-----------------------------------------------------------------------------
LEMMA NextIInv == IInv /\ [Next]_vars => IInv'
<1> SUFFICES ASSUME IInv, [Next]_vars PROVE IInv'
  OBVIOUS
<1>1. ASSUME NEW r \in Requests, NEW p \in Parts, NEW c \in Parts,
             BeginCreate(r, p, c)
      PROVE  IInv'
  BY <1>1, BeginCreateStep
<1>2. ASSUME NEW r \in Requests, NEW row \in template,
             BeginPatch(r, row) \/ BeginDelete(r, row)
      PROVE  IInv'
  BY <1>2, BeginEditStep DEF BeginPatch, BeginDelete
<1>3. ASSUME NEW r \in Requests, CreateStep(r)
      PROVE  IInv'
  BY <1>3, LockStep, CheckChildStep, DfsVisitStep, CheckDuplicateStep, InsertStep
     DEF CreateStep, LockCreate
<1>4. ASSUME NEW r \in Requests, EditStep(r)
      PROVE  IInv'
  BY <1>4, LockStep, PatchStep, DeleteStep DEF EditStep, LockPatch, LockDelete
<1>5. ASSUME NEW p \in Parts, CreatePart(p) \/ DeletePart(p)
      PROVE  IInv'
  BY <1>5, CatalogStep
<1>6. CASE UNCHANGED vars
  BY <1>6 DEF vars, dfsVars, IInv, TypeOK, LockInv, EdgeInv, DfsInv, InsertInv,
              SearchInv, Pending, TemplateAcyclic, PairsUniqueAndCatalogued
<1> QED BY <1>1, <1>2, <1>3, <1>4, <1>5, <1>6 DEF Next

(* The invariant the results below are read off.                           *)
LEMMA Invariance == Spec => []IInv
BY InitIInv, NextIInv, PTL DEF Spec

(* Whatever the handlers of create_template_item, update_template_item,    *)
(* delete_template_item and the catalog do, and however they interleave,   *)
(* every variable keeps a value of its kind.                               *)
THEOREM TypeCorrect == Spec => []TypeOK
<1>1. IInv => TypeOK
  BY DEF IInv
<1> QED BY <1>1, Invariance, PTL

(* would_create_cycle under the advisory lock keeps the template a DAG.    *)
THEOREM AlwaysAcyclic == Spec => []TemplateAcyclic
<1>1. IInv => TemplateAcyclic
  BY DEF IInv
<1> QED BY <1>1, Invariance, PTL

(* The pre-check under the lock leaves at most one row per part pair, and  *)
(* rows name only parts that the catalog has.                              *)
THEOREM AlwaysUniqueAndCatalogued == Spec => []PairsUniqueAndCatalogued
<1>1. IInv => PairsUniqueAndCatalogued
  BY DEF IInv
<1> QED BY <1>1, Invariance, PTL

-----------------------------------------------------------------------------
(* The handlers implement TemplateGraph                                    *)

(* The INSERT that ends a search without a cycle is an AddRow: the set of  *)
(* visited parts separates the child from the parent.                      *)
LEMMA InsertAddsRow ==
    ASSUME IInv, NEW r \in Requests, Insert(r)
    PROVE  [GraphNext]_graphVars
<1> DEFINE p == edge[r][1]
           c == edge[r][2]
<1>1. /\ pc[r] = "insert" /\ catalog' = catalog /\ stack[r] = {}
      /\ SearchInv(r) /\ edge[r] \notin Edges(template)
      /\ p \in Parts /\ c \in Parts /\ edge[r] = <<p, c>>
  BY DEF Insert, IInv, InsertInv, DfsInv, EdgeInv, Creating
<1>2. CASE UNCHANGED <<template, lastId>>
  BY <1>1, <1>2 DEF graphVars
<1>3. CASE {p, c} \subseteq catalog /\ lastId < MaxRows
  <2>1. PICK flag \in BOOLEAN :
            /\ template' = template \cup
                 {[id |-> lastId + 1, parent |-> p, child |-> c,
                   suppress |-> flag]}
            /\ lastId' = lastId + 1
    BY <1>3 DEF Insert
  <2>2. /\ visited[r] \in SUBSET Parts
        /\ c \in visited[r] /\ p \notin visited[r]
        /\ Closed(visited[r], Edges(template))
    BY <1>1 DEF IInv, TypeOK, SearchInv, Pending, Closed
  <2>3. ~Reaches(Edges(template), c, p)
    BY <2>2 DEF Reaches
  <2>4. AddRow(p, c, flag)
    BY <1>1, <1>3, <2>1, <2>3 DEF AddRow
  <2> QED BY <1>1, <2>4 DEF GraphNext
<1> QED BY <1>2, <1>3 DEF Insert

(* The rows change as TemplateGraph allows: one at a time, and only an     *)
(* edge that closes no cycle is added, whichever handlers run.             *)
THEOREM ImplementsGraph == Spec => GraphSpec
<1>1. Init => GraphInit
  BY DEF Init
<1>2. IInv /\ [Next]_vars => [GraphNext]_graphVars
  <2> SUFFICES ASSUME IInv, [Next]_vars PROVE [GraphNext]_graphVars
    OBVIOUS
  <2>1. ASSUME NEW r \in Requests, NEW p \in Parts, NEW c \in Parts,
               BeginCreate(r, p, c)
        PROVE  UNCHANGED graphVars
    BY <2>1 DEF BeginCreate
  <2>2. ASSUME NEW r \in Requests, NEW row \in template,
               BeginPatch(r, row) \/ BeginDelete(r, row)
        PROVE  UNCHANGED graphVars
    BY <2>2 DEF BeginPatch, BeginDelete, BeginEdit
  <2>3. ASSUME NEW r \in Requests, CreateStep(r)
        PROVE  [GraphNext]_graphVars
    <3>1. CASE Insert(r)
      BY <3>1, InsertAddsRow
    <3>2. CASE LockCreate(r) \/ CheckChild(r) \/ DfsVisit(r) \/ CheckDuplicate(r)
      BY <3>2 DEF LockCreate, Lock, CheckChild, DfsVisit, CheckDuplicate
    <3> QED BY <2>3, <3>1, <3>2 DEF CreateStep
  <2>4. ASSUME NEW r \in Requests, EditStep(r)
        PROVE  [GraphNext]_graphVars
    <3>1. CASE LockPatch(r) \/ LockDelete(r)
      BY <3>1 DEF LockPatch, LockDelete, Lock
    <3>2. CASE Patch(r) \/ Delete(r)
      BY <3>2 DEF Patch, Delete, GraphNext, IInv, TypeOK
    <3> QED BY <2>4, <3>1, <3>2 DEF EditStep
  <2>5. ASSUME NEW p \in Parts, CreatePart(p) \/ DeletePart(p)
        PROVE  GraphNext
    BY <2>5 DEF CreatePart, DeletePart, GraphNext
  <2>6. CASE UNCHANGED vars
    BY <2>6 DEF vars, graphVars
  <2> QED BY <2>1, <2>2, <2>3, <2>4, <2>5, <2>6 DEF Next
<1> QED BY <1>1, <1>2, Invariance, PTL DEF Spec, GraphSpec

-----------------------------------------------------------------------------
(* The paths that a search carries along                                   *)

(* A path that takes the new edge e first and then edges of E.             *)
Follows(path, e, E) ==
    /\ Len(path) \in Nat /\ Len(path) >= 2
    /\ path[1] = e[1] /\ path[2] = e[2]
    /\ \A i \in 2..(Len(path) - 1) : <<path[i], path[i + 1]>> \in E

Leads(s, e, E) == Follows(s.path, e, E) /\ s.path[Len(s.path)] = s.at

PathInv ==
    \A r \in Requests :
        pc[r] = "dfs" => \A s \in stack[r] : Leads(s, edge[r], Edges(template))

LEMMA ExtendedFollows ==
    ASSUME NEW path \in Seq(Parts), NEW e, NEW E, Follows(path, e, E),
           NEW d \in Parts, <<path[Len(path)], d>> \in E,
           NEW longer, longer = Extended(path, d)
    PROVE  Follows(longer, e, E) /\ longer[Len(longer)] = d
<1>1. /\ Len(longer) = Len(path) + 1 /\ Len(path) \in Nat
      /\ \A i \in 1..Len(path) : longer[i] = path[i]
      /\ longer[Len(path) + 1] = d
  BY DEF Extended
<1>2. ASSUME NEW i \in 2..(Len(longer) - 1)
      PROVE  <<longer[i], longer[i + 1]>> \in E
  <2>1. CASE i = Len(path)
    BY <1>1, <2>1
  <2>2. CASE i # Len(path)
    <3>1. i \in 2..(Len(path) - 1)
      BY <1>1, <2>2
    <3>2. longer[i] = path[i] /\ longer[i + 1] = path[i + 1]
      BY <1>1, <3>1
    <3> QED BY <3>1, <3>2 DEF Follows
  <2> QED BY <2>1, <2>2
<1>3. longer[1] = path[1] /\ longer[2] = path[2] /\ Len(longer) >= 2
  BY <1>1 DEF Follows
<1> QED BY <1>1, <1>2, <1>3 DEF Follows

(* A step of r that leaves the template, or is past the lock, is nothing   *)
(* to the searches of the others.                                          *)
LEMMA OthersPaths ==
    ASSUME IInv, PathInv, NEW r \in Requests,
           \A q \in Requests \ {r} :
              pc'[q] = pc[q] /\ edge'[q] = edge[q] /\ stack'[q] = stack[q],
           template' = template \/ pc[r] \in Critical,
           pc'[r] = "dfs" =>
              template' = template
              /\ \A s \in stack'[r] : Leads(s, edge'[r], Edges(template))
    PROVE  PathInv'
<1> SUFFICES ASSUME NEW q \in Requests, pc'[q] = "dfs", NEW s \in stack'[q]
             PROVE  Leads(s, edge'[q], Edges(template'))
  BY DEF PathInv, Leads, Follows, Edges
<1>1. CASE q = r
  BY <1>1
<1>2. CASE q # r
  <2>1. template' = template
    BY <1>2 DEF IInv, LockInv, Critical
  <2> QED BY <1>2, <2>1 DEF PathInv
<1> QED BY <1>1, <1>2

(* How a request may end, in the terms of CyclePathIsReal.                 *)
Reported(r) ==
    LET path == answer'[r]
    IN  path # answer[r] /\ path # <<>> =>
          /\ <<path[1], path[2]>> = edge[r]
          /\ path[Len(path)] = path[1]
          /\ \A i \in 2..(Len(path) - 1) :
                <<path[i], path[i + 1]>> \in Edges(template)

LEMMA FinishPaths ==
    ASSUME IInv, PathInv, NEW r \in Requests, NEW path, Finish(r, path),
           template' = template \/ pc[r] \in Critical,
           \/ path = <<>>
           \/ /\ edge[r] \in Parts \X Parts
              /\ Follows(path, edge[r], Edges(template))
              /\ path[Len(path)] = edge[r][1]
    PROVE  PathInv' /\ \A q \in Requests : Reported(q)
<1>1. /\ pc'[r] = "idle" /\ answer'[r] = path
      /\ \A q \in Requests \ {r} :
            /\ pc'[q] = pc[q] /\ edge'[q] = edge[q] /\ stack'[q] = stack[q]
            /\ answer'[q] = answer[q]
  BY DEF IInv, TypeOK, Finish, Goto
<1>2. PathInv'
  BY <1>1, OthersPaths
<1>3. Reported(r)
  BY <1>1 DEF Reported, Follows
<1> QED BY <1>1, <1>2, <1>3 DEF Reported

(* A handler that starts, waits or takes the lock, or goes on.             *)
LEMMA GoPaths ==
    ASSUME IInv, PathInv, NEW r \in Requests,
           \A q \in Requests \ {r} :
              pc'[q] = pc[q] /\ edge'[q] = edge[q] /\ stack'[q] = stack[q],
           \A q \in Requests : answer'[q] \in {answer[q], <<>>},
           template' = template,
           pc'[r] = "dfs" =>
              \A s \in stack'[r] : Leads(s, edge'[r], Edges(template))
    PROVE  PathInv' /\ \A q \in Requests : Reported(q)
<1>1. PathInv'
  BY OthersPaths
<1>2. \A q \in Requests : Reported(q)
  BY DEF Reported
<1> QED BY <1>1, <1>2

LEMMA CheckChildPaths ==
    ASSUME IInv, PathInv, NEW r \in Requests, CheckChild(r)
    PROVE  PathInv' /\ \A q \in Requests : Reported(q)
<1> DEFINE p == edge[r][1]
           c == edge[r][2]
<1>1. /\ p \in Parts /\ c \in Parts /\ edge[r] = <<p, c>> /\ template' = template
      /\ edge[r] \in Parts \X Parts
  BY DEF CheckChild, IInv, EdgeInv, Creating, graphVars
<1>2. CASE Finish(r, <<>>)
  BY <1>1, <1>2, FinishPaths
<1>3. CASE p = c /\ Finish(r, <<p, p>>)
  <2>1. Follows(<<p, p>>, edge[r], Edges(template)) /\ <<p, p>>[Len(<<p, p>>)] = p
    BY <1>1, <1>3 DEF Follows
  <2> QED BY <1>1, <1>3, <2>1, FinishPaths
<1>4. CASE /\ Goto(r, "dfs")
           /\ stack' = [stack EXCEPT ![r] = {[at |-> c, path |-> <<p, c>>]}]
           /\ UNCHANGED <<graphLock, edge, target, answer>>
  <2> DEFINE first == [at |-> c, path |-> <<p, c>>]
  <2>1. Leads(first, edge[r], Edges(template))
    BY <1>1 DEF Leads, Follows
  <2>2. stack'[r] = {first}
    BY <1>4 DEF IInv, TypeOK
  <2>3. /\ \A q \in Requests \ {r} :
              pc'[q] = pc[q] /\ edge'[q] = edge[q] /\ stack'[q] = stack[q]
        /\ edge'[r] = edge[r] /\ answer' = answer
    BY <1>4 DEF IInv, TypeOK, Goto
  <2> HIDE DEF first
  <2>4. \A s \in stack'[r] : Leads(s, edge'[r], Edges(template))
    BY <2>1, <2>2, <2>3
  <2> QED BY <1>1, <2>3, <2>4, GoPaths
<1> QED BY <1>2, <1>3, <1>4 DEF CheckChild

LEMMA DfsVisitPaths ==
    ASSUME IInv, PathInv, NEW r \in Requests, DfsVisit(r)
    PROVE  PathInv' /\ \A q \in Requests : Reported(q)
<1> DEFINE p == edge[r][1]
<1>1. PICK s \in stack[r] : DfsVisit(r)!2!(s)
  BY DEF DfsVisit
<1>2. /\ s.at \in Parts /\ s.path \in Seq(Parts) /\ p \in Parts
      /\ edge[r] \in Parts \X Parts /\ template' = template /\ pc[r] = "dfs"
  BY DEF DfsVisit, IInv, TypeOK, EdgeInv, Creating, graphVars
<1>3. Children(s.at) \subseteq Parts
  BY DEF IInv, TypeOK, Children, Row
<1>4. Follows(s.path, edge[r], Edges(template)) /\ s.path[Len(s.path)] = s.at
  BY <1>2 DEF PathInv, Leads
<1>5. \A d \in Children(s.at) : <<s.path[Len(s.path)], d>> \in Edges(template)
  BY <1>4 DEF Children, Edges
<1>6. \A d \in Children(s.at) :
         /\ Follows(Extended(s.path, d), edge[r], Edges(template))
         /\ Extended(s.path, d)[Len(Extended(s.path, d))] = d
  <2>1. ASSUME NEW d \in Children(s.at)
        PROVE  /\ Follows(Extended(s.path, d), edge[r], Edges(template))
               /\ Extended(s.path, d)[Len(Extended(s.path, d))] = d
    <3>1. d \in Parts /\ <<s.path[Len(s.path)], d>> \in Edges(template)
      BY <1>3, <1>5
    <3>2. PICK longer : longer = Extended(s.path, d)
      OBVIOUS
    <3>3. Follows(longer, edge[r], Edges(template)) /\ longer[Len(longer)] = d
      BY <1>2, <1>4, <3>1, <3>2, ExtendedFollows
    <3> QED BY <3>2, <3>3
  <2> QED BY <2>1
<1>7. CASE /\ stack' = [stack EXCEPT ![r] = @ \ {s}]
           /\ UNCHANGED <<graphLock, pc, edge, target, visited, answer>>
  <2>1. /\ \A q \in Requests \ {r} :
              pc'[q] = pc[q] /\ edge'[q] = edge[q] /\ stack'[q] = stack[q]
        /\ edge'[r] = edge[r] /\ answer' = answer /\ stack'[r] \subseteq stack[r]
    BY <1>7 DEF IInv, TypeOK
  <2>2. \A t \in stack'[r] : Leads(t, edge'[r], Edges(template))
    BY <1>2, <2>1 DEF PathInv
  <2> QED BY <1>2, <2>1, <2>2, GoPaths
<1>8. CASE p \in Children(s.at) /\ Finish(r, Extended(s.path, p))
  BY <1>2, <1>6, <1>8, FinishPaths
<1>9. CASE /\ stack' = [stack EXCEPT ![r] = (@ \ {s}) \cup Pushed(r, s)]
           /\ UNCHANGED <<graphLock, pc, edge, target, answer>>
  <2>1. /\ \A q \in Requests \ {r} :
              pc'[q] = pc[q] /\ edge'[q] = edge[q] /\ stack'[q] = stack[q]
        /\ edge'[r] = edge[r] /\ answer' = answer
        /\ stack'[r] \subseteq stack[r] \cup Pushed(r, s)
    BY <1>9 DEF IInv, TypeOK
  <2>2. \A t \in Pushed(r, s) : Leads(t, edge[r], Edges(template))
    BY <1>6 DEF Pushed, Leads
  <2>3. \A t \in stack'[r] : Leads(t, edge'[r], Edges(template))
    BY <1>2, <2>1, <2>2 DEF PathInv
  <2> QED BY <1>2, <2>1, <2>3, GoPaths
<1> QED BY <1>1, <1>7, <1>8, <1>9

LEMMA RequestPaths ==
    ASSUME IInv, PathInv, NEW r \in Requests,
           \/ \E p, c \in Parts : BeginCreate(r, p, c)
           \/ \E row \in template : BeginPatch(r, row) \/ BeginDelete(r, row)
           \/ CreateStep(r)
           \/ EditStep(r)
    PROVE  PathInv' /\ \A q \in Requests : Reported(q)
<1> USE DEF IInv, TypeOK
<1>1. ASSUME NEW p \in Parts, NEW c \in Parts, BeginCreate(r, p, c)
      PROVE  PathInv' /\ \A q \in Requests : Reported(q)
  <2>1. /\ \A q \in Requests \ {r} :
              pc'[q] = pc[q] /\ edge'[q] = edge[q] /\ stack'[q] = stack[q]
        /\ \A q \in Requests : answer'[q] \in {answer[q], <<>>}
        /\ template' = template /\ pc'[r] = "lockCreate"
    BY <1>1 DEF BeginCreate, Goto, graphVars, dfsVars
  <2> QED BY <2>1, GoPaths
<1>2. ASSUME NEW row \in template, NEW label \in {"lockPatch", "lockDelete"},
             BeginEdit(r, row, label)
      PROVE  PathInv' /\ \A q \in Requests : Reported(q)
  <2>1. /\ \A q \in Requests \ {r} :
              pc'[q] = pc[q] /\ edge'[q] = edge[q] /\ stack'[q] = stack[q]
        /\ \A q \in Requests : answer'[q] \in {answer[q], <<>>}
        /\ template' = template /\ pc'[r] = label
    BY <1>2 DEF BeginEdit, Goto, graphVars, dfsVars
  <2> QED BY <2>1, GoPaths
<1>3. ASSUME NEW from, NEW to \in {"checkChild", "patch", "delete"}, Lock(r, from, to)
      PROVE  PathInv' /\ \A q \in Requests : Reported(q)
  <2>1. /\ \A q \in Requests \ {r} :
              pc'[q] = pc[q] /\ edge'[q] = edge[q] /\ stack'[q] = stack[q]
        /\ \A q \in Requests : answer'[q] \in {answer[q], <<>>}
        /\ template' = template /\ pc'[r] = to
    BY <1>3 DEF Lock, Goto, graphVars, dfsVars
  <2> QED BY <2>1, GoPaths
<1>4. CASE CheckDuplicate(r)
  <2>1. CASE Finish(r, <<>>)
    BY <1>4, <2>1, FinishPaths DEF CheckDuplicate, graphVars
  <2>2. CASE Goto(r, "insert") /\ UNCHANGED <<graphLock, edge, target, dfsVars, answer>>
    <3>1. /\ \A q \in Requests \ {r} :
                pc'[q] = pc[q] /\ edge'[q] = edge[q] /\ stack'[q] = stack[q]
          /\ \A q \in Requests : answer'[q] \in {answer[q], <<>>}
          /\ template' = template /\ pc'[r] = "insert"
      BY <1>4, <2>2 DEF CheckDuplicate, Goto, graphVars, dfsVars
    <3> QED BY <3>1, GoPaths
  <2> QED BY <1>4, <2>1, <2>2 DEF CheckDuplicate
<1>5. CASE Insert(r) \/ Patch(r) \/ Delete(r)
  <2>1. Finish(r, <<>>) /\ pc[r] \in Critical
    BY <1>5 DEF Insert, Patch, Delete, Critical
  <2> QED BY <2>1, FinishPaths
<1> QED BY <1>1, <1>2, <1>3, <1>4, <1>5, CheckChildPaths, DfsVisitPaths
     DEF CreateStep, EditStep, LockCreate, LockPatch, LockDelete, BeginPatch, BeginDelete

LEMMA NextPaths ==
    ASSUME IInv, PathInv, [Next]_vars
    PROVE  PathInv' /\ \A q \in Requests : Reported(q)
<1>1. ASSUME UNCHANGED <<template, pc, edge, stack, answer>>
      PROVE  PathInv' /\ \A q \in Requests : Reported(q)
  BY <1>1 DEF PathInv, Leads, Follows, Edges, Reported
<1>2. CASE UNCHANGED vars
  BY <1>1, <1>2 DEF vars, dfsVars
<1>3. ASSUME NEW p \in Parts, CreatePart(p) \/ DeletePart(p)
      PROVE  PathInv' /\ \A q \in Requests : Reported(q)
  BY <1>1, <1>3 DEF CreatePart, DeletePart, AddPart, RemovePart, dfsVars
<1> QED BY <1>2, <1>3, RequestPaths DEF Next

LEMMA PathInvariance == Spec => [](IInv /\ PathInv)
<1>1. Init => PathInv
  BY DEF Init, PathInv
<1>2. IInv /\ PathInv /\ [Next]_vars => PathInv'
  BY NextPaths
<1> QED BY <1>1, <1>2, Invariance, PTL DEF Spec

(* A 409 of create_template_item never names a cycle that is not there:    *)
(* the path that the search carries along follows rows which are in the    *)
(* table until the answer, for whoever could take them away waits.         *)
THEOREM CyclesAreReal == Spec => CyclePathIsReal
<1>1. IInv /\ PathInv /\ [Next]_vars =>
        [\A r \in Requests :
           LET path == answer'[r]
           IN  path # answer[r] /\ path # <<>> =>
                 /\ <<path[1], path[2]>> = edge[r]
                 /\ path[Len(path)] = path[1]
                 /\ \A i \in 2..(Len(path) - 1) :
                       <<path[i], path[i + 1]>> \in Edges(template)]_vars
  BY NextPaths DEF Reported
<1> QED BY <1>1, PathInvariance, PTL DEF Spec, CyclePathIsReal
=============================================================================
