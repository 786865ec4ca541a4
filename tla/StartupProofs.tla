--------------------------- MODULE StartupProofs ---------------------------
(***************************************************************************)
(* Proofs about Startup for any number of containers and processes and any *)
(* bound on the faults.                                                    *)
(***************************************************************************)
EXTENDS Startup, FiniteSetTheorems, TLAPS

(* The resources whose creation is a race.                                 *)
Raced == {"tables", "version", "collection"}

(* How far a process is, and what must exist by then.                      *)
AfterTables     == {"findVersion", "readHeads", "stamp"}
AfterVersion    == {"findCollection", "createCollection"}
AfterCollection == {"indexTenant", "indexDocument", "serving"}

Progress ==
    \A p \in Processes :
        /\ pc[p] \in AfterTables \cup AfterVersion \cup AfterCollection
              => "tables" \in prepared
        /\ pc[p] \in AfterVersion \cup AfterCollection => "version" \in prepared
        /\ pc[p] \in AfterCollection => "collection" \in prepared
        /\ pc[p] = "indexDocument" => "tenant_id" \in prepared

(* Resource r exists, and no process of container c is about to create it: *)
(* c can no longer lose this race.                                         *)
About(c, r) == \E s \in Slots : /\ pc[<<c, s>>] \in DOMAIN Creates
                                /\ Creates[pc[<<c, s>>]] = r
Decided(c)  == {r \in Raced \cap prepared : ~About(c, r)}

(* A container that runs was started again at most once for each race that *)
(* is decided for it; one that halts had not lost every race before.       *)
Restarted ==
    \A c \in Containers :
        /\ c \notin halted => restarts[c] <= Cardinality(Decided(c)) + faults
        /\ c \in halted => restarts[c] + 1 <= Cardinality(Raced \cap prepared) + faults

------------------------------------------------------------------------------
LEMMA CreatesValues ==
    /\ DOMAIN Creates = {"createTables", "stamp", "createCollection",
                         "indexTenant", "indexDocument"}
    /\ Creates["createTables"] = "tables"
    /\ Creates["stamp"] = "version"
    /\ Creates["createCollection"] = "collection"
    /\ Creates["indexTenant"] = "tenant_id"
    /\ Creates["indexDocument"] = "document_id"
  BY DEF Creates

(* What a write creates is a resource.                                     *)
LEMMA CreatesType == \A step \in DOMAIN Creates : Creates[step] \in Resources
  BY CreatesValues DEF Resources

LEMMA StartingValues ==
    Starting = {"findTables", "findVersion", "readHeads", "findCollection",
                "createTables", "stamp", "createCollection",
                "indexTenant", "indexDocument"}
  BY CreatesValues DEF Starting

(* A process' steps, without the definitions they share.                   *)
LEMMA LifespanSteps ==
    ASSUME NEW p \in Processes, Lifespan(p), TypeOK
    PROVE  /\ faults' = faults /\ restarts' = restarts
           /\ \/ \E to \in Starting \cup {"serving"} :
                    /\ pc' = [pc EXCEPT ![p] = to]
                    /\ halted' = halted
                    /\ \/ /\ prepared' = prepared
                          /\ \/ /\ pc[p] = "findTables" /\ to = "findVersion"
                                /\ "tables" \in prepared
                             \/ /\ pc[p] = "findTables" /\ to = "createTables"
                                /\ "tables" \notin prepared
                             \/ /\ pc[p] = "findVersion" /\ to = "findCollection"
                                /\ "version" \in prepared
                             \/ /\ pc[p] = "findVersion" /\ to = "readHeads"
                                /\ "version" \notin prepared
                             \/ /\ pc[p] = "readHeads" /\ to = "findCollection"
                                /\ "version" \in prepared
                             \/ /\ pc[p] = "readHeads" /\ to = "stamp"
                                /\ "version" \notin prepared
                             \/ /\ pc[p] = "findCollection" /\ to = "serving"
                                /\ "collection" \in prepared
                             \/ /\ pc[p] = "findCollection" /\ to = "createCollection"
                                /\ "collection" \notin prepared
                       \/ /\ pc[p] \in DOMAIN Creates
                          /\ prepared' = prepared \cup {Creates[pc[p]]}
                          /\ \/ pc[p] = "createTables" /\ to = "findVersion"
                             \/ pc[p] = "stamp" /\ to = "findCollection"
                             \/ pc[p] = "createCollection" /\ to = "indexTenant"
                             \/ pc[p] = "indexTenant" /\ to = "indexDocument"
                             \/ pc[p] = "indexDocument" /\ to = "serving"
              \/ /\ pc[p] \in {"createTables", "stamp", "createCollection"}
                 /\ Creates[pc[p]] \in prepared
                 /\ pc' = [pc EXCEPT ![p] = "stopped"]
                 /\ halted' = halted \cup {p[1]}
                 /\ prepared' = prepared
  <1> USE StartingValues, CreatesValues
  <1>1. CASE FindTables(p)       BY <1>1 DEF FindTables, Look, Goto
  <1>2. CASE CreateTables(p)     BY <1>2 DEF CreateTables, Create, Goto, BootFails
  <1>3. CASE FindVersion(p)      BY <1>3 DEF FindVersion, Look, Goto
  <1>4. CASE ReadHeads(p)        BY <1>4 DEF ReadHeads, Look, Goto
  <1>5. CASE Stamp(p)            BY <1>5 DEF Stamp, Create, Goto, BootFails
  <1>6. CASE FindCollection(p)   BY <1>6 DEF FindCollection, Look, Goto
  <1>7. CASE CreateCollection(p) BY <1>7 DEF CreateCollection, Create, Goto, BootFails
  <1>8. CASE IndexTenant(p)      BY <1>8 DEF IndexTenant, IndexField, Goto
  <1>9. CASE IndexDocument(p)    BY <1>9 DEF IndexDocument, IndexField, Goto
  <1> QED
    BY <1>1, <1>2, <1>3, <1>4, <1>5, <1>6, <1>7, <1>8, <1>9 DEF Lifespan

------------------------------------------------------------------------------
(* The variables keep their types, and processes are stopped only in a     *)
(* container that is halting.                                              *)
LEMMA TypeInit == Init => TypeOK
  BY MaxFaultsAssumption DEF Init, TypeOK, Processes, Resources, Starting

LEMMA TypeNext == TypeOK /\ [Next]_vars => TypeOK'
  <1> SUFFICES ASSUME TypeOK, [Next]_vars PROVE TypeOK'
    OBVIOUS
  <1> USE MaxFaultsAssumption DEF TypeOK
  <1>0. \A p \in Processes : p[1] \in Containers /\ p = <<p[1], p[2]>> /\ p[2] \in Slots
    BY DEF Processes
  <1>1. ASSUME NEW p \in Processes, Lifespan(p) PROVE TypeOK'
    BY <1>0, <1>1, LifespanSteps, CreatesType
  <1>2. ASSUME NEW p \in Processes, Stop(p) PROVE TypeOK'
    BY <1>0, <1>2 DEF Stop, Goto
  <1>3. ASSUME NEW p \in Processes, CallFails(p) PROVE TypeOK'
    BY <1>0, <1>3, CreatesType DEF CallFails, Fault, BootFails, Goto
  <1>4. ASSUME NEW p \in Processes, FindVersionFails(p) PROVE TypeOK'
    BY <1>0, <1>4, StartingValues DEF FindVersionFails, Fault, Goto
  <1>5. ASSUME NEW p \in Processes, Die(p) PROVE TypeOK'
    BY <1>0, <1>5, StartingValues DEF Die, Fault, Goto
  <1>6. ASSUME NEW c \in Containers, ContainerDies(c) PROVE TypeOK'
    BY <1>0, <1>6 DEF ContainerDies, Fault
  <1>7. ASSUME NEW c \in Containers, Restart(c) PROVE TypeOK'
    BY <1>0, <1>7, StartingValues DEF Restart
  <1>8. CASE UNCHANGED vars
    BY <1>8 DEF vars
  <1> QED
    BY <1>1, <1>2, <1>3, <1>4, <1>5, <1>6, <1>7, <1>8 DEF Next

THEOREM TypeCorrect == Spec => []TypeOK
  BY TypeInit, TypeNext, PTL DEF Spec

------------------------------------------------------------------------------
(* What a process has passed exists: resources are never removed, and a    *)
(* process moves on only when it found or created them.                    *)
LEMMA ProgressInit == Init => Progress
  BY DEF Init, Progress, AfterTables, AfterVersion, AfterCollection

LEMMA ProgressNext == TypeOK /\ Progress /\ [Next]_vars => Progress'
  <1> SUFFICES ASSUME TypeOK, Progress, [Next]_vars PROVE Progress'
    OBVIOUS
  <1> USE DEF Progress, AfterTables, AfterVersion, AfterCollection
  <1>0. pc \in [Processes -> Starting \cup {"serving", "stopped"}]
    BY DEF TypeOK
  <1>1. ASSUME NEW p \in Processes, Lifespan(p) PROVE Progress'
    <2>1. /\ prepared \subseteq prepared'
          /\ \E to \in Starting \cup {"serving", "stopped"} :
                pc' = [pc EXCEPT ![p] = to]
      BY <1>1, LifespanSteps
    <2>2. ASSUME NEW q \in Processes, q # p PROVE pc'[q] = pc[q]
      BY <2>1, <2>2, <1>0
    <2>3. /\ pc'[p] \in AfterTables \cup AfterVersion \cup AfterCollection
                => "tables" \in prepared'
          /\ pc'[p] \in AfterVersion \cup AfterCollection => "version" \in prepared'
          /\ pc'[p] \in AfterCollection => "collection" \in prepared'
          /\ pc'[p] = "indexDocument" => "tenant_id" \in prepared'
      BY <1>0, <1>1, LifespanSteps, CreatesValues
    <2> QED
      BY <2>1, <2>2, <2>3
  <1>2. ASSUME NEW p \in Processes, Stop(p) PROVE Progress'
    BY <1>0, <1>2 DEF Stop, Goto
  <1>3. ASSUME NEW p \in Processes, CallFails(p) PROVE Progress'
    BY <1>0, <1>3 DEF CallFails, BootFails, Goto
  <1>4. ASSUME NEW p \in Processes, FindVersionFails(p) PROVE Progress'
    BY <1>0, <1>4 DEF FindVersionFails, Goto
  <1>5. ASSUME NEW p \in Processes, Die(p) PROVE Progress'
    BY <1>0, <1>5 DEF Die, Goto
  <1>6. ASSUME NEW c \in Containers, ContainerDies(c) PROVE Progress'
    BY <1>0, <1>6 DEF ContainerDies
  <1>7. ASSUME NEW c \in Containers, Restart(c) PROVE Progress'
    BY <1>0, <1>7 DEF Restart
  <1>8. CASE UNCHANGED vars
    BY <1>8 DEF vars
  <1> QED
    BY <1>1, <1>2, <1>3, <1>4, <1>5, <1>6, <1>7, <1>8 DEF Next

(* No process serves before the tables, the version and the collection     *)
(* exist.                                                                  *)
THEOREM ServesPrepared == Spec => []ServingIsPrepared
  <1>1. TypeOK /\ Progress => ServingIsPrepared
    BY DEF Progress, AfterCollection, ServingIsPrepared, Serving
  <1> QED
    BY <1>1, TypeInit, TypeNext, ProgressInit, ProgressNext, PTL DEF Spec

------------------------------------------------------------------------------
(* Without faults the process that created the collection indexes it: the  *)
(* other processes never reach these steps, and a shutdown waits for them. *)
LEMMA IndexesInit == Init => IndexesLostOnlyByFault
  BY DEF Init, IndexesLostOnlyByFault

LEMMA IndexesNext ==
    TypeOK /\ Progress /\ IndexesLostOnlyByFault /\ [Next]_vars => IndexesLostOnlyByFault'
  <1> SUFFICES ASSUME TypeOK, Progress, IndexesLostOnlyByFault, [Next]_vars,
                      faults' = 0, "collection" \in prepared',
                      ~(Indexes \subseteq prepared')
               PROVE  \E q \in Processes : pc'[q] \in {"indexTenant", "indexDocument"}
    BY DEF IndexesLostOnlyByFault
  <1> USE DEF Indexes
  <1>0. pc \in [Processes -> Starting \cup {"serving", "stopped"}] /\ faults \in Nat
    BY MaxFaultsAssumption DEF TypeOK
  <1>a. ASSUME faults = 0, "collection" \in prepared, ~(Indexes \subseteq prepared)
        PROVE  \E q \in Processes : pc[q] \in {"indexTenant", "indexDocument"}
    BY <1>a DEF IndexesLostOnlyByFault
  <1>1. ASSUME NEW p \in Processes, Lifespan(p)
        PROVE  \E q \in Processes : pc'[q] \in {"indexTenant", "indexDocument"}
    <2>1. CASE pc[p] \notin {"createCollection", "indexTenant", "indexDocument"}
      <3>1. /\ "collection" \in prepared
            /\ ~(Indexes \subseteq prepared)
            /\ faults = 0
        BY <2>1, <1>1, LifespanSteps, CreatesValues
      <3>2. PICK q \in Processes : pc[q] \in {"indexTenant", "indexDocument"}
        BY <3>1, <1>a
      <3>3. q # p /\ \E to : pc' = [pc EXCEPT ![p] = to]
        BY <3>2, <2>1, <1>1, LifespanSteps
      <3> QED
        BY <3>2, <3>3, <1>0
    <2>2. CASE pc[p] = "createCollection"
      <3>1. CASE "collection" \in prepared
        <4>1. /\ ~(Indexes \subseteq prepared)
              /\ faults = 0
              /\ \E to : pc' = [pc EXCEPT ![p] = to]
          BY <2>2, <1>1, LifespanSteps
        <4>2. PICK q \in Processes : pc[q] \in {"indexTenant", "indexDocument"}
          BY <3>1, <4>1, <1>a
        <4> QED
          BY <2>2, <4>1, <4>2, <1>0
      <3>2. CASE "collection" \notin prepared
        BY <3>2, <2>2, <1>0, <1>1, LifespanSteps, CreatesValues
      <3> QED
        BY <3>1, <3>2
    <2>3. CASE pc[p] = "indexTenant"
      BY <2>3, <1>0, <1>1, LifespanSteps
    <2>4. CASE pc[p] = "indexDocument"
      <3>1. "tenant_id" \in prepared
        BY <2>4 DEF Progress
      <3>2. prepared' = prepared \cup {"document_id"}
        BY <2>4, <1>1, LifespanSteps, CreatesValues
      <3> QED
        BY <3>1, <3>2
    <2> QED
      BY <2>1, <2>2, <2>3, <2>4
  <1>2. ASSUME UNCHANGED <<prepared, faults>>,
               \A q \in Processes : pc'[q] # pc[q] => pc[q] \in {"serving", "stopped"}
        PROVE  \E q \in Processes : pc'[q] \in {"indexTenant", "indexDocument"}
    BY <1>2, <1>a
  <1>3. ASSUME NEW p \in Processes, Stop(p)
        PROVE  \E q \in Processes : pc'[q] \in {"indexTenant", "indexDocument"}
    BY <1>0, <1>2, <1>3 DEF Stop, Goto
  <1>4. ASSUME NEW c \in Containers, Restart(c)
        PROVE  \E q \in Processes : pc'[q] \in {"indexTenant", "indexDocument"}
    BY <1>0, <1>2, <1>4 DEF Restart, Processes
  <1>5. CASE UNCHANGED vars
    BY <1>2, <1>5 DEF vars
  <1>6. ~Fault
    BY <1>0 DEF Fault
  <1> QED
    BY <1>1, <1>3, <1>4, <1>5, <1>6 DEF Next, CallFails, FindVersionFails, Die, ContainerDies

(* The races alone never lose the indexes of the collection.               *)
THEOREM IndexesNotLost == Spec => []IndexesLostOnlyByFault
  BY TypeInit, TypeNext, ProgressInit, ProgressNext, IndexesInit, IndexesNext, PTL DEF Spec

------------------------------------------------------------------------------
(* Subsets of the three races.                                             *)
LEMMA RacedCardinality ==
    /\ Cardinality(Raced) = 3
    /\ \A S \in SUBSET Raced : IsFiniteSet(S) /\ Cardinality(S) \in Nat
    /\ \A T \in SUBSET Raced : \A S \in SUBSET T : Cardinality(S) <= Cardinality(T)
    /\ \A T \in SUBSET Raced : \A S \in SUBSET T : \A r \in T \ S :
          Cardinality(S) + 1 <= Cardinality(T)
  <1>1. IsFiniteSet(Raced) /\ Cardinality(Raced) = 3
    <2>1. IsFiniteSet({}) /\ Cardinality({}) = 0
      BY FS_EmptySet
    <2>2. IsFiniteSet({"tables"}) /\ Cardinality({"tables"}) = 1
      BY FS_Singleton
    <2>3. IsFiniteSet({"tables", "version"}) /\ Cardinality({"tables", "version"}) = 2
      <3>1. {"tables", "version"} = {"tables"} \cup {"version"} /\ "version" \notin {"tables"}
        OBVIOUS
      <3> QED
        BY <2>2, <3>1, FS_AddElement
    <2>4. Raced = {"tables", "version"} \cup {"collection"}
          /\ "collection" \notin {"tables", "version"}
      BY DEF Raced
    <2> QED
      BY <2>3, <2>4, FS_AddElement
  <1>2. \A S \in SUBSET Raced : IsFiniteSet(S) /\ Cardinality(S) \in Nat
    BY <1>1, FS_Subset, FS_CardinalityType
  <1>3. \A T \in SUBSET Raced : \A S \in SUBSET T : Cardinality(S) <= Cardinality(T)
    BY <1>2, FS_Subset
  <1>4. ASSUME NEW T \in SUBSET Raced, NEW S \in SUBSET T, NEW r \in T \ S
        PROVE  Cardinality(S) + 1 <= Cardinality(T)
    <2>1. S \in SUBSET Raced /\ S \cup {r} \in SUBSET T
      OBVIOUS
    <2>2. Cardinality(S \cup {r}) = Cardinality(S) + 1
      BY <1>2, <2>1, FS_AddElement
    <2> QED
      BY <1>3, <2>1, <2>2
  <1> QED
    BY <1>1, <1>2, <1>3, <1>4

LEMMA DecidedSubset == \A c \in Containers : Decided(c) \subseteq Raced \cap prepared
  BY DEF Decided

(* A race stays decided for a container: a process that would create the   *)
(* resource by now finds it.                                               *)
LEMMA DecidedGrows ==
    ASSUME NEW c \in Containers, prepared \subseteq prepared',
           \A s \in Slots :
              /\ pc'[<<c, s>>] # pc[<<c, s>>]
              /\ pc'[<<c, s>>] \in DOMAIN Creates
              => Creates[pc'[<<c, s>>]] \notin Raced \cap prepared
    PROVE  Decided(c) \subseteq Decided(c)'
  BY CreatesValues DEF Decided, About, Raced

LEMMA RestartedInit == Init => Restarted
  <1> SUFFICES ASSUME Init, NEW c \in Containers
               PROVE  restarts[c] <= Cardinality(Decided(c)) + faults
    BY DEF Restarted, Init
  <1>1. Cardinality(Decided(c)) \in Nat
    BY DecidedSubset, RacedCardinality
  <1> QED
    BY <1>1 DEF Init

LEMMA RestartedNext == TypeOK /\ Restarted /\ [Next]_vars => Restarted'
  <1> SUFFICES ASSUME TypeOK, Restarted, [Next]_vars, NEW c \in Containers
               PROVE  /\ c \notin halted' =>
                            restarts'[c] <= Cardinality(Decided(c)') + faults'
                      /\ c \in halted' =>
                            restarts'[c] + 1 <= Cardinality(Raced \cap prepared') + faults'
    BY DEF Restarted
  <1> DEFINE D  == Decided(c)
             E  == Decided(c)'
             P  == Raced \cap prepared
             Q  == Raced \cap prepared'
             Goal == /\ c \notin halted' => restarts'[c] <= Cardinality(E) + faults'
                     /\ c \in halted' => restarts'[c] + 1 <= Cardinality(Q) + faults'
  <1>a. /\ c \notin halted => restarts[c] <= Cardinality(D) + faults
        /\ c \in halted => restarts[c] + 1 <= Cardinality(P) + faults
    BY DEF Restarted
  <1>b. D \subseteq P /\ P \subseteq Raced /\ E \subseteq Q /\ Q \subseteq Raced
    BY DEF Decided
  <1>c. /\ faults \in Nat /\ restarts \in [Containers -> Nat]
        /\ pc \in [Processes -> Starting \cup {"serving", "stopped"}]
        /\ \A s \in Slots : <<c, s>> \in Processes
    BY MaxFaultsAssumption DEF TypeOK, Processes
  <1>d. /\ Cardinality(D) \in Nat /\ Cardinality(E) \in Nat
        /\ Cardinality(P) \in Nat /\ Cardinality(Q) \in Nat
        /\ Cardinality(D) <= Cardinality(P)
    BY <1>b, RacedCardinality
  <1> HIDE DEF D, E, P, Q
  <1>e. ASSUME prepared \subseteq prepared' PROVE Cardinality(P) <= Cardinality(Q)
    <2>1. P \subseteq Q
      BY <1>e DEF P, Q
    <2> QED
      BY <1>b, <2>1, RacedCardinality
  (* A container that goes on running, or on halting, keeps its bound.     *)
  <1>f. ASSUME D \subseteq E, prepared \subseteq prepared', restarts'[c] = restarts[c],
               faults' \in Nat, faults <= faults', c \in halted <=> c \in halted'
        PROVE  Goal
    <2>1. Cardinality(D) <= Cardinality(E)
      BY <1>b, <1>f, RacedCardinality
    <2> QED
      BY <1>a, <1>c, <1>d, <1>e, <1>f, <2>1
  (* So does one that is halted by a fault.                                *)
  <1>g. ASSUME prepared \subseteq prepared', restarts'[c] = restarts[c],
               faults' = faults + 1, c \in halted'
        PROVE  Goal
    BY <1>a, <1>c, <1>d, <1>e, <1>g
  <1>1. ASSUME NEW p \in Processes, Lifespan(p) PROVE Goal
    <2>1. /\ prepared \subseteq prepared'
          /\ restarts' = restarts /\ faults' = faults
          /\ \A q \in Processes : q # p => pc'[q] = pc[q]
      BY <1>c, <1>1, LifespanSteps
    <2>2. \/ pc'[p] \notin DOMAIN Creates
          \/ Creates[pc'[p]] \notin Raced \cap prepared
      BY <1>c, <1>1, LifespanSteps, CreatesValues DEF Raced
    <2>3. D \subseteq E
      BY <2>1, <2>2, <1>c, DecidedGrows DEF D, E
    <2>4. CASE c \in halted <=> c \in halted'
      BY <1>c, <1>f, <2>1, <2>3, <2>4
    <2>5. CASE ~(c \in halted <=> c \in halted')
      <3>1. /\ c \notin halted /\ c \in halted' /\ c = p[1]
            /\ pc[p] \in {"createTables", "stamp", "createCollection"}
            /\ Creates[pc[p]] \in prepared
        BY <2>5, <1>1, LifespanSteps
      <3>2. PICK s \in Slots : p = <<c, s>>
        BY <3>1 DEF Processes
      <3>3. /\ Creates[pc[p]] \in P
            /\ About(c, Creates[pc[p]])
        BY <3>1, <3>2, CreatesValues DEF P, Raced, About
      <3>4. Creates[pc[p]] \notin D
        BY <3>3 DEF D, Decided
      <3>5. Cardinality(D) + 1 <= Cardinality(P)
        BY <3>3, <3>4, <1>b, RacedCardinality
      <3> QED
        BY <3>1, <3>5, <2>1, <1>a, <1>c, <1>d, <1>e
    <2> QED
      BY <2>4, <2>5
  <1>2. ASSUME NEW p \in Processes, Stop(p) PROVE Goal
    <2>1. \A s \in Slots : \/ pc'[<<c, s>>] = pc[<<c, s>>]
                          \/ pc'[<<c, s>>] \notin DOMAIN Creates
      BY <1>c, <1>2, CreatesValues DEF Stop, Goto
    <2>2. D \subseteq E
      BY <1>2, <2>1, DecidedGrows DEF D, E, Stop
    <2> QED
      BY <1>2, <2>2, <1>c, <1>f DEF Stop
  <1>3. ASSUME NEW p \in Processes, CallFails(p) PROVE Goal
    <2>1. prepared \subseteq prepared' /\ restarts' = restarts /\ faults' = faults + 1
      BY <1>3 DEF CallFails, Fault
    <2>2. CASE c \in halted'
      BY <2>1, <2>2, <1>g
    <2>3. CASE c \notin halted'
      <3>1. c \notin halted
        BY <2>3, <1>3 DEF CallFails, BootFails
      <3>2. \A s \in Slots : \/ pc'[<<c, s>>] = pc[<<c, s>>]
                            \/ pc'[<<c, s>>] \notin DOMAIN Creates
        BY <1>c, <1>3, CreatesValues DEF CallFails, BootFails, Goto
      <3>3. D \subseteq E
        BY <2>1, <3>2, DecidedGrows DEF D, E
      <3> QED
        BY <2>1, <2>3, <3>1, <3>3, <1>c, <1>f
    <2> QED
      BY <2>2, <2>3
  <1>4. ASSUME NEW p \in Processes, FindVersionFails(p) \/ Die(p) PROVE Goal
    <2>1. /\ prepared' = prepared /\ restarts' = restarts /\ halted' = halted
          /\ faults' = faults + 1
      BY <1>4 DEF FindVersionFails, Die, Fault
    <2>2. \A s \in Slots : \/ pc'[<<c, s>>] = pc[<<c, s>>]
                          \/ pc'[<<c, s>>] \notin DOMAIN Creates
      BY <1>c, <1>4, CreatesValues DEF FindVersionFails, Die, Goto
    <2>3. D \subseteq E
      BY <2>1, <2>2, DecidedGrows DEF D, E
    <2> QED
      BY <2>1, <2>3, <1>c, <1>f
  <1>5. ASSUME NEW k \in Containers, ContainerDies(k) PROVE Goal
    <2>1. /\ prepared' = prepared /\ restarts' = restarts /\ halted' = halted \cup {k}
          /\ faults' = faults + 1
      BY <1>5 DEF ContainerDies, Fault
    <2>2. CASE c \in halted'
      BY <2>1, <2>2, <1>g
    <2>3. CASE c \notin halted'
      <3>1. \A s \in Slots : pc'[<<c, s>>] = pc[<<c, s>>]
        BY <2>1, <2>3, <1>c, <1>5 DEF ContainerDies
      <3>2. D \subseteq E
        BY <2>1, <3>1, DecidedGrows DEF D, E
      <3> QED
        BY <2>1, <2>3, <3>2, <1>c, <1>f
    <2> QED
      BY <2>2, <2>3
  <1>6. ASSUME NEW k \in Containers, Restart(k) PROVE Goal
    <2>1. /\ prepared' = prepared /\ faults' = faults /\ halted' = halted \ {k}
          /\ k \in halted
          /\ restarts' = [restarts EXCEPT ![k] = @ + 1]
          /\ pc' = [q \in Processes |-> IF q[1] = k THEN "findTables" ELSE pc[q]]
      BY <1>6 DEF Restart
    <2>2. CASE c = k
      <3>1. \A s \in Slots : pc'[<<c, s>>] \notin DOMAIN Creates
        BY <2>1, <2>2, <1>c, CreatesValues
      <3>2. E = P
        BY <2>1, <3>1 DEF E, P, Decided, About
      <3> QED
        BY <2>1, <2>2, <3>2, <1>a, <1>c, <1>d
    <2>3. CASE c # k
      <3>1. \A s \in Slots : pc'[<<c, s>>] = pc[<<c, s>>]
        BY <2>1, <2>3, <1>c
      <3>2. D \subseteq E
        BY <2>1, <3>1, DecidedGrows DEF D, E
      <3> QED
        BY <2>1, <2>3, <3>2, <1>c, <1>f
    <2> QED
      BY <2>2, <2>3
  <1>7. ASSUME UNCHANGED vars PROVE Goal
    <2>1. D = E
      BY <1>7 DEF D, E, Decided, About, vars
    <2>2. /\ prepared' = prepared /\ restarts' = restarts
          /\ halted' = halted /\ faults' = faults
      BY <1>7 DEF vars
    <2>3. D \subseteq E /\ faults <= faults' /\ faults' \in Nat
      BY <2>1, <2>2, <1>c
    <2> QED
      BY <2>2, <2>3, <1>f
  <1> HIDE DEF Goal
  <1>8. Goal
    BY <1>1, <1>2, <1>3, <1>4, <1>5, <1>6, <1>7 DEF Next
  <1> QED
    BY <1>8 DEF Goal, E, Q

(* Races cannot make a crash loop: at most one restart of a container for  *)
(* each of the three races, besides the faults.                            *)
THEOREM FewRestarts == Spec => []RestartsBounded
  <1>1. TypeOK /\ Restarted => RestartsBounded
    <2> SUFFICES ASSUME TypeOK, Restarted, NEW c \in Containers
                 PROVE  restarts[c] <= 3 + faults
      BY DEF RestartsBounded
    <2>1. /\ Cardinality(Decided(c)) \in Nat /\ Cardinality(Decided(c)) <= 3
          /\ Cardinality(Raced \cap prepared) \in Nat
          /\ Cardinality(Raced \cap prepared) <= 3
      <3>1. Decided(c) \subseteq Raced /\ Raced \cap prepared \subseteq Raced
        BY DecidedSubset
      <3> QED
        BY <3>1, RacedCardinality
    <2>2. restarts[c] \in Nat /\ faults \in Nat
      BY MaxFaultsAssumption DEF TypeOK
    <2> QED
      BY <2>1, <2>2 DEF Restarted
  <1> QED
    BY <1>1, TypeInit, TypeNext, RestartedInit, RestartedNext, PTL DEF Spec
==============================================================================
