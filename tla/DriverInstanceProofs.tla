------------------------ MODULE DriverInstanceProofs ------------------------
(***************************************************************************)
(* Proofs about the DriverInstance controller, for every selection of the  *)
(* driver's objects, every set of specifications, and any number of        *)
(* troubles.                                                               *)
(***************************************************************************)
EXTENDS DriverInstance, TLAPS

-----------------------------------------------------------------------------
(***************************************************************************)
(* The inductive invariant.                                                *)
(***************************************************************************)
Running == rec.pc # "idle"

\* What Reconcile works on was a DriverInstance that users had specified.
Known ==
    /\ Present => di.uid # 0 /\ di.spec \in UserSpecs
    /\ Running => rec.di.uid # 0 /\ rec.di.spec \in UserSpecs

\* The steps that are taken in a pass for a DriverInstance that is deleted, and
\* in one for a DriverInstance that is not.
Passes ==
    /\ At("finalizer") => rec.n = 1 /\ ~rec.di.deleting
    /\ At("release") => rec.di.deleting
    /\ At("apply") /\ rec.di.deleting => rec.seen # Absent

\* A DriverInstance that is being deleted has its finalizer, and stays while a
\* pass goes on that takes off the others.
StaysToBeReleased ==
    /\ di.deleting => di.fin
    /\ Running /\ rec.di.deleting => di.deleting

WorkloadsFree == \A o \in Workloads : Exists(o) => ~obj[o].fin

\* Nobody but Reconcile creates objects, changes owners or finalizers, and what
\* others change is noticed, but for contents.
SeenIsRecent ==
    At("apply") /\ rec.seen # Absent =>
        /\ rec.seen.fin => Exists(Current)
        /\ Exists(Current) =>
              /\ obj[Current].owner = rec.seen.owner /\ obj[Current].fin = rec.seen.fin
              /\ ~queue => /\ obj[Current].labels = rec.seen.labels
                           /\ Current \notin drifted => obj[Current].cfg = rec.seen.cfg

\* What a pass over a deleted DriverInstance's objects has left behind it.
ReleasedSoFar ==
    Running /\ rec.di.deleting =>
        \A m \in 1..Total : m < rec.n \/ At("release") =>
            LET o == getObjectsList[Total + 1 - m] IN Exists(o) => ~obj[o].fin

\* What the other pass has created or found cannot go away without Reconcile.
HeldSoFar ==
    Running /\ ~rec.di.deleting =>
        \A m \in 1..Total : m < rec.n /\ getObjectsList[m] \notin Workloads =>
            Exists(getObjectsList[m]) /\ obj[getObjectsList[m]].fin

\* The object is as the DriverInstance says, unless its contents were edited.
Fits(o) ==
    /\ Exists(o)
    /\ obj[o].owner = di.uid /\ obj[o].labels = di.spec.labels
    /\ o \notin drifted => obj[o].cfg = Contents(o, di.spec)

\* A pass that nothing has disturbed works on the DriverInstance as it is now.
FitsSoFar ==
    Running /\ ~queue /\ Wants =>
        /\ rec.di.uid = di.uid /\ rec.di.spec = di.spec
        /\ \A m \in 1..Total :
              m < rec.n /\ getObjectsList[m] # Current => Fits(getObjectsList[m])

IInv ==
    /\ TypeOK /\ Known /\ Passes /\ StaysToBeReleased /\ WorkloadsFree
    /\ SeenIsRecent /\ ReleasedSoFar /\ HeldSoFar /\ FitsSoFar /\ SettledMeansDeployed

-----------------------------------------------------------------------------
(***************************************************************************)
(* The list of the objects.                                                *)
(***************************************************************************)
Elements(s) == {s[m] : m \in 1..Len(s)}
Refs(o) == Configuration[o].refs \cap Kinds

\* Every object comes after those that it refers to, which are no workloads.
Sorted(s) ==
    \A n \in 1..Len(s) : \A p \in Refs(s[n]) :
        p \notin Workloads /\ \E m \in 1..Len(s) : m < n /\ s[m] = p

\* An object may follow those that it refers to.
LEMMA Placed ==
    ASSUME NEW s \in Seq(Kinds), Sorted(s), NEW o, Refs(o) \subseteq Elements(s) \ Workloads
    PROVE  LET t == s \o Place(o)
           IN  t \in Seq(Kinds) /\ Sorted(t) /\ Elements(t) = Elements(s) \cup ({o} \cap Kinds)
<1>1. CASE o \notin Kinds
  <2>1. s \o Place(o) = s
    BY <1>1 DEF Place
  <2> QED BY <1>1, <2>1
<1>2. CASE o \in Kinds
  <2> DEFINE t == s \o <<o>>
  <2>1. /\ t \in Seq(Kinds) /\ Len(t) = Len(s) + 1 /\ t[Len(s) + 1] = o
        /\ \A m \in 1..Len(s) : t[m] = s[m]
    BY <1>2
  <2>2. Len(s) \in Nat
    OBVIOUS
  <2>3. s \o Place(o) = t
    BY <1>2 DEF Place
  <2> HIDE DEF t
  <2>4. Elements(t) = Elements(s) \cup {o}
    <3>1. \A m \in 1..Len(t) : m \in 1..Len(s) \/ m = Len(s) + 1
      BY <2>1, <2>2
    <3>2. Len(s) + 1 \in 1..Len(t) /\ \A m \in 1..Len(s) : m \in 1..Len(t)
      BY <2>1, <2>2
    <3> QED BY <2>1, <3>1, <3>2 DEF Elements
  <2>5. ASSUME NEW n \in 1..Len(t), NEW p \in Refs(t[n])
        PROVE  p \notin Workloads /\ \E m \in 1..Len(t) : m < n /\ t[m] = p
    <3>1. CASE n \in 1..Len(s)
      <4>1. p \in Refs(s[n])
        BY <2>1, <2>5, <3>1
      <4>2. p \notin Workloads /\ \E m \in 1..Len(s) : m < n /\ s[m] = p
        BY <4>1, <3>1 DEF Sorted
      <4> QED BY <4>2, <2>1, <2>2
    <3>2. CASE n = Len(s) + 1
      <4>1. p \in Elements(s) \ Workloads
        BY <2>1, <2>5, <3>2
      <4>2. PICK m \in 1..Len(s) : s[m] = p
        BY <4>1 DEF Elements
      <4>3. m \in 1..Len(t) /\ m < n /\ t[m] = p
        BY <4>2, <2>1, <2>2, <3>2
      <4> QED BY <4>1, <4>3
    <3> QED BY <3>1, <3>2, <2>1, <2>2
  <2> QED BY <1>2, <2>1, <2>3, <2>4, <2>5 DEF Sorted
<1> QED BY <1>1, <1>2

\* What each of the configuration functions refers to.
LEMMA RefsAre ==
    /\ Refs("namespace") = {} /\ Refs("clusterRole") = {} /\ Refs("csiDriver") = {}
    /\ Refs("serviceAccount") = {"namespace"} \cap Kinds
    /\ Refs("role") = {"namespace"} \cap Kinds
    /\ Refs("roleBinding") = {"namespace", "serviceAccount", "role"} \cap Kinds
    /\ Refs("clusterRoleBinding") = {"serviceAccount", "clusterRole"} \cap Kinds
    /\ Refs("configMap") = {"namespace"} \cap Kinds
    /\ Refs("deployment") = {"namespace", "serviceAccount", "configMap"} \cap Kinds
    /\ Refs("daemonSet") = {"namespace", "serviceAccount", "configMap"} \cap Kinds
  BY DEF Refs, Configuration, GetNamespaceConfiguration, GetServiceAccountConfiguration,
         GetRolesConfiguration, GetRoleBindingsConfiguration, GetClusterRolesConfiguration,
         GetClusterRoleBindingsConfiguration, GetCSIDriverConfiguration, GetConfigMapConfiguration,
         GetControllerDeploymentConfiguration, GetNodeDaemonSetConfiguration

\* getObjectsList names every object, after those that it refers to.
LEMMA ListSorted ==
    /\ getObjectsList \in Seq(Kinds) /\ Sorted(getObjectsList)
    /\ Elements(getObjectsList) = Kinds
<1> DEFINE s1 == Place("namespace")
           s2 == s1 \o Place("serviceAccount")
           s3 == s2 \o Place("role")
           s4 == s3 \o Place("roleBinding")
           s5 == s4 \o Place("clusterRole")
           s6 == s5 \o Place("clusterRoleBinding")
           s7 == s6 \o Place("csiDriver")
           s8 == s7 \o Place("configMap")
           s9 == s8 \o Place("deployment")
           s10 == s9 \o Place("daemonSet")
           Good(s, E) == s \in Seq(Kinds) /\ Sorted(s) /\ Elements(s) = E \cap Kinds
<1>0. getObjectsList = s10
  BY DEF getObjectsList
<1>1. Good(s1, {"namespace"})
  <2>1. s1 = <<"namespace">> /\ s1 \in Seq(Kinds) /\ Len(s1) = 1 /\ s1[1] = "namespace"
    BY DriverAssumption DEF Place
  <2> HIDE DEF s1
  <2>2. \A n \in 1..Len(s1) : n = 1
    BY <2>1
  <2>3. 1 \in 1..Len(s1)
    BY <2>1
  <2> QED BY <2>1, <2>2, <2>3, RefsAre, DriverAssumption DEF Elements, Sorted
<1> HIDE DEF s1
<1>2. Good(s2, {"namespace", "serviceAccount"})
  BY <1>1, Placed, RefsAre DEF Workloads
<1> HIDE DEF s2
<1>3. Good(s3, {"namespace", "serviceAccount", "role"})
  BY <1>2, Placed, RefsAre DEF Workloads
<1> HIDE DEF s3
<1>4. Good(s4, {"namespace", "serviceAccount", "role", "roleBinding"})
  BY <1>3, Placed, RefsAre DEF Workloads
<1> HIDE DEF s4
<1>5. Good(s5, {"namespace", "serviceAccount", "role", "roleBinding", "clusterRole"})
  BY <1>4, Placed, RefsAre DEF Workloads
<1> HIDE DEF s5
<1>6. Good(s6, {"namespace", "serviceAccount", "role", "roleBinding", "clusterRole",
                "clusterRoleBinding"})
  BY <1>5, Placed, RefsAre DEF Workloads
<1> HIDE DEF s6
<1>7. Good(s7, {"namespace", "serviceAccount", "role", "roleBinding", "clusterRole",
                "clusterRoleBinding", "csiDriver"})
  BY <1>6, Placed, RefsAre DEF Workloads
<1> HIDE DEF s7
<1>8. Good(s8, {"namespace", "serviceAccount", "role", "roleBinding", "clusterRole",
                "clusterRoleBinding", "csiDriver", "configMap"})
  BY <1>7, Placed, RefsAre DEF Workloads
<1> HIDE DEF s8
<1>9. Good(s9, {"namespace", "serviceAccount", "role", "roleBinding", "clusterRole",
                "clusterRoleBinding", "csiDriver", "configMap", "deployment"})
  BY <1>8, Placed, RefsAre DEF Workloads
<1> HIDE DEF s9
<1>10. Good(s10, {"namespace", "serviceAccount", "role", "roleBinding", "clusterRole",
                  "clusterRoleBinding", "csiDriver", "configMap", "deployment", "daemonSet"})
  BY <1>9, Placed, RefsAre DEF Workloads
<1>11. Kinds \subseteq {"namespace", "serviceAccount", "role", "roleBinding", "clusterRole",
                        "clusterRoleBinding", "csiDriver", "configMap", "deployment", "daemonSet"}
  BY DriverAssumption DEF Configuration
<1> QED BY <1>0, <1>10, <1>11

\* The same, place by place.
LEMMA ListFacts ==
    /\ Total \in Nat /\ 1 \in 1..Total
    /\ \A m \in 1..Total : getObjectsList[m] \in Kinds
    /\ \A o \in Kinds : \E m \in 1..Total : getObjectsList[m] = o
    /\ \A n \in 1..Total : \A p \in Refs(getObjectsList[n]) :
          p \notin Workloads /\ \E m \in 1..Total : m < n /\ getObjectsList[m] = p
<1>1. /\ Total \in Nat
      /\ \A m \in 1..Total : getObjectsList[m] \in Kinds
  BY ListSorted DEF Total
<1>2. \A o \in Kinds : \E m \in 1..Total : getObjectsList[m] = o
  BY ListSorted DEF Total, Elements
<1>3. PICK m \in 1..Total : getObjectsList[m] = "namespace"
  BY <1>2, DriverAssumption
<1>4. 1 \in 1..Total
  BY <1>1, <1>3
<1> QED BY <1>1, <1>2, <1>4, ListSorted DEF Total, Sorted

-----------------------------------------------------------------------------
(***************************************************************************)
(* The values that the variables take.                                     *)
(***************************************************************************)

\* The resource that is not there.
LEMMA NoResourceFacts ==
    NoResource \in Resource /\ ~NoResource.deleting /\ ~NoResource.fin /\ NoResource.uid = 0
  BY DriverAssumption DEF NoResource, Resource, Uids

\* Reconcile that does not run.
LEMMA IdleFacts ==
    IdleRec \in Locals /\ IdleRec.pc = "idle" /\ IdleRec.n = 1 /\ IdleRec.seen = Absent
  BY ListFacts, NoResourceFacts DEF IdleRec, Locals

\* An object is not the absence of one.
LEMMA AbsentIsNone == Absent \notin Object
  BY DEF Absent, Object

\* The object that Reconcile is at is one of the list.
LEMMA CurrentFacts ==
    ASSUME rec \in Locals
    PROVE  /\ Current \in Kinds
           /\ rec.n \in 1..Total /\ Total + 1 - rec.n \in 1..Total
           /\ rec.di.deleting => Current = getObjectsList[Total + 1 - rec.n]
           /\ ~rec.di.deleting => Current = getObjectsList[rec.n]
<1>1. rec.n \in 1..Total /\ rec.di \in Resource /\ rec.di.deleting \in BOOLEAN
  BY DEF Locals, Resource
<1>2. Total + 1 - rec.n \in 1..Total
  BY <1>1, ListFacts
<1> QED BY <1>1, <1>2, ListFacts DEF Current

\* On to the next object, or to the end of the pass.
LEMMA AdvancedFacts ==
    ASSUME rec \in Locals
    PROVE  /\ Advanced \in Locals
           /\ \/ /\ rec.n < Total /\ Advanced.pc = "get" /\ Advanced.n = rec.n + 1
                 /\ Advanced.di = rec.di
              \/ /\ rec.n = Total /\ rec.di.deleting /\ Advanced.pc = "release"
                 /\ Advanced.n = rec.n /\ Advanced.di = rec.di
              \/ rec.n = Total /\ ~rec.di.deleting /\ Advanced = IdleRec
<1>1. rec.n \in 1..Total /\ Total \in Nat
  BY ListFacts DEF Locals
<1>2. CASE rec.n < Total
  <2>1. rec.n + 1 \in 1..Total
    BY <1>1, <1>2
  <2>2. Advanced = [rec EXCEPT !.pc = "get", !.n = rec.n + 1, !.seen = Absent]
    BY <1>2 DEF Advanced, Locals
  <2> QED BY <1>2, <2>1, <2>2 DEF Locals
<1>3. CASE rec.n = Total /\ rec.di.deleting
  <2>1. Advanced = [rec EXCEPT !.pc = "release", !.seen = Absent]
    BY <1>1, <1>3 DEF Advanced
  <2> QED BY <1>3, <2>1 DEF Locals
<1>4. CASE rec.n = Total /\ ~rec.di.deleting
  BY <1>1, <1>4, IdleFacts DEF Advanced
<1> QED BY <1>1, <1>2, <1>3, <1>4

\* The object that Reconcile prepares for what users have specified.
LEMMA WantedFacts ==
    ASSUME TypeOK, rec.di.uid # 0, rec.di.spec \in UserSpecs, NEW o \in Kinds
    PROVE  /\ Wanted(o) \in Object
           /\ Wanted(o).fin = (o \notin Workloads)
           /\ Wanted(o).owner = rec.di.uid /\ Wanted(o).labels = rec.di.spec.labels
           /\ Wanted(o).cfg = Contents(o, rec.di.spec)
<1>1. rec.di.uid \in Uids \ {0}
  BY DEF TypeOK, Locals, Resource
<1>2. rec.di.spec.labels \in Labels /\ rec.di.spec.cfg \in Configs
  BY DriverAssumption
<1>3. Contents(o, rec.di.spec) \in Configs \cup {0}
  BY <1>2 DEF Contents
<1> QED BY <1>1, <1>2, <1>3 DEF Wanted, Object

\* The patched object has the wanted value wherever nobody has changed what
\* was read.
LEMMA MergedFacts ==
    ASSUME NEW seen \in Object, NEW want \in Object, NEW now \in Object
    PROVE  LET x == Merged(seen, want, now)
           IN  /\ x \in Object
               /\ now.fin = seen.fin => x.fin = want.fin
               /\ now.owner = seen.owner => x.owner = want.owner
               /\ now.labels = seen.labels => x.labels = want.labels
               /\ now.cfg = seen.cfg => x.cfg = want.cfg
<1> DEFINE x == Merged(seen, want, now)
<1>1. DOMAIN now = {"state", "fin", "owner", "labels", "cfg", "sel"}
  BY DEF Object
<1>2. /\ x.state = now.state
      /\ x.fin = IF want.fin # seen.fin THEN want.fin ELSE now.fin
      /\ x.owner = IF want.owner # seen.owner THEN want.owner ELSE now.owner
      /\ x.labels = IF want.labels # seen.labels THEN want.labels ELSE now.labels
      /\ x.cfg = IF want.cfg # seen.cfg THEN want.cfg ELSE now.cfg
      /\ x.sel = IF want.sel # seen.sel THEN want.sel ELSE now.sel
  BY <1>1 DEF Merged
<1>3. DOMAIN x = {"state", "fin", "owner", "labels", "cfg", "sel"} /\ x = [f \in DOMAIN x |-> x[f]]
  BY <1>1 DEF Merged
<1> HIDE DEF x
<1>4. x = [state |-> x.state, fin |-> x.fin, owner |-> x.owner, labels |-> x.labels,
           cfg |-> x.cfg, sel |-> x.sel]
  BY <1>3
<1>5. x \in Object
  BY <1>2, <1>4 DEF Object
<1> QED BY <1>2, <1>5 DEF x

-----------------------------------------------------------------------------
(***************************************************************************)
(* What a step does to the objects.                                        *)
(***************************************************************************)
Objects == obj \in [Kinds -> Object \cup {Absent}]

\* An object that is there.
LEMMA ObjectFacts ==
    ASSUME Objects, NEW o \in Kinds
    PROVE  /\ Exists(o) <=> obj[o] \in Object
           /\ ~Exists(o) <=> obj[o] = Absent
  BY AbsentIsNone DEF Objects, Exists

\* A request is about one object.
LEMMA BecomesFacts ==
    ASSUME Objects, NEW o \in Kinds, NEW x \in Object \cup {Absent}, Becomes(o, x)
    PROVE  /\ Objects' /\ obj'[o] = x /\ \A p \in Kinds \ {o} : obj'[p] = obj[p]
           /\ ~queue' => ~queue /\ ~Noticed(o, x)
           /\ queue \in BOOLEAN => queue' \in BOOLEAN
  BY DEF Objects, Becomes

\* What others do to an object: they neither create it, nor change its owner or
\* its finalizer, nor its contents, unless it is a workload or has drifted.
Disturbed(o, x) ==
    /\ Exists(o)
    /\ \/ x = Absent /\ ~obj[o].fin
       \/ /\ x \in Object /\ x.fin = obj[o].fin /\ x.owner = obj[o].owner
          /\ o \in Workloads \/ o \in drifted' \/ x.cfg = obj[o].cfg

\* A deleted object is gone only when it has no finalizer.
LEMMA DeletedFacts ==
    ASSUME Objects, NEW o \in Kinds, Exists(o)
    PROVE  Disturbed(o, Deleted(o))
<1>1. obj[o] \in Object
  BY ObjectFacts
<1> DEFINE x == [obj[o] EXCEPT !.state = "terminating"]
<1>2. x \in Object /\ x.fin = obj[o].fin /\ x.owner = obj[o].owner /\ x.cfg = obj[o].cfg
  BY <1>1 DEF Object
<1> HIDE DEF x
<1>3. Deleted(o) = IF obj[o].fin \/ o = "namespace" THEN x ELSE Absent
  BY DEF Deleted, x
<1> QED BY <1>2, <1>3 DEF Disturbed

\* Used bounds stay counters.
LEMMA UsedTyped ==
    ASSUME used \in [creates : Nat, edits : Nat, troubles : Nat]
    PROVE  /\ Trouble => used' \in [creates : Nat, edits : Nat, troubles : Nat]
           /\ UseUp("creates", MaxCreates) =>
                 /\ used' \in [creates : Nat, edits : Nat, troubles : Nat]
                 /\ used.creates + 1 \in Uids \ {0}
           /\ UseUp("edits", MaxEdits) => used' \in [creates : Nat, edits : Nat, troubles : Nat]
<1>1. used.creates \in Nat /\ (used.creates < MaxCreates => used.creates + 1 \in Uids \ {0})
  BY DriverAssumption DEF Uids
<1> QED BY <1>1 DEF Trouble, UseUp

UsedType == used \in [creates : Nat, edits : Nat, troubles : Nat]

\* Whatever others do to an object, Reconcile will know, or it does not matter.
LEMMA DisturbedKeeps ==
    ASSUME IInv, UsedType', NEW o \in Kinds, NEW x, Disturbed(o, x), Becomes(o, x),
           UNCHANGED <<di, rec>>, drifted' \in SUBSET Kinds, drifted \subseteq drifted'
    PROVE  IInv'
<1> USE DEF IInv
<1>0. Objects /\ x \in Object \cup {Absent}
  BY DEF TypeOK, Objects, Disturbed
<1>1. /\ Objects' /\ obj'[o] = x /\ \A p \in Kinds \ {o} : obj'[p] = obj[p]
      /\ ~queue' => ~queue /\ ~Noticed(o, x)
      /\ queue' \in BOOLEAN
  BY <1>0, BecomesFacts DEF TypeOK
<1>2. Current' = Current /\ Current \in Kinds
  BY CurrentFacts DEF Current, TypeOK
<1>3. \A p \in Kinds : Exists(p)' => Exists(p) /\ obj'[p].fin = obj[p].fin /\ obj'[p].owner = obj[p].owner
  BY <1>1, <1>0 DEF Exists, Disturbed
<1>4. \A p \in Kinds : Exists(p) /\ obj[p].fin => Exists(p)'
  BY <1>1, <1>0, AbsentIsNone DEF Exists, Disturbed
<1>5. ASSUME ~queue'
      PROVE  \A p \in Kinds :
                Exists(p) => /\ Exists(p)' /\ obj'[p].labels = obj[p].labels
                             /\ p \notin drifted' => obj'[p].cfg = obj[p].cfg
  BY <1>1, <1>0, <1>5, AbsentIsNone DEF Exists, Disturbed, Noticed
<1>6. TypeOK'
  BY <1>1 DEF TypeOK, Objects, UsedType
<1>7. Known' /\ Passes' /\ StaysToBeReleased'
  BY DEF Known, Passes, StaysToBeReleased, Present, Running, At
<1>8. WorkloadsFree'
  BY <1>3 DEF WorkloadsFree, Workloads
<1>9. SeenIsRecent'
  BY <1>1, <1>2, <1>3, <1>4, <1>5 DEF SeenIsRecent, At
<1>10. ReleasedSoFar'
  <2>1. \A m \in 1..Total : Total + 1 - m \in 1..Total
    BY ListFacts
  <2> QED BY <2>1, <1>3, ListFacts DEF ReleasedSoFar, Running, At
<1>11. HeldSoFar'
  BY <1>3, <1>4, ListFacts DEF HeldSoFar, Running
<1>12. \A p \in Kinds : ~queue' /\ Fits(p) => Fits(p)'
  BY <1>3, <1>5 DEF Fits
<1>13. FitsSoFar'
  BY <1>1, <1>2, <1>12, ListFacts DEF FitsSoFar, Running, Wants, Present
<1>14. Deployed /\ ~queue' => Deployed'
  BY <1>12 DEF Deployed, Fits
<1>15. SettledMeansDeployed'
  BY <1>1, <1>14 DEF SettledMeansDeployed, Wants, Present, At
<1> QED BY <1>6, <1>7, <1>8, <1>9, <1>10, <1>11, <1>13, <1>15

\* Everybody but Reconcile who touches the objects does no more than that.
LEMMA OthersKeep ==
    ASSUME IInv, NEW o \in Kinds,
           \/ StrayDelete(o) \/ StrayEdit(o)
           \/ CollectGarbage(o) \/ EmptyNamespace(o) \/ Vanish(o)
    PROVE  IInv'
<1>1. Objects /\ UsedType /\ drifted \in SUBSET Kinds
  BY DEF IInv, TypeOK, Objects, UsedType
<1>2. CASE StrayDelete(o)
  <2>1. Disturbed(o, Deleted(o)) /\ UsedType'
    BY <1>1, <1>2, DeletedFacts, UsedTyped DEF StrayDelete, UsedType
  <2> QED BY <1>1, <1>2, <2>1, DisturbedKeeps DEF StrayDelete
<1>3. CASE CollectGarbage(o)
  <2>1. Disturbed(o, Deleted(o)) /\ UsedType'
    BY <1>1, <1>3, DeletedFacts DEF CollectGarbage, UsedType
  <2> QED BY <1>1, <1>3, <2>1, DisturbedKeeps DEF CollectGarbage
<1>4. CASE EmptyNamespace(o)
  <2>1. Disturbed(o, Deleted(o)) /\ UsedType'
    BY <1>1, <1>4, DeletedFacts DEF EmptyNamespace, UsedType
  <2> QED BY <1>1, <1>4, <2>1, DisturbedKeeps DEF EmptyNamespace
<1>5. CASE Vanish(o)
  <2>1. Disturbed(o, Absent) /\ UsedType'
    BY <1>1, <1>5 DEF Vanish, UsedType, Disturbed
  <2> QED BY <1>1, <1>5, <2>1, DisturbedKeeps DEF Vanish
<1>6. CASE StrayEdit(o)
  <2>1. UsedType' /\ obj[o] \in Object /\ Exists(o)
    BY <1>1, <1>6, UsedTyped, ObjectFacts DEF StrayEdit, UsedType
  <2>2. CASE /\ \E l \in Labels \ {obj[o].labels} : Becomes(o, [obj[o] EXCEPT !.labels = l])
             /\ UNCHANGED drifted
    <3>1. PICK l \in Labels : Becomes(o, [obj[o] EXCEPT !.labels = l])
      BY <2>2
    <3>2. Disturbed(o, [obj[o] EXCEPT !.labels = l])
      BY <2>1 DEF Disturbed, Object
    <3> QED BY <1>1, <1>6, <2>1, <2>2, <3>1, <3>2, DisturbedKeeps DEF StrayEdit
  <2>3. CASE /\ \E c \in Configs \ {obj[o].cfg} : Becomes(o, [obj[o] EXCEPT !.cfg = c])
             /\ drifted' = IF o \in Workloads THEN drifted ELSE drifted \cup {o}
    <3>1. PICK c \in Configs : Becomes(o, [obj[o] EXCEPT !.cfg = c])
      BY <2>3
    <3>2. o \in Workloads \/ o \in drifted'
      BY <2>3
    <3>3. Disturbed(o, [obj[o] EXCEPT !.cfg = c])
      BY <2>1, <3>2 DEF Disturbed, Object
    <3>4. drifted' \in SUBSET Kinds /\ drifted \subseteq drifted'
      BY <1>1, <2>3
    <3> QED BY <1>6, <2>1, <3>1, <3>3, <3>4, DisturbedKeeps DEF StrayEdit
  <2> QED BY <1>6, <2>2, <2>3 DEF StrayEdit
<1> QED BY <1>2, <1>3, <1>4, <1>5, <1>6

-----------------------------------------------------------------------------
(***************************************************************************)
(* What users do to the DriverInstance, and how Reconcile ends.            *)
(***************************************************************************)

\* A DriverInstance that is created, edited or deleted is queued, and one whose
\* objects are being released stays.
LEMMA UsersKeep == ASSUME IInv, UserNext PROVE IInv'
<1> USE DEF IInv
<1>0. /\ queue' = TRUE /\ UNCHANGED <<obj, rec, drifted>>
  BY DEF UserNext, CreateInstance, EditInstance, DeleteInstance
<1>1. /\ di' \in Resource /\ UsedType'
      /\ Present' => di'.uid # 0 /\ di'.spec \in UserSpecs
      /\ di'.deleting => di'.fin
      /\ di.deleting => di'.deleting
  <2>1. CASE CreateInstance
    <3>1. used.creates + 1 \in Uids \ {0} /\ UsedType' /\ ~di.deleting
      BY <2>1, UsedTyped, NoResourceFacts DEF CreateInstance, TypeOK, UsedType, Present
    <3>2. PICK s \in UserSpecs :
             di' = [uid |-> used.creates + 1, deleting |-> FALSE, fin |-> FALSE, spec |-> s]
      BY <2>1 DEF CreateInstance
    <3> QED BY <3>1, <3>2 DEF Resource
  <2>2. CASE EditInstance
    <3>1. PICK s \in UserSpecs : di' = [di EXCEPT !.spec = s]
      BY <2>2 DEF EditInstance
    <3>2. di.uid # 0 /\ UsedType'
      BY <2>2, UsedTyped DEF EditInstance, TypeOK, UsedType, Known
    <3> QED BY <3>1, <3>2 DEF TypeOK, Resource, StaysToBeReleased
  <2>3. CASE DeleteInstance
    <3>0. UsedType' /\ ~di.deleting
      BY <2>3 DEF DeleteInstance, TypeOK, UsedType
    <3>1. CASE ~di.fin
      BY <2>3, <3>0, <3>1, NoResourceFacts DEF DeleteInstance, Present
    <3>2. CASE di.fin
      <4>1. di' = [di EXCEPT !.deleting = TRUE]
        BY <2>3, <3>2 DEF DeleteInstance
      <4>2. di.uid # 0 /\ di.spec \in UserSpecs
        BY <2>3 DEF DeleteInstance, Known
      <4> QED BY <3>0, <3>2, <4>1, <4>2 DEF TypeOK, Resource
    <3> QED BY <3>1, <3>2
  <2> QED BY <2>1, <2>2, <2>3 DEF UserNext
<1>2. TypeOK'
  BY <1>0, <1>1 DEF TypeOK, UsedType
<1>3. Known' /\ Passes' /\ StaysToBeReleased'
  BY <1>0, <1>1 DEF Known, Passes, StaysToBeReleased, Running, At
<1>4. Current' = Current
  BY <1>0 DEF Current
<1>5. WorkloadsFree' /\ SeenIsRecent' /\ ReleasedSoFar' /\ HeldSoFar'
  BY <1>0, <1>4 DEF WorkloadsFree, SeenIsRecent, ReleasedSoFar, HeldSoFar, Exists, Running, At
<1>6. FitsSoFar' /\ SettledMeansDeployed'
  BY <1>0 DEF FitsSoFar, SettledMeansDeployed
<1> QED BY <1>2, <1>3, <1>5, <1>6

\* Reconcile may end anywhere, if it is to be repeated.
LEMMA ReturnKeeps ==
    ASSUME IInv, UsedType', rec' = IdleRec, obj' = obj, queue' \in BOOLEAN,
           di' = di \/ di' = NoResource, Wants' => queue', UNCHANGED drifted
    PROVE  IInv'
<1> USE DEF IInv
<1>1. ~Running'
  BY IdleFacts DEF Running
<1>2. TypeOK'
  BY IdleFacts, NoResourceFacts DEF TypeOK, UsedType
<1>3. Known' /\ Passes' /\ StaysToBeReleased'
  BY <1>1, NoResourceFacts DEF Known, Passes, StaysToBeReleased, Running, At, Present
<1>4. WorkloadsFree' /\ SeenIsRecent' /\ ReleasedSoFar' /\ HeldSoFar'
  BY <1>1 DEF WorkloadsFree, SeenIsRecent, ReleasedSoFar, HeldSoFar, Exists, Running, At
<1>5. FitsSoFar' /\ SettledMeansDeployed'
  BY <1>1 DEF FitsSoFar, SettledMeansDeployed
<1> QED BY <1>2, <1>3, <1>4, <1>5

\* A failure, or a crash, ends Reconcile, which is repeated.
LEMMA FaultsKeep == ASSUME IInv, OperatorFaults PROVE IInv'
<1>0. UsedType /\ queue \in BOOLEAN
  BY DEF IInv, TypeOK, UsedType
<1>1. CASE ReconcileGetFails
  <2>1. UNCHANGED <<di, obj, rec, queue, drifted>> /\ UsedType'
    BY <1>0, <1>1, UsedTyped DEF ReconcileGetFails, Fault, UsedType
  <2>2. Current' = Current /\ \A o : Fits(o)' = Fits(o)
    BY <2>1 DEF Current, Fits, Exists
  <2>3. TypeOK' /\ Known' /\ Passes' /\ StaysToBeReleased' /\ WorkloadsFree'
    BY <2>1 DEF IInv, TypeOK, UsedType, Known, Passes, StaysToBeReleased, WorkloadsFree,
                Present, Running, At, Exists
  <2>4. SeenIsRecent' /\ ReleasedSoFar' /\ HeldSoFar' /\ FitsSoFar'
    BY <2>1, <2>2 DEF IInv, SeenIsRecent, ReleasedSoFar, HeldSoFar, FitsSoFar,
                      Present, Wants, Running, At, Exists
  <2>5. SettledMeansDeployed'
    BY <2>1 DEF IInv, SettledMeansDeployed, Deployed, Exists, Wants, Present, At
  <2> QED BY <2>3, <2>4, <2>5 DEF IInv
<1>2. CASE GetObjectFails \/ RemoveFinalizerFails
  <2>1. /\ rec' = IdleRec /\ obj' = obj /\ di' = di /\ queue' = TRUE /\ UsedType'
        /\ UNCHANGED drifted
    BY <1>0, <1>2, UsedTyped DEF GetObjectFails, RemoveFinalizerFails, Fault, Return, UsedType
  <2> QED BY <2>1, ReturnKeeps
<1>3. CASE OperatorCrash
  <2>1. /\ rec' = IdleRec /\ obj' = obj /\ di' = di /\ queue' = Present /\ UsedType'
        /\ UNCHANGED drifted
    BY <1>0, <1>3, UsedTyped DEF OperatorCrash, Fault, UsedType
  <2>2. queue' \in BOOLEAN /\ (Wants' => queue')
    BY <2>1 DEF Wants, Present
  <2> QED BY <2>1, <2>2, ReturnKeeps
<1> QED BY <1>1, <1>2, <1>3 DEF OperatorFaults

-----------------------------------------------------------------------------
(***************************************************************************)
(* The steps of Reconcile.                                                 *)
(***************************************************************************)

\* A pass begins with the DriverInstance as it is, and nothing done.
LEMMA StartKeeps ==
    ASSUME IInv, ReconcileSkip \/ ReconcileStart \/ AddFinalizer \/ AddFinalizerFails
    PROVE  IInv'
<1> USE DEF IInv
<1>0. rec \in Locals /\ queue \in BOOLEAN /\ di \in Resource /\ UsedType
  BY DEF TypeOK, UsedType
<1>1. CASE ReconcileSkip
  <2>1. UNCHANGED <<di, obj, rec, used, drifted>> /\ queue' = FALSE /\ rec.pc = "idle" /\ ~Present
    BY <1>1 DEF ReconcileSkip, At
  <2>2. TypeOK' /\ Known' /\ Passes' /\ StaysToBeReleased' /\ WorkloadsFree'
    BY <2>1 DEF TypeOK, UsedType, Known, Passes, StaysToBeReleased, WorkloadsFree,
                Present, Running, At, Exists
  <2>3. SeenIsRecent' /\ ReleasedSoFar' /\ HeldSoFar' /\ FitsSoFar' /\ SettledMeansDeployed'
    BY <2>1 DEF SeenIsRecent, ReleasedSoFar, HeldSoFar, FitsSoFar, SettledMeansDeployed,
                Wants, Present, Running, At
  <2> QED BY <2>2, <2>3
<1>2. CASE ReconcileStart \/ AddFinalizer \/ AddFinalizerFails
  <2>1. /\ obj' = obj /\ drifted' = drifted /\ rec' \in Locals /\ rec'.n = 1 /\ rec'.pc \in {"get", "finalizer"}
        /\ rec'.di.uid # 0 /\ rec'.di.spec \in UserSpecs
        /\ rec'.pc = "finalizer" => ~rec'.di.deleting
        /\ di' \in Resource /\ di'.uid = di.uid /\ di'.spec = di.spec /\ di'.deleting = di.deleting
        /\ di.fin => di'.fin
        /\ queue' \in BOOLEAN /\ UsedType'
        /\ rec'.di.deleting => di'.deleting
        /\ ~queue' /\ Wants' => rec'.di.uid = di'.uid /\ rec'.di.spec = di'.spec
    <3>1. CASE ReconcileStart
      <4>1. PICK pc \in {"get", "finalizer"} :
                rec' = [IdleRec EXCEPT !.pc = pc, !.di = di] /\ (pc = "finalizer" => ~di.deleting)
        BY <3>1 DEF ReconcileStart
      <4>2. /\ rec' \in Locals /\ rec'.n = 1 /\ rec'.pc = pc /\ rec'.di = di
        BY <4>1, <1>0, IdleFacts DEF Locals
      <4>3. UNCHANGED <<di, obj, used, drifted>> /\ queue' = FALSE /\ Present
        BY <3>1 DEF ReconcileStart
      <4> QED BY <4>1, <4>2, <4>3, <1>0 DEF Known, UsedType
    <3>2. CASE AddFinalizer
      <4>1. /\ di' = [di EXCEPT !.fin = TRUE] /\ Present /\ rec.n = 1
            /\ rec' = [rec EXCEPT !.pc = "get", !.di = di'] /\ UNCHANGED <<obj, queue, used, drifted>>
        BY <3>2 DEF AddFinalizer, Passes
      <4>2. /\ di' \in Resource /\ di'.uid = di.uid /\ di'.spec = di.spec
            /\ di'.deleting = di.deleting /\ di'.fin
        BY <4>1, <1>0 DEF Resource
      <4>3. /\ rec' \in Locals /\ rec'.n = 1 /\ rec'.pc = "get" /\ rec'.di = di'
        BY <4>1, <4>2, <1>0 DEF Locals
      <4> QED BY <4>1, <4>2, <4>3, <1>0 DEF Known, UsedType
    <3>3. CASE AddFinalizerFails
      <4>1. /\ rec.n = 1 /\ rec.pc = "finalizer" /\ ~rec.di.deleting
            /\ rec' = [rec EXCEPT !.pc = "get"] /\ UNCHANGED <<di, obj, queue, drifted>>
        BY <3>3 DEF AddFinalizerFails, Passes, At
      <4>2. /\ rec' \in Locals /\ rec'.n = 1 /\ rec'.pc = "get" /\ rec'.di = rec.di
        BY <4>1, <1>0 DEF Locals
      <4>3. UsedType'
        BY <3>3, <1>0, UsedTyped DEF AddFinalizerFails, Fault, UsedType
      <4>4. Wants' => Wants
        BY <4>1 DEF Wants, Present
      <4>5. rec.di.uid # 0 /\ rec.di.spec \in UserSpecs
        BY <4>1 DEF Known, Running
      <4>6. ~queue /\ Wants => rec.di.uid = di.uid /\ rec.di.spec = di.spec
        BY <4>1 DEF FitsSoFar, Running
      <4> QED BY <4>1, <4>2, <4>3, <4>4, <4>5, <4>6, <1>0
    <3> QED BY <1>2, <3>1, <3>2, <3>3
  <2>2. Present' => di'.uid # 0 /\ di'.spec \in UserSpecs
    <3>1. CASE Present
      BY <3>1, <2>1 DEF Known
    <3>2. CASE ~Present
      BY <3>2, <1>2 DEF Present, ReconcileStart, AddFinalizer, AddFinalizerFails
    <3> QED BY <3>1, <3>2
  <2>3. TypeOK' /\ Known' /\ Passes' /\ StaysToBeReleased' /\ WorkloadsFree'
    BY <2>1, <2>2 DEF TypeOK, UsedType, Known, Passes, StaysToBeReleased, WorkloadsFree,
                Running, At, Exists
  <2>4. \A m \in 1..Total : ~(m < rec'.n)
    BY <2>1, ListFacts
  <2>5. SeenIsRecent' /\ ReleasedSoFar' /\ HeldSoFar' /\ FitsSoFar' /\ SettledMeansDeployed'
    BY <2>1, <2>4 DEF SeenIsRecent, ReleasedSoFar, HeldSoFar, FitsSoFar, SettledMeansDeployed,
                Running, At
  <2> QED BY <2>3, <2>5
<1> QED BY <1>1, <1>2

\* Reconcile may go on to the next object when the current one is as the pass
\* wants it to be.
LEMMA AdvanceKeeps ==
    ASSUME IInv, At("get") \/ At("apply"), rec' = Advanced, UNCHANGED <<di, used>>,
           Objects', queue' \in BOOLEAN, ~queue' => ~queue,
           NEW o, o = Current, \A p \in Kinds \ {o} : obj'[p] = obj[p],
           drifted' \in SUBSET Kinds, \A p \in Kinds \ {o} : p \in drifted' <=> p \in drifted,
           o \in Workloads => (Exists(o)' => ~obj'[o].fin),
           rec.di.deleting => (Exists(o)' => ~obj'[o].fin),
           ~rec.di.deleting =>
              /\ Exists(o)'
              /\ o \notin Workloads => obj'[o].fin
              /\ ~queue' /\ Wants => Fits(o)'
    PROVE  IInv'
<1> USE DEF IInv
<1>0. Running /\ rec \in Locals
  BY DEF Running, At, TypeOK
<1>1. /\ o \in Kinds /\ rec.n \in 1..Total /\ Total \in Nat
      /\ rec.di.deleting => o = getObjectsList[Total + 1 - rec.n]
      /\ ~rec.di.deleting => o = getObjectsList[rec.n]
  BY <1>0, CurrentFacts, ListFacts
<1>2. /\ rec' \in Locals
      /\ \/ rec.n < Total /\ rec'.pc = "get" /\ rec'.n = rec.n + 1 /\ rec'.di = rec.di
         \/ /\ rec.n = Total /\ rec.di.deleting /\ rec'.pc = "release"
            /\ rec'.n = rec.n /\ rec'.di = rec.di
         \/ rec.n = Total /\ ~rec.di.deleting /\ rec' = IdleRec
  BY <1>0, AdvancedFacts
<1>3. rec'.pc \notin {"finalizer", "apply"} /\ (rec'.pc # "idle" => rec'.di = rec.di)
      /\ (rec'.pc = "release" => rec.di.deleting)
  BY <1>2, IdleFacts
<1>4. TypeOK'
  BY <1>2 DEF TypeOK, Objects
<1>5. Known' /\ Passes' /\ StaysToBeReleased'
  BY <1>0, <1>3 DEF Known, Passes, StaysToBeReleased, Running, At, Present
<1>6. WorkloadsFree'
  <2> SUFFICES ASSUME NEW p \in Workloads, Exists(p)' PROVE ~obj'[p].fin
    BY DEF WorkloadsFree
  <2>1. CASE p = o
    BY <2>1
  <2>2. CASE p # o
    <3>1. obj'[p] = obj[p] /\ Exists(p)
      BY <2>2 DEF Exists, Workloads
    <3> QED BY <3>1 DEF WorkloadsFree
  <2> QED BY <2>1, <2>2
<1>7. SeenIsRecent'
  BY <1>3 DEF SeenIsRecent, At
<1>8. ReleasedSoFar'
  <2> SUFFICES ASSUME Running', rec'.di.deleting, NEW m \in 1..Total, m < rec'.n \/ At("release")',
                      Exists(getObjectsList[Total + 1 - m])'
               PROVE  ~obj'[getObjectsList[Total + 1 - m]].fin
    BY DEF ReleasedSoFar
  <2>1. rec.di.deleting
    BY <1>3 DEF Running
  <2>2. m < rec.n \/ m = rec.n
    BY <1>1, <1>2, IdleFacts DEF At, Running
  <2>3. Total + 1 - m \in 1..Total
    BY <1>1
  <2>4. CASE getObjectsList[Total + 1 - m] = o
    BY <2>1, <2>4
  <2>5. CASE getObjectsList[Total + 1 - m] # o
    <3>1. obj'[getObjectsList[Total + 1 - m]] = obj[getObjectsList[Total + 1 - m]]
      BY <2>3, <2>5, ListFacts
    <3>2. m < rec.n /\ Exists(getObjectsList[Total + 1 - m])
      BY <1>1, <2>1, <2>2, <2>5, <3>1 DEF Exists
    <3> QED BY <1>0, <2>1, <3>1, <3>2 DEF ReleasedSoFar
  <2> QED BY <2>4, <2>5
<1>9. HeldSoFar'
  <2> SUFFICES ASSUME Running', ~rec'.di.deleting, NEW m \in 1..Total, m < rec'.n,
                      getObjectsList[m] \notin Workloads
               PROVE  Exists(getObjectsList[m])' /\ obj'[getObjectsList[m]].fin
    BY DEF HeldSoFar
  <2>1. ~rec.di.deleting
    BY <1>3 DEF Running
  <2>2. m < rec.n \/ m = rec.n
    BY <1>1, <1>2, IdleFacts DEF Running
  <2>4. CASE getObjectsList[m] = o
    BY <2>1, <2>4
  <2>5. CASE getObjectsList[m] # o
    <3>1. obj'[getObjectsList[m]] = obj[getObjectsList[m]]
      BY <2>5, ListFacts
    <3>2. m < rec.n
      BY <1>1, <2>1, <2>2, <2>5
    <3> QED BY <1>0, <2>1, <3>1, <3>2 DEF HeldSoFar, Exists
  <2> QED BY <2>4, <2>5
<1>10. Wants' = Wants
  BY DEF Wants, Present
<1>11. ASSUME ~queue', Wants, NEW m \in 1..Total, m <= rec.n, ~rec.di.deleting
       PROVE  Fits(getObjectsList[m])'
  <2>1. CASE getObjectsList[m] = o
    BY <2>1, <1>11
  <2>2. CASE getObjectsList[m] # o
    <3>1. /\ obj'[getObjectsList[m]] = obj[getObjectsList[m]]
          /\ getObjectsList[m] \in drifted' <=> getObjectsList[m] \in drifted
      BY <2>2, ListFacts
    <3>2. m < rec.n
      BY <1>1, <1>11, <2>2
    <3>3. Fits(getObjectsList[m])
      BY <1>0, <1>11, <2>2, <3>2 DEF FitsSoFar
    <3> QED BY <3>1, <3>3 DEF Fits, Exists
  <2> QED BY <2>1, <2>2
<1>12. Wants => ~rec.di.deleting
  BY <1>0 DEF Wants, StaysToBeReleased
<1>13. FitsSoFar'
  <2> SUFFICES ASSUME Running', ~queue', Wants
               PROVE  /\ rec'.di.uid = di.uid /\ rec'.di.spec = di.spec
                      /\ \A m \in 1..Total : m < rec'.n => Fits(getObjectsList[m])'
    BY <1>10 DEF FitsSoFar
  <2>1. rec'.di = rec.di /\ \A m \in 1..Total : m < rec'.n => m <= rec.n
    BY <1>1, <1>2, <1>3, IdleFacts DEF Running
  <2>2. rec.di.uid = di.uid /\ rec.di.spec = di.spec
    BY <1>0 DEF FitsSoFar
  <2> QED BY <2>1, <2>2, <1>11, <1>12
<1>14. SettledMeansDeployed'
  <2> SUFFICES ASSUME rec'.pc = "idle", ~queue', Wants
               PROVE  \A p \in Kinds : Fits(p)'
    BY <1>10 DEF SettledMeansDeployed, Deployed, Fits, At
  <2>1. rec.n = Total /\ ~rec.di.deleting
    BY <1>2, <1>12
  <2>2. \A m \in 1..Total : m <= rec.n
    BY <2>1, <1>1
  <2> QED BY <2>1, <2>2, <1>11, ListFacts
<1> QED BY <1>4, <1>5, <1>6, <1>7, <1>8, <1>9, <1>13, <1>14

\* Reading an object: what is read is what there is.
LEMMA GetKeeps == ASSUME IInv, GetObject PROVE IInv'
<1> USE DEF IInv
<1>0. rec \in Locals /\ Objects /\ Current \in Kinds /\ queue \in BOOLEAN
      /\ At("get") /\ UNCHANGED <<di, obj, queue, used>> /\ drifted' = drifted \ {Current}
      /\ drifted' \in SUBSET Kinds
  BY CurrentFacts DEF TypeOK, Objects, GetObject
<1> DEFINE Skipped == rec.di.deleting /\ (obj[Current] = Absent \/ Current \in Workloads \/ ~obj[Current].fin)
<1>1. CASE Skipped
  <2>1. rec' = Advanced
    BY <1>1 DEF GetObject
  <2>2. Exists(Current) => ~obj[Current].fin
    BY <1>1 DEF Exists, WorkloadsFree
  <2>3. PICK o : o = Current
    OBVIOUS
  <2>4. o \in Kinds /\ rec.di.deleting /\ (Exists(o)' => ~obj'[o].fin) /\ Objects'
    BY <1>0, <1>1, <2>2, <2>3 DEF Exists, Objects
  <2> QED BY <1>0, <2>1, <2>3, <2>4, AdvanceKeeps
<1>2. CASE ~Skipped
  <2>1. rec' = [rec EXCEPT !.pc = "apply", !.seen = obj[Current]]
    BY <1>2 DEF GetObject
  <2>2. /\ rec' \in Locals /\ rec'.pc = "apply" /\ rec'.seen = obj[Current]
        /\ rec'.di = rec.di /\ rec'.n = rec.n
    BY <1>0, <2>1 DEF Locals, Objects
  <2>3. Current' = Current
    BY <2>2 DEF Current
  <2>4. rec'.di.deleting => rec'.seen # Absent
    BY <1>2, <2>2
  <2>5. TypeOK' /\ Known' /\ Passes' /\ StaysToBeReleased' /\ WorkloadsFree'
    BY <1>0, <2>2, <2>4 DEF TypeOK, Known, Passes, StaysToBeReleased, WorkloadsFree,
                            Present, Running, At, Exists
  <2>6. SeenIsRecent'
    BY <1>0, <2>2, <2>3 DEF SeenIsRecent, Exists
  <2>7. ReleasedSoFar' /\ HeldSoFar'
    BY <1>0, <2>2 DEF ReleasedSoFar, HeldSoFar, Running, At, Exists
  <2>8. \A p : p # Current /\ Fits(p) => Fits(p)'
    BY <1>0 DEF Fits, Exists
  <2>9. FitsSoFar' /\ SettledMeansDeployed'
    BY <1>0, <2>2, <2>3, <2>8 DEF FitsSoFar, SettledMeansDeployed, Running, At, Wants, Present
  <2> QED BY <2>5, <2>6, <2>7, <2>9
<1> QED BY <1>1, <1>2

\* A refused request ends Reconcile; an accepted one is about one object.
LEMMA CreateKeeps == ASSUME IInv, CreateObject PROVE IInv'
<1> USE DEF IInv
<1>0. /\ rec \in Locals /\ Objects /\ Current \in Kinds /\ queue \in BOOLEAN /\ UsedType
      /\ At("apply") /\ ~rec.di.deleting /\ di' = di /\ drifted' = drifted /\ drifted \in SUBSET Kinds
  BY CurrentFacts DEF TypeOK, Objects, UsedType, CreateObject, Write
<1>1. CASE Return(TRUE) /\ UNCHANGED obj /\ UsedType'
  BY <1>0, <1>1, ReturnKeeps DEF Return
<1>2. CASE ~Exists(Current) /\ Becomes(Current, Wanted(Current)) /\ rec' = Advanced /\ UNCHANGED used
  <2>1. PICK o \in Kinds : o = Current
    BY <1>0
  <2>2. PICK x : x = Wanted(o)
    OBVIOUS
  <2>3. rec.di.uid # 0 /\ rec.di.spec \in UserSpecs
    BY <1>0 DEF Known, Running, At
  <2>4. /\ x \in Object /\ x.fin = (o \notin Workloads)
        /\ x.owner = rec.di.uid /\ x.labels = rec.di.spec.labels
        /\ x.cfg = Contents(o, rec.di.spec)
    BY <2>2, <2>3, WantedFacts
  <2>5. Becomes(o, x)
    BY <1>2, <2>1, <2>2 DEF Becomes, Noticed
  <2>6. /\ Objects' /\ obj'[o] = x /\ \A p \in Kinds \ {o} : obj'[p] = obj[p]
        /\ (~queue' => ~queue) /\ queue' \in BOOLEAN
    BY <1>0, <2>4, <2>5, BecomesFacts
  <2>7. Exists(o)'
    BY <2>4, <2>6, AbsentIsNone DEF Exists
  <2>8. ~queue /\ Wants => rec.di.uid = di.uid /\ rec.di.spec = di.spec
    BY <1>0 DEF FitsSoFar, Running, At
  <2>9. ~queue' /\ Wants => Fits(o)'
    BY <1>0, <2>4, <2>6, <2>7, <2>8 DEF Fits
  <2> QED BY <1>0, <1>2, <2>1, <2>4, <2>6, <2>7, <2>9, AdvanceKeeps
<1> QED BY <1>0, <1>1, <1>2, UsedTyped DEF CreateObject, Write, Fault, UsedType

\* A patch sets what differs from what was read, and nobody else has changed
\* the rest unnoticed.
LEMMA PatchKeeps == ASSUME IInv, PatchObject PROVE IInv'
<1> USE DEF IInv
<1>0. /\ rec \in Locals /\ Objects /\ Current \in Kinds /\ queue \in BOOLEAN /\ UsedType
      /\ At("apply") /\ ~rec.di.deleting /\ di' = di /\ drifted' = drifted /\ drifted \in SUBSET Kinds /\ rec.seen # Absent /\ rec.seen \in Object
  BY CurrentFacts DEF TypeOK, Objects, UsedType, PatchObject, Write, Locals
<1>1. CASE Return(TRUE) /\ UNCHANGED obj /\ UsedType'
  BY <1>0, <1>1, ReturnKeeps DEF Return
<1>2. CASE /\ Exists(Current) /\ rec' = Advanced /\ UNCHANGED used
           /\ Becomes(Current, Merged(rec.seen, Wanted(Current), obj[Current]))
  <2>1. PICK o \in Kinds : o = Current
    BY <1>0
  <2>2. PICK w : w = Wanted(o)
    OBVIOUS
  <2>3. PICK x : x = Merged(rec.seen, w, obj[o])
    OBVIOUS
  <2>4. rec.di.uid # 0 /\ rec.di.spec \in UserSpecs
    BY <1>0 DEF Known, Running, At
  <2>5. /\ w \in Object /\ w.fin = (o \notin Workloads)
        /\ w.owner = rec.di.uid /\ w.labels = rec.di.spec.labels
        /\ w.cfg = Contents(o, rec.di.spec)
    BY <2>2, <2>4, WantedFacts
  <2>6. obj[o] \in Object
    BY <1>0, <1>2, <2>1, ObjectFacts
  <2>7. /\ obj[o].owner = rec.seen.owner /\ obj[o].fin = rec.seen.fin
        /\ ~queue => /\ obj[o].labels = rec.seen.labels
                     /\ o \notin drifted => obj[o].cfg = rec.seen.cfg
    BY <1>0, <1>2, <2>1 DEF SeenIsRecent
  <2>8. /\ x \in Object /\ x.fin = w.fin /\ x.owner = w.owner
        /\ ~queue => x.labels = w.labels /\ (o \notin drifted => x.cfg = w.cfg)
    BY <1>0, <2>3, <2>5, <2>6, <2>7, MergedFacts
  <2>9. Becomes(o, x)
    BY <1>2, <2>1, <2>2, <2>3 DEF Becomes, Noticed
  <2>10. /\ Objects' /\ obj'[o] = x /\ \A p \in Kinds \ {o} : obj'[p] = obj[p]
         /\ (~queue' => ~queue) /\ queue' \in BOOLEAN
    BY <1>0, <2>8, <2>9, BecomesFacts
  <2>11. Exists(o)'
    BY <2>8, <2>10, AbsentIsNone DEF Exists
  <2>12. ~queue /\ Wants => rec.di.uid = di.uid /\ rec.di.spec = di.spec
    BY <1>0 DEF FitsSoFar, Running, At
  <2>13. ~queue' /\ Wants => Fits(o)'
    BY <1>0, <2>5, <2>8, <2>10, <2>11, <2>12 DEF Fits
  <2> QED BY <1>0, <1>2, <2>1, <2>5, <2>8, <2>10, <2>11, <2>13, AdvanceKeeps
<1> QED BY <1>0, <1>1, <1>2, UsedTyped DEF PatchObject, Write, Fault, UsedType

\* The update that takes off a finalizer takes off nothing else.
LEMMA ReleaseKeeps == ASSUME IInv, ReleaseObject PROVE IInv'
<1> USE DEF IInv
<1>0. /\ rec \in Locals /\ Objects /\ Current \in Kinds /\ queue \in BOOLEAN /\ UsedType
      /\ At("apply") /\ rec.di.deleting /\ di' = di /\ drifted' = drifted /\ drifted \in SUBSET Kinds /\ rec.seen # Absent /\ rec.seen \in Object
  BY CurrentFacts DEF TypeOK, Objects, UsedType, ReleaseObject, Write, Locals, Passes
<1>1. CASE Return(TRUE) /\ UNCHANGED obj /\ UsedType'
  BY <1>0, <1>1, ReturnKeeps DEF Return
<1>2. CASE /\ obj[Current] = rec.seen /\ rec' = Advanced /\ UNCHANGED used
           /\ Becomes(Current, [rec.seen EXCEPT !.fin = FALSE])
  <2>1. PICK o \in Kinds : o = Current
    BY <1>0
  <2>2. PICK x : x = [rec.seen EXCEPT !.fin = FALSE]
    OBVIOUS
  <2>3. x \in Object /\ ~x.fin
    BY <1>0, <2>2 DEF Object
  <2>4. Becomes(o, x)
    BY <1>2, <2>1, <2>2 DEF Becomes, Noticed
  <2>5. /\ Objects' /\ obj'[o] = x /\ \A p \in Kinds \ {o} : obj'[p] = obj[p]
        /\ (~queue' => ~queue) /\ queue' \in BOOLEAN
    BY <1>0, <2>3, <2>4, BecomesFacts
  <2> QED BY <1>0, <1>2, <2>1, <2>3, <2>5, AdvanceKeeps
<1> QED BY <1>0, <1>1, <1>2, UsedTyped DEF ReleaseObject, Write, Fault, UsedType

\* The DriverInstance goes, and with it what Reconcile has to do.
LEMMA RemoveKeeps == ASSUME IInv, RemoveFinalizer PROVE IInv'
<1>1. rec' = IdleRec /\ obj' = obj /\ di' = NoResource /\ queue' = TRUE /\ UsedType'
      /\ UNCHANGED drifted
  BY DEF RemoveFinalizer, Return, IInv, TypeOK, UsedType
<1> QED BY <1>1, ReturnKeeps

-----------------------------------------------------------------------------
(***************************************************************************)
(* The theorems.                                                           *)
(***************************************************************************)

\* Nothing is there at first, and nothing is asked for.
LEMMA InvInit == ASSUME Init PROVE IInv
<1>1. ~Running /\ ~Present /\ ~di.deleting /\ \A o \in Kinds : ~Exists(o)
  BY IdleFacts, NoResourceFacts DEF Init, Running, Present, Exists
<1>2. TypeOK
  BY IdleFacts, NoResourceFacts DEF Init, TypeOK
<1> QED BY <1>1, <1>2 DEF IInv, Known, Passes, StaysToBeReleased, WorkloadsFree, Workloads, SeenIsRecent,
                     ReleasedSoFar, HeldSoFar, FitsSoFar, SettledMeansDeployed, Wants, Running, At

\* Every step keeps the invariant.
LEMMA InvNext == ASSUME IInv, [Next]_vars PROVE IInv'
<1>1. CASE Reconcile
  BY <1>1, StartKeeps, GetKeeps, CreateKeeps, PatchKeeps, ReleaseKeeps, RemoveKeeps DEF Reconcile
<1>2. CASE OperatorFaults \/ UserNext
  BY <1>2, FaultsKeep, UsersKeep
<1>3. CASE ClusterStep \/ \E o \in Kinds : StrayDelete(o) \/ StrayEdit(o)
  BY <1>3, OthersKeep DEF ClusterStep
<1>4. CASE UNCHANGED vars
  <2>1. UNCHANGED <<di, obj, rec, drifted, queue, used>>
    BY <1>4 DEF vars
  <2>2. Current' = Current /\ \A o : Fits(o)' = Fits(o)
    BY <2>1 DEF Current, Fits, Exists
  <2>3. TypeOK' /\ Known' /\ Passes' /\ StaysToBeReleased' /\ WorkloadsFree'
    BY <2>1 DEF IInv, TypeOK, Known, Passes, StaysToBeReleased, WorkloadsFree,
                Present, Running, At, Exists
  <2>4. SeenIsRecent' /\ ReleasedSoFar' /\ HeldSoFar' /\ FitsSoFar'
    BY <2>1, <2>2 DEF IInv, SeenIsRecent, ReleasedSoFar, HeldSoFar, FitsSoFar,
                      Present, Wants, Running, At, Exists
  <2>5. SettledMeansDeployed'
    BY <2>1 DEF IInv, SettledMeansDeployed, Deployed, Exists, Wants, Present, At
  <2> QED BY <2>3, <2>4, <2>5 DEF IInv
<1> QED BY <1>1, <1>2, <1>3, <1>4 DEF Next

\* The invariant holds always.
LEMMA InvAlways == Spec => []IInv
  BY InvInit, InvNext, PTL DEF Spec

\* TYPES.  The variables of the DriverInstance controller, and the objects of the
\* driver, have their types.
THEOREM TypeCorrect == Spec => []TypeOK
  BY InvAlways, PTL DEF IInv

\* SAFETY.  However requests fail, whatever users, the cluster and others do
\* between any two of them and wherever the operator crashes, Reconcile comes to
\* rest with a DriverInstance present only when every object of the driver exists,
\* belongs to it, and is as it says (driverinstance_controller.go:84-121, 149-216,
\* and the event filter, 223-233), but for contents that others have edited since
\* the last reconciliation read them and that the filter does not look at.
THEOREM RestsWhenDeployed == Spec => []SettledMeansDeployed
  BY InvAlways, PTL DEF IInv

\* ACTION.  No object is ever created before those that it refers to, or after
\* one of them has gone: the order of getObjectsList (lines 123-147) and the
\* finalizers of handleObject (line 159) suffice for every choice of objects.
THEOREM CreatesInOrder == Spec => CreatedAfterItsRefs
<1> DEFINE A == \A o \in Kinds :
                   ~Exists(o) /\ obj'[o] # Absent =>
                      \A p \in Configuration[o].refs \cap Kinds : Exists(p)
<1>1. ASSUME IInv, Next PROVE A
  <2> SUFFICES ASSUME NEW o \in Kinds, ~Exists(o), obj'[o] # Absent, NEW p \in Refs(o)
               PROVE  Exists(p)
    BY DEF Refs
  <2>0. rec \in Locals /\ Objects /\ HeldSoFar /\ Passes
    BY <1>1 DEF IInv, TypeOK, Objects
  <2>1. CASE CreateObject
    <3>1. o = Current
      BY <2>0, <2>1 DEF CreateObject, Write, Becomes, Exists, Objects
    <3>2. o = getObjectsList[rec.n] /\ rec.n \in 1..Total /\ ~rec.di.deleting /\ Running
      BY <2>0, <2>1, <3>1, CurrentFacts DEF CreateObject, At, Running
    <3>3. p \notin Workloads /\ \E m \in 1..Total : m < rec.n /\ getObjectsList[m] = p
      BY <3>2, ListFacts
    <3> QED BY <2>0, <3>2, <3>3 DEF HeldSoFar
  <2>2. CASE PatchObject
    BY <2>0, <2>2 DEF PatchObject, Write, Becomes, Exists, Objects
  <2>3. CASE ReleaseObject
    BY <2>0, <2>3 DEF ReleaseObject, Write, Becomes, Exists, Objects, Passes
  <2>4. CASE UserNext \/ OperatorFaults \/ ReconcileSkip \/ ReconcileStart \/ AddFinalizer
             \/ AddFinalizerFails \/ GetObject \/ RemoveFinalizer
    BY <2>4 DEF UserNext, CreateInstance, EditInstance, DeleteInstance, OperatorFaults,
           ReconcileGetFails, GetObjectFails, RemoveFinalizerFails, OperatorCrash, ReconcileSkip,
           ReconcileStart, AddFinalizer, AddFinalizerFails, GetObject, RemoveFinalizer, Exists
  <2>5. CASE ClusterStep \/ \E q \in Kinds : StrayDelete(q) \/ StrayEdit(q)
    BY <2>0, <2>5 DEF ClusterStep, CollectGarbage, EmptyNamespace, Vanish, StrayDelete, StrayEdit,
           Becomes, Exists, Objects
  <2> QED BY <1>1, <2>1, <2>2, <2>3, <2>4, <2>5 DEF Next, Reconcile
<1> QED BY <1>1, InvAlways, PTL DEF Spec, CreatedAfterItsRefs

\* ACTION.  A DriverInstance that is being deleted goes only when none of the
\* driver's objects has a finalizer that nobody would take off any more
\* (lines 104-118).
THEOREM ReleasesLast == Spec => ReleasedLast
<1> DEFINE A == Present /\ di.deleting /\ di'.uid # di.uid =>
                   \A o \in Kinds : Exists(o) => ~obj[o].fin
<1>1. ASSUME IInv, Next PROVE A
  <2> SUFFICES ASSUME Present, di.deleting, di'.uid # di.uid, NEW o \in Kinds, Exists(o)
               PROVE  ~obj[o].fin
    OBVIOUS
  <2>0. di \in Resource /\ ReleasedSoFar /\ Passes
    BY <1>1 DEF IInv, TypeOK
  <2>1. At("release")
    BY <1>1, <2>0 DEF Next, Reconcile, UserNext, CreateInstance, EditInstance, DeleteInstance,
           OperatorFaults, ReconcileGetFails, GetObjectFails, RemoveFinalizerFails, OperatorCrash,
           ReconcileSkip, ReconcileStart, AddFinalizer, AddFinalizerFails, GetObject, CreateObject,
           PatchObject, ReleaseObject, RemoveFinalizer, Write, ClusterStep, CollectGarbage,
           EmptyNamespace, Vanish, StrayDelete, StrayEdit, Resource
  <2>2. PICK m \in 1..Total : getObjectsList[m] = o
    BY ListFacts
  <2>3. Total + 1 - m \in 1..Total /\ Total + 1 - (Total + 1 - m) = m
    BY ListFacts
  <2> QED BY <2>0, <2>1, <2>2, <2>3 DEF Passes, ReleasedSoFar, Running, At
<1> QED BY <1>1, InvAlways, PTL DEF Spec, ReleasedLast
=============================================================================
