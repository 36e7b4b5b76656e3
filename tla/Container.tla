----------------------------- MODULE Container -----------------------------
(* The dependency container (platform/src/container.ts): factories resolve    *)
(* what they need from inside, and disposal undoes what was built.  Factories *)
(* run synchronously, so one top-level resolve at a time is under way; the    *)
(* awaits are the disposers'.                                                 *)
EXTENDS Naturals, Sequences, SequencesExt

CONSTANTS
  Token,
  Singleton,   \* registered with singleton(); the other tokens are transient
  Disposers,   \* which singletons may have been registered with `dispose`: sets of them
  Graphs       \* what the factories may need: functions from Token to sets of tokens

ASSUME ContainerAssumption ==
  Singleton \subseteq Token /\ Disposers \subseteq SUBSET Singleton /\ Graphs \subseteq [Token -> SUBSET Token]

VARIABLES
  needs,      \* the graph, one of Graphs
  disposable, \* the singletons with a disposer, one of Disposers
  built,      \* singletons that have an instance
  created,    \* #created
  resolving,  \* #resolving, with what each factory has still to resolve
  disposing,  \* what dispose has still to go through; <<>> if it does not run
  failed      \* a resolve has thrown

containerVars == <<needs, disposable, built, created, resolving, disposing, failed>>

Factory == [token : Token, left : SUBSET Token]

ContainerTypeOK ==
  /\ needs \in [Token -> SUBSET Token] /\ disposable \subseteq Singleton
  /\ built \subseteq Singleton /\ failed \in BOOLEAN
  /\ created \in Seq(Singleton) /\ disposing \in Seq(Singleton) /\ resolving \in Seq(Factory)

ContainerInit ==
  /\ needs \in Graphs /\ disposable \in Disposers /\ built = {} /\ created = <<>> /\ resolving = <<>>
  /\ disposing = <<>> /\ failed = FALSE

Frame(t) == [token |-> t, left |-> needs[t]]
OnStack == {resolving[i].token : i \in DOMAIN resolving}

\* The factory on top goes on with a token it has got.
Got(stack, t) ==
  [i \in DOMAIN stack |-> IF i < Len(stack) THEN stack[i] ELSE [token |-> stack[i].token, left |-> stack[i].left \ {t}]]

\* What a resolve asks for: the program, or the factory on top.
Asked == IF resolving = <<>> THEN IF disposing = <<>> THEN Token ELSE {} ELSE Last(resolving).left

\* resolve of what has an instance, or of what has none and is not on its way.
Find(t) ==
  /\ t \in Asked /\ t \in built /\ resolving # <<>>
  /\ resolving' = Got(resolving, t) /\ UNCHANGED <<needs, disposable, built, created, disposing, failed>>
Enter(t) ==
  /\ t \in Asked \ (built \union OnStack)
  /\ resolving' = Append(resolving, Frame(t)) /\ UNCHANGED <<needs, disposable, built, created, disposing, failed>>

\* resolve finds a cycle, or a factory throws: no factory catches it, and what
\* was built on the way stays.
Throw ==
  /\ resolving # <<>> /\ resolving' = <<>> /\ failed' = TRUE
  /\ UNCHANGED <<needs, disposable, built, created, disposing>>
Cycle(t) == t \in Asked \intersect (OnStack \ built) /\ Throw

\* The factory on top returns.
Construct ==
  /\ resolving # <<>> /\ Last(resolving).left = {}
  /\ LET t == Last(resolving).token
     IN  /\ resolving' = Got(Front(resolving), t)
         /\ IF t \in Singleton
            THEN built' = built \union {t} /\ created' = Append(created, t)
            ELSE UNCHANGED <<built, created>>
  /\ UNCHANGED <<needs, disposable, disposing, failed>>

\* Mutant of Order: in the order of creation.
OrderOfCreation == created

\* [...this.#created].reverse()
Order == Reverse(created)

\* dispose, which the program calls outside of factories and resolves nothing during.
Dispose ==
  /\ resolving = <<>> /\ disposing = <<>> /\ created # <<>>
  /\ disposing' = Order /\ UNCHANGED <<needs, disposable, built, created, resolving, failed>>

\* The next disposer settles; what it throws is collected, and the instance is
\* forgotten either way.  A name without a disposer is passed over, and its
\* instance stays.  After the last one #created is emptied.
DisposeNext ==
  /\ disposing # <<>>
  /\ built' = built \ ({Head(disposing)} \intersect disposable) /\ disposing' = Tail(disposing)
  /\ created' = IF Len(disposing) = 1 THEN <<>> ELSE created
  /\ UNCHANGED <<needs, disposable, resolving, failed>>

ContainerNext ==
  \/ \E t \in Token : Find(t) \/ Enter(t) \/ Cycle(t)
  \/ Throw \/ Construct \/ Dispose \/ DisposeNext

ContainerSpec == ContainerInit /\ [][ContainerNext]_containerVars

------------------------------------------------------------------------------
\* What dispose, running or the next one, has still to come to.
Awaiting == ToSet(IF disposing = <<>> THEN created ELSE disposing)

\* What an earlier disposal passed over: #created has forgotten it, resolve has
\* not, and what it holds is gone.
Leftovers == built \ ToSet(created)

\* Every factory of ready has got all it needs from it, or got a leftover; what a
\* transient holds is held through it.
Ready(ready) == \A t \in ready : needs[t] \subseteq ready \union Leftovers

\* container.ts:119 "Dispose every constructed singleton in reverse creation
\* order, so a dependency outlives its dependents": through cycles, throwing
\* factories and half-done disposals, whatever dispose has not come to yet has its
\* instance and holds nothing that dispose has taken in this round; each is in
\* #created once; and of what dispose has been through only singletons without a
\* disposer are left.
DependenciesOutlive ==
  /\ ContainerTypeOK /\ IsInjective(created) /\ Awaiting \subseteq built
  /\ \E transients \in SUBSET (Token \ Singleton) : Ready(Awaiting \union transients)
  /\ disposable \intersect (built \ Awaiting) = {}
=============================================================================
