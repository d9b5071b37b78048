-------------------------------- MODULE Mss --------------------------------
(***************************************************************************)
(* The Merkle tree of the K2SN-MSS signature (k2sn/ksnmss.c): building the *)
(* tree in key_generation(), the traversal that ksnmss_sign() does after   *)
(* each signature so that auth[] holds the path of the next one-time key,  *)
(* and the check of a path in ksnmss_verify().                             *)
(*                                                                         *)
(* A node is named by its height and index; a hash of anything but the two *)
(* children of a node under that node's pad is Junk.  One-time keys, pads  *)
(* and SWIFFT are not modelled beyond that.                                *)
(***************************************************************************)
EXTENDS Powers, Sequences, FiniteSets

CONSTANTS
    hlength,    \* height of the tree (20 in the program)
    MaxKeygen   \* bound: calls of key_generation

ASSUME HeightAssumption == hlength \in Nat /\ hlength >= 4 /\ hlength % 2 = 0
ASSUME KeygenAssumption == MaxKeygen \in Nat

Infy == 999999  \* the low height of an instance that needs no leaves
ASSUME InfyAssumption == hlength < Infy

VARIABLES
    auth,       \* the path of the next one-time key
    keep,       \* nodes saved for later left siblings
    retain,     \* the one right node that is never computed again
    instance,   \* the TreeHash instances that compute right nodes ahead
    MSSPK,      \* the public key: the root
    sig,        \* the last signature: one-time key and path
    treestack,  \* the stack of a key_generation() under way
    next,       \* the leaf to generate, or the one-time key to sign with next
    gens        \* calls of key_generation so far

mssvars == <<auth, keep, retain, instance, MSSPK, sig, treestack, next, gens>>

-----------------------------------------------------------------------------
(* Nodes and stacks *)

usr == Pow2[hlength]
updateiter == hlength \div 2 - 1

Junk == <<-1, 0>>
Leaf(i) == <<0, i>>
Root == <<hlength, 0>>

\* SWIFFT of two nodes under the pad and key of node i at height h.
Parent(l, r, h, i) ==
    IF l = <<h - 1, 2 * i>> /\ r = <<h - 1, 2 * i + 1>> THEN <<h, i>> ELSE Junk

StackNode(key, h, i) == [key |-> key, height |-> h, indx |-> i]

Merge(l, nd) ==
    StackNode(Parent(l.key, nd.key, nd.height + 1, nd.indx \div 2),
              nd.height + 1, nd.indx \div 2)

\* The while loop of TreeHash: the values of nodestack, one for each merge.
Climb(st, nd) ==
    LET n == Len(st)
        f[k \in 0..n] == IF k = 0 THEN nd ELSE Merge(st[n - k + 1], f[k - 1])
        Meets(k) == k < n /\ st[n - k].height = f[k].height
        last == CHOOSE k \in 0..n : ~Meets(k) /\ \A j \in 0..k-1 : Meets(j)
    IN  [k \in 1..last+1 |-> f[k - 1]]

Pushed(st, path) ==
    SubSeq(st, 1, Len(st) - Len(path) + 1) \o <<path[Len(path)]>>

NewInstance == [v |-> Junk, stack |-> <<>>, finalized |-> 0, startleaf |-> 0,
                lowheight |-> 0]

-----------------------------------------------------------------------------
(* key_generation() *)

\* One leaf of the tree: right nodes with index 1 are the first path, those
\* with index 3 the first results of the instances.
GenerateLeaf(id) ==
    LET path == Climb(treestack, StackNode(Leaf(id), 0, id))
        st   == Pushed(treestack, path)
        At(h, i) == \E k \in 1..Len(path)-1 : path[k].height = h /\ path[k].indx = i
        Key(h) == path[h + 1].key
    IN  /\ auth' = [h \in DOMAIN auth |-> IF At(h, 1) THEN Key(h) ELSE auth[h]]
        /\ instance' = [h \in DOMAIN instance |->
                IF At(h, 3)
                THEN [instance[h] EXCEPT !.v = Key(h), !.finalized = 1,
                                         !.lowheight = Infy, !.stack = <<>>]
                ELSE instance[h]]
        /\ retain' = IF At(hlength - 2, 3) THEN Key(hlength - 2) ELSE retain
        /\ IF id = usr - 1
           THEN MSSPK' = st[Len(st)].key /\ treestack' = <<>> /\ next' = 0
           ELSE MSSPK' = MSSPK /\ treestack' = st /\ next' = id + 1
        /\ UNCHANGED <<keep, sig>>

\* The call of key_generation() and one turn of its loop over the leaves.
\* Nothing else runs until the root is left on the stack.
KeyGeneration ==
    /\ treestack = <<>> /\ gens < MaxKeygen
    /\ gens' = gens + 1
    /\ GenerateLeaf(0)

GenerateNext ==
    /\ treestack # <<>>
    /\ GenerateLeaf(next)
    /\ UNCHANGED gens

-----------------------------------------------------------------------------
(* The traversal of ksnmss_sign() *)

\* Bug: only the lowest bit of the id is looked at.
BugTau(id) == IF id % 2 = 0 THEN 0 ELSE 1

\* The height at which the path of id + 1 gets a new left node.
Tau(id) ==
    IF id % 2 = 0 THEN 0
    ELSE CHOOSE t \in 1..hlength : (id + 1) % Pow2[t] = 0 /\ (id + 1) % Pow2[t + 1] # 0

Kept(id, t) ==
    IF (id \div Pow2[t + 1]) % 2 = 0 /\ t < hlength - 1
    THEN [keep EXCEPT ![t] = auth[t]] ELSE keep

\* The path after the steps 3 and 4: a new left node at height t and, below
\* it, the right nodes the instances have computed.
NextAuth(id, t, k) ==
    [i \in DOMAIN auth |->
        IF i = 0 /\ id % 2 = 0 THEN Leaf(id)
        ELSE IF i = t /\ t > 0 THEN Parent(auth[t-1], k[t-1], t, id \div Pow2[t])
        ELSE IF i >= t \/ i > hlength - 2 THEN auth[i]
        ELSE IF i < hlength - 2 THEN instance[i].v ELSE retain]

Restarted(id, t) ==
    [i \in DOMAIN instance |->
        LET s == id + 1 + 3 * Pow2[i] IN
        IF i < t /\ s < usr
        THEN [instance[i] EXCEPT !.finalized = 0, !.startleaf = s,
                !.lowheight = IF instance[i].stack = <<>> THEN 0 ELSE @]
        ELSE instance[i]]

Busy(ins, j) == ins[j].lowheight # Infy /\ ins[j].finalized # 1

\* Bug: of two instances with the same low height the upper one is served.
BugServed(ins) ==
    CHOOSE j \in DOMAIN ins : Busy(ins, j) /\
        \A k \in DOMAIN ins : Busy(ins, k) =>
            \/ ins[j].lowheight < ins[k].lowheight
            \/ ins[j].lowheight = ins[k].lowheight /\ j >= k

\* The instance that gets the next leaf.
Served(ins) ==
    CHOOSE j \in DOMAIN ins : Busy(ins, j) /\
        \A k \in DOMAIN ins : Busy(ins, k) =>
            \/ ins[j].lowheight < ins[k].lowheight
            \/ ins[j].lowheight = ins[k].lowheight /\ j <= k

\* Bug: the root of the subtree is pushed like any other node.
BugUpdated(x, j) ==
    LET nd   == StackNode(Leaf(x.startleaf), 0, x.startleaf)
        path == Climb(x.stack, nd)
        st   == Pushed(x.stack, path)
    IN  IF j = 0 THEN [x EXCEPT !.v = nd.key, !.finalized = 1, !.lowheight = Infy]
        ELSE [x EXCEPT !.stack = st, !.startleaf = @ + 1,
                       !.lowheight = IF Len(st) = 1 THEN st[1].height ELSE @]

\* The instance of height j after one more leaf.
Updated(x, j) ==
    LET nd   == StackNode(Leaf(x.startleaf), 0, x.startleaf)
        path == Climb(x.stack, nd)
        end  == path[Len(path)]
        st   == Pushed(x.stack, path)
    IN  IF j = 0 THEN [x EXCEPT !.v = nd.key, !.finalized = 1, !.lowheight = Infy]
        ELSE IF x.stack = <<>> THEN [x EXCEPT !.stack = <<nd>>, !.startleaf = @ + 1]
        ELSE IF end.height = j
        THEN [x EXCEPT !.v = end.key, !.finalized = 1, !.lowheight = Infy, !.stack = <<>>]
        ELSE [x EXCEPT !.stack = st, !.startleaf = @ + 1,
                       !.lowheight = IF Len(st) = 1 THEN end.height ELSE @]

\* updateiter leaves are spent on the instances.
Worked(ins) ==
    LET w[n \in 0..updateiter] ==
            IF n = 0 THEN ins
            ELSE IF \A j \in DOMAIN ins : ~Busy(w[n-1], j) THEN w[n-1]
            ELSE LET j == Served(w[n-1])
                 IN  [w[n-1] EXCEPT ![j] = Updated(w[n-1][j], j)]
    IN  w[updateiter]

\* The update after the last one-time key writes auth[hlength], one past the
\* array: nothing, or one of the neighbouring variables is overwritten.
Overrun ==
    \/ UNCHANGED <<keep, MSSPK>>
    \/ keep' = [keep EXCEPT ![0] = Junk] /\ UNCHANGED MSSPK
    \/ MSSPK' = Junk /\ UNCHANGED keep

ksnmss_sign(id) ==
    LET t  == Tau(id)
        k  == Kept(id, t)
    IN  /\ sig' = [id |-> id, auth |-> auth]
        /\ instance' = Worked(Restarted(id, t))
        /\ \/ /\ t < hlength
              /\ keep' = k
              /\ auth' = NextAuth(id, t, k)
              /\ UNCHANGED MSSPK
           \/ /\ t = hlength
              /\ auth' = [i \in DOMAIN auth |->
                            IF i < hlength - 2 THEN instance[i].v
                            ELSE IF i = hlength - 2 THEN retain ELSE auth[i]]
              /\ Overrun
        /\ UNCHANGED <<retain, treestack, gens>>

\* The root that ksnmss_verify() computes from a path.
PathRoot(id, path) ==
    LET f[h \in 0..hlength] ==
            IF h = 0 THEN Leaf(id)
            ELSE LET i == id \div Pow2[h - 1]
                 IN  IF i % 2 = 0 THEN Parent(f[h-1], path[h-1], h, i \div 2)
                                  ELSE Parent(path[h-1], f[h-1], h, i \div 2)
    IN  f[hlength]

-----------------------------------------------------------------------------
MssInit ==
    /\ auth = [h \in 0..hlength-1 |-> Junk]
    /\ keep = [h \in 0..hlength-2 |-> Junk]
    /\ retain = Junk
    /\ instance = [h \in 0..hlength-3 |-> NewInstance]
    /\ MSSPK = Junk
    /\ sig = [id |-> -1, auth |-> auth]
    /\ treestack = <<>>
    /\ next = 0
    /\ gens = 0

\* A signer that counts its one-time keys, as k2sn/main.c does.
SignNext ==
    /\ gens > 0 /\ treestack = <<>> /\ next < usr
    /\ ksnmss_sign(next)
    /\ next' = next + 1

MssNext == KeyGeneration \/ GenerateNext \/ SignNext

MssSpec == MssInit /\ [][MssNext]_mssvars

-----------------------------------------------------------------------------
(* Properties *)

\* "Generates signature from message ms using the id^th OTS instance"
\* (ksnmss_sign): the path in every signature leads from its one-time key to
\* the root that key_generation() published.
SignatureVerifies == sig.id # -1 => PathRoot(sig.id, sig.auth) = Root

\* The work of updateiter leaves for each signature is enough: when the path
\* takes the result of an instance and starts it again, the instance has
\* finished its subtree.
FinishedInTime ==
    [][treestack = <<>> /\ next' = next + 1 /\ gens' = gens =>
          \A j \in DOMAIN instance : j < Tau(next) => instance[j].finalized = 1]_mssvars

\* A TreeHash instance never computes with a leaf beyond the last one, and the
\* one of height j never has more than j nodes on its stack, all of them below
\* height j: the arrays of ksnmss_sign() are large enough.
InstancesInBounds ==
    \A j \in DOMAIN instance :
        /\ instance[j].startleaf < usr
        /\ Len(instance[j].stack) <= j
        /\ \A k \in 1..Len(instance[j].stack) : instance[j].stack[k].height < j
=============================================================================
