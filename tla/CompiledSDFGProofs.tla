------------------------- MODULE CompiledSDFGProofs -------------------------
(***************************************************************************)
(* Proofs about module CompiledSDFG, for any objects, names of libraries,  *)
(* numbers of builds and of processes, and any disturbances.               *)
(***************************************************************************)
EXTENDS CompiledSDFG, SequenceTheorems, TLAPS

(***************************************************************************)
(* The inductive invariant.  Only live objects have a library.             *)
(***************************************************************************)
OnlyLive ==
    \A o \in Object :
        IF obj[o].status = "live" THEN obj[o].ptrs # "none"
                                  ELSE obj[o].lib = NoLib /\ obj[o].ptrs = "none"

(* An object that has a library open has a reference to it, and nobody     *)
(* else has.                                                               *)
Exclusive ==
    \A o \in Object :
        obj[o].lib # NoLib => /\ Mapped(obj[o].lib)
                              /\ \A q \in Object \ {o} : obj[q].lib # obj[o].lib

(* Function pointers that are valid point into a library that is mapped,   *)
(* which is one of the object's program or a copy that may be stale.       *)
Linked ==
    \A o \in Object :
        obj[o].ptrs = "valid" =>
            /\ obj[o].bound \in Name /\ Mapped(obj[o].bound)
            /\ \/ image[obj[o].bound] = obj[o].program
               \/ IsCopy(obj[o].bound) /\ CopiesMayBeStale

(* A library that was copied in this process has a reference more than its *)
(* objects: the one that the probe took.  So it stays mapped.              *)
Pinned(n) == refs[n] > 0 /\ ((\E o \in Object : obj[o].lib = n) => refs[n] > 1)

CopiesCurrent ==
    ~CopiesMayBeStale =>
        \A n \in Name, j \in Nat :
            Append(n, j) \in Name /\ disk[Append(n, j)] # 0 =>
                disk[Append(n, j)] = disk[n] /\ Pinned(n)

Undisturbed == env.disturbed \cap {"init", "call", "finalize"} = {}

(* Without disturbances every object keeps the library it was made with.   *)
Sound ==
    Undisturbed =>
        /\ CallsAreSound
        /\ \A o \in Object :
               obj[o].status = "live" =>
                   /\ obj[o].ptrs = "valid" /\ obj[o].lib = obj[o].bound
                   /\ obj[o].initialized => obj[o].handle = "state"

Libraries == Exclusive /\ Linked /\ MappedFileIntact /\ CopiesCurrent
Inv == TypeOK /\ OnlyLive /\ Libraries /\ Sound

(***************************************************************************)
(* Names.  The names of copies differ from those of what was copied, and   *)
(* no copy has the name of an SDFG.                                        *)
(***************************************************************************)
LEMMA NameFacts ==
    ASSUME NEW n \in Name
    PROVE  n \in Seq(Nat) /\ n # NoLib /\ n # <<>>
<1>1. n \in Seq(Nat) /\ Len(n) > 0
  BY NameAssumption
<1> QED  BY <1>1 DEF NoLib

LEMMA CopyFacts ==
    ASSUME NEW n \in Name, NEW i \in Nat
    PROVE  /\ Append(n, i) # n
           /\ \A j \in Nat : Append(n, i) # <<j>>
           /\ \A m \in Name, j \in Nat : Append(n, i) = Append(m, j) => m = n /\ i = j
<1>1. n \in Seq(Nat) /\ Len(n) \in Nat /\ Len(n) > 0 /\ Len(Append(n, i)) = Len(n) + 1
  BY NameAssumption, AppendProperties
<1>2. Append(n, i) # n
  BY <1>1
<1>3. \A j \in Nat : Append(n, i) # <<j>>
  <2>1. \A j \in Nat : Len(<<j>>) = 1
    OBVIOUS
  <2>2. Len(Append(n, i)) # 1
    BY <1>1
  <2> QED  BY <2>1, <2>2
<1>4. \A m \in Name, j \in Nat : Append(n, i) = Append(m, j) => m = n /\ i = j
  BY NameFacts, AppendInjective
<1> QED  BY <1>2, <1>3, <1>4

LEMMA ProbeFacts ==
    ASSUME TypeOK, NEW S
    PROVE  /\ Probe(S) \in [Name -> Nat]
           /\ \A m \in Name : /\ Probe(S)[m] >= refs[m]
                              /\ refs[m] = 0 => Probe(S)[m] = 0
                              /\ m \in S /\ refs[m] > 0 => Probe(S)[m] = refs[m] + 1
  BY DEF Probe, TypeOK, Mapped

(* What may be stale or rebuilt in place is fixed within a process. *)
LEMMA SameProcess ==
    ASSUME UNCHANGED <<env, restarts>>
    PROVE  /\ CopiesMayBeStale' <=> CopiesMayBeStale
           /\ \A m : RebuiltInPlace(m)' <=> RebuiltInPlace(m)
  BY DEF CopiesMayBeStale, RebuiltInPlace

(***************************************************************************)
(* What load does to the files, and which name it finds.                   *)
(***************************************************************************)
LEMMA LoadFacts ==
    ASSUME TypeOK, NEW files \in [Name -> 0..MaxVersion],
           NEW n, NEW k \in 0..MaxCount, CanLoad(n, k, files), disk' = Copied(n, k, files),
           NEW c, c = CopyName(n, k)
    PROVE  /\ n \in Name /\ c \in Name /\ refs[c] = 0 /\ files[n] # 0
           /\ disk' \in [Name -> 0..MaxVersion] /\ disk'[c] # 0
           /\ \A m \in Name : m # c \/ files[c] # 0 => disk'[m] = files[m]
           /\ files[c] = 0 => disk'[c] = files[n]
           /\ k = 0 => c = n
           /\ k # 0 => /\ k - 1 \in Nat /\ c = Append(n, k - 1) /\ c # n /\ refs[n] > 0
                       /\ n \in {CopyName(n, j) : j \in 0..(k - 1)}
           /\ \A j \in 0..(k - 1) : CopyName(n, j) # c
<1>1. k \in Nat /\ 0 \in 0..MaxCount /\ MaxCount \in Nat
  BY BoundAssumption
<1> DEFINE names == [j \in 0..MaxCount |-> CopyName(n, j)]
<1>2. Try(names, k) /\ files[n] # 0
  BY DEF CanLoad
<1>3. names[0] = n /\ names[k] = c
  BY <1>1 DEF CopyName
<1>4. n \in Name /\ c \in Name /\ ~Mapped(c) /\ (k # 0 => Mapped(n))
  <2>1. 0 \in 0..k /\ k \in 0..k /\ (k # 0 => 0 \in 0..(k - 1))
    BY <1>1
  <2> HIDE DEF names
  <2> QED  BY <1>2, <1>3, <2>1 DEF Try
<1>5. refs[c] = 0 /\ (k # 0 => refs[n] > 0)
  BY <1>4 DEF Mapped, TypeOK
<1>6. /\ disk' \in [Name -> 0..MaxVersion] /\ disk'[c] # 0
      /\ \A m \in Name : m # c \/ files[c] # 0 => disk'[m] = files[m]
      /\ files[c] = 0 => disk'[c] = files[n]
  BY <1>2, <1>4 DEF Copied
<1>7. k # 0 => /\ k - 1 \in Nat /\ c = Append(n, k - 1)
               /\ n \in {CopyName(n, j) : j \in 0..(k - 1)}
  <2>1. k # 0 => 0 \in 0..(k - 1) /\ CopyName(n, 0) = n
    BY <1>1 DEF CopyName
  <2> QED  BY <1>1, <2>1 DEF CopyName
<1>8. k # 0 => c # n
  BY <1>4, <1>7, CopyFacts
<1>9. k = 0 => c = n
  BY DEF CopyName
<1>10. \A j \in 0..(k - 1) : CopyName(n, j) # c
  <2> SUFFICES ASSUME NEW j \in 0..(k - 1) PROVE ~(CopyName(n, j) = c)
    OBVIOUS
  <2>1. j \in 0..MaxCount /\ names[j] = CopyName(n, j)
    BY <1>1
  <2> HIDE DEF names
  <2> QED  BY <1>2, <1>4, <2>1 DEF Try
<1> QED  BY <1>2, <1>4, <1>5, <1>6, <1>7, <1>8, <1>9, <1>10

LEMMA CopiesKept ==
    ASSUME TypeOK, Libraries, UNCHANGED disk, UNCHANGED <<env, restarts>>,
           \A n \in Name : Pinned(n) => Pinned(n)'
    PROVE  CopiesCurrent'
  BY SameProcess DEF Libraries, CopiesCurrent

LEMMA CopyCurrent ==
    ASSUME TypeOK, Libraries, NEW n, NEW k \in 0..MaxCount,
           CanLoad(n, k, disk), disk' = Copied(n, k, disk), UNCHANGED <<env, restarts>>,
           \A m \in Name : Pinned(m) => Pinned(m)',
           k # 0 => Pinned(n)'
    PROVE  CopiesCurrent'
<1> DEFINE c == CopyName(n, k)
<1> SUFFICES ASSUME ~CopiesMayBeStale, NEW m \in Name, NEW j \in Nat,
                    Append(m, j) \in Name, disk'[Append(m, j)] # 0
             PROVE  disk'[Append(m, j)] = disk'[m] /\ Pinned(m)'
  BY SameProcess DEF CopiesCurrent
<1> HIDE DEF c
<1>0. /\ n \in Name /\ c \in Name /\ refs[c] = 0 /\ disk[n] # 0
      /\ \A b \in Name : b # c \/ disk[c] # 0 => disk'[b] = disk[b]
      /\ disk[c] = 0 => disk'[c] = disk[n]
      /\ k = 0 => c = n
      /\ k # 0 => k - 1 \in Nat /\ c = Append(n, k - 1) /\ c # n
  <2>1. disk \in [Name -> 0..MaxVersion]
    BY DEF TypeOK
  <2> QED  BY SMTT(30), <2>1, LoadFacts DEF c
<1>1. CASE disk[Append(m, j)] # 0
  <2>1. disk[Append(m, j)] = disk[m] /\ Pinned(m)
    BY <1>1 DEF Libraries, CopiesCurrent
  <2>2. disk'[Append(m, j)] = disk[Append(m, j)] /\ disk'[m] = disk[m]
    BY <1>0, <1>1, <2>1
  <2> QED  BY <2>1, <2>2
<1>2. CASE disk[Append(m, j)] = 0
  <2>1. c = Append(m, j) /\ disk[c] = 0
    BY <1>0, <1>2
  <2>2. k # 0
    BY <1>0, <2>1
  <2>3. m = n
    BY <1>0, <2>1, <2>2, CopyFacts
  <2>4. disk'[c] = disk[n] /\ disk'[n] = disk[n]
    BY <1>0, <2>1, <2>2
  <2> QED  BY <2>1, <2>2, <2>3, <2>4
<1> QED  BY <1>1, <1>2

(***************************************************************************)
(* An object opens a library that was not mapped, and is bound to it if it *)
(* is being made.                                                          *)
(***************************************************************************)
LEMMA Acquire ==
    ASSUME TypeOK, TypeOK', Libraries, NEW o \in Object, NEW c \in Name,
           UNCHANGED <<env, restarts>>, refs[c] = 0, refs'[c] = 1, image'[c] = disk'[c], disk'[c] # 0,
           \A m \in Name : m # c => /\ refs'[m] >= refs[m] /\ (refs[m] = 0 => refs'[m] = 0)
                                    /\ image'[m] = image[m]
                                    /\ \/ disk'[m] = disk[m]
                                       \/ disk'[m] # 0 /\ RebuiltInPlace(m),
           obj[o].lib = NoLib, obj'[o].lib = c,
           \A q \in Object \ {o} :
               /\ obj'[q].lib = obj[q].lib /\ obj'[q].bound = obj[q].bound
               /\ obj'[q].ptrs = obj[q].ptrs /\ obj'[q].program = obj[q].program,
           \/ /\ obj'[o].bound = obj[o].bound /\ obj'[o].ptrs = obj[o].ptrs
              /\ obj'[o].program = obj[o].program
           \/ /\ obj'[o].bound = c
              /\ obj'[o].program = disk'[c] \/ (IsCopy(c) /\ CopiesMayBeStale)
    PROVE  /\ Exclusive' /\ Linked' /\ MappedFileIntact'
           /\ \A m \in Name : Pinned(m) => Pinned(m)'
<1>1. /\ refs \in [Name -> Nat] /\ refs' \in [Name -> Nat]
      /\ \A q \in Object : obj[q].lib \in Name \cup {NoLib} /\ obj'[q].lib \in Name \cup {NoLib}
  BY DEF TypeOK, ObjectType
<1>2. c # NoLib
  BY NameFacts
<1>3. \A q \in Object : obj[q].lib # c
  BY <1>1, <1>2 DEF Libraries, Exclusive, Mapped
<1>4. Exclusive'
  <2> SUFFICES ASSUME NEW q \in Object, obj'[q].lib # NoLib
               PROVE  /\ refs'[obj'[q].lib] > 0
                      /\ \A p \in Object \ {q} : obj'[p].lib # obj'[q].lib
    BY DEF Exclusive, Mapped
  <2>1. CASE q = o
    <3>1. refs'[obj'[q].lib] > 0
      BY <2>1
    <3> QED  BY <1>3, <2>1, <3>1
  <2>2. CASE q # o
    <3>1. obj'[q].lib = obj[q].lib /\ obj[q].lib \in Name
      BY <1>1, <2>2
    <3>2. /\ refs[obj[q].lib] > 0
          /\ \A p \in Object \ {q} : obj[p].lib # obj[q].lib
      BY <3>1 DEF Libraries, Exclusive, Mapped
    <3>3. obj[q].lib # c
      BY <1>3
    <3>4. refs'[obj[q].lib] > 0
      BY <1>1, <3>1, <3>2, <3>3
    <3>5. \A p \in Object \ {q} : obj'[p].lib # obj[q].lib
      BY <3>2, <3>3
    <3> QED  BY <3>1, <3>4, <3>5
  <2> QED  BY <2>1, <2>2
<1>5. ASSUME NEW q \in Object, obj[q].ptrs = "valid"
      PROVE  /\ obj[q].bound \in Name /\ refs'[obj[q].bound] > 0
             /\ \/ image'[obj[q].bound] = obj[q].program
                \/ IsCopy(obj[q].bound) /\ CopiesMayBeStale
  <2>1. /\ obj[q].bound \in Name /\ refs[obj[q].bound] > 0
        /\ \/ image[obj[q].bound] = obj[q].program
           \/ IsCopy(obj[q].bound) /\ CopiesMayBeStale
    BY <1>5 DEF Libraries, Linked, Mapped
  <2>2. obj[q].bound # c
    BY <2>1
  <2> QED  BY <1>1, <2>1, <2>2
<1>6. Linked'
  <2> SUFFICES ASSUME NEW q \in Object, obj'[q].ptrs = "valid"
               PROVE  /\ obj'[q].bound \in Name /\ refs'[obj'[q].bound] > 0
                      /\ \/ image'[obj'[q].bound] = obj'[q].program
                         \/ IsCopy(obj'[q].bound) /\ CopiesMayBeStale
    BY SameProcess DEF Linked, Mapped, IsCopy
  <2>1. CASE q # o \/ (/\ obj'[o].bound = obj[o].bound /\ obj'[o].ptrs = obj[o].ptrs
                       /\ obj'[o].program = obj[o].program)
    BY <1>5, <2>1
  <2>2. CASE /\ q = o /\ obj'[o].bound = c
             /\ obj'[o].program = disk'[c] \/ (IsCopy(c) /\ CopiesMayBeStale)
    BY <2>2
  <2> QED  BY <2>1, <2>2
<1>7. MappedFileIntact'
  <2> SUFFICES ASSUME NEW m \in Name, refs'[m] > 0
               PROVE  disk'[m] # 0 /\ (image'[m] = disk'[m] \/ RebuiltInPlace(m))
    BY SameProcess DEF MappedFileIntact, Mapped
  <2>1. CASE m = c
    BY <2>1
  <2>2. CASE m # c
    <3>1. refs[m] > 0
      BY <1>1, <2>2
    <3> QED  BY <2>2, <3>1 DEF Libraries, MappedFileIntact, Mapped
  <2> QED  BY <2>1, <2>2
<1>8. ASSUME NEW m \in Name, Pinned(m) PROVE Pinned(m)'
  <2>1. m # c /\ refs'[m] >= refs[m]
    BY <1>8 DEF Pinned
  <2>2. (\E q \in Object : obj'[q].lib = m) => \E q \in Object : obj[q].lib = m
    BY <2>1
  <2> QED  BY <1>1, <1>8, <2>1, <2>2 DEF Pinned
<1> QED  BY <1>4, <1>6, <1>7, <1>8

(***************************************************************************)
(* Steps after which some libraries have more references than before, and  *)
(* no object opened one.                                                   *)
(***************************************************************************)
LEMMA KeptMapped ==
    ASSUME TypeOK, TypeOK', Libraries, UNCHANGED <<env, restarts>>,
           \A m \in Name : /\ refs'[m] >= refs[m] /\ (refs[m] = 0 => refs'[m] = 0)
                           /\ image'[m] = image[m]
                           /\ refs[m] > 0 => \/ disk'[m] = disk[m]
                                             \/ disk'[m] # 0 /\ RebuiltInPlace(m),
           \A q \in Object :
               /\ obj'[q].lib = obj[q].lib \/ obj'[q].lib = NoLib
               /\ \/ obj'[q].ptrs = "none"
                  \/ /\ obj'[q].bound = obj[q].bound /\ obj'[q].ptrs = obj[q].ptrs
                     /\ obj'[q].program = obj[q].program
    PROVE  /\ Exclusive' /\ Linked' /\ MappedFileIntact'
           /\ \A m \in Name : Pinned(m) => Pinned(m)'
<1>1. /\ refs \in [Name -> Nat] /\ refs' \in [Name -> Nat]
      /\ \A q \in Object : obj[q].lib \in Name \cup {NoLib}
  BY DEF TypeOK, ObjectType
<1>2. Exclusive'
  <2> SUFFICES ASSUME NEW q \in Object, obj'[q].lib # NoLib
               PROVE  /\ refs'[obj'[q].lib] > 0
                      /\ \A p \in Object \ {q} : obj'[p].lib # obj'[q].lib
    BY DEF Exclusive, Mapped
  <2>1. obj'[q].lib = obj[q].lib /\ obj[q].lib \in Name
    BY <1>1
  <2>2. /\ refs[obj[q].lib] > 0
        /\ \A p \in Object \ {q} : obj[p].lib # obj[q].lib
    BY <2>1 DEF Libraries, Exclusive, Mapped
  <2>3. refs'[obj[q].lib] > 0
    BY <1>1, <2>1, <2>2
  <2> QED  BY <2>1, <2>2, <2>3
<1>3. Linked'
  <2> SUFFICES ASSUME NEW q \in Object, obj'[q].ptrs = "valid"
               PROVE  /\ obj'[q].bound \in Name /\ refs'[obj'[q].bound] > 0
                      /\ \/ image'[obj'[q].bound] = obj'[q].program
                         \/ IsCopy(obj'[q].bound) /\ CopiesMayBeStale
    BY SameProcess DEF Linked, Mapped, IsCopy
  <2>1. /\ obj'[q].bound = obj[q].bound /\ obj[q].ptrs = "valid"
        /\ obj'[q].program = obj[q].program
    OBVIOUS
  <2>2. /\ obj[q].bound \in Name /\ refs[obj[q].bound] > 0
        /\ \/ image[obj[q].bound] = obj[q].program
           \/ IsCopy(obj[q].bound) /\ CopiesMayBeStale
    BY <2>1 DEF Libraries, Linked, Mapped
  <2> QED  BY <1>1, <2>1, <2>2
<1>4. MappedFileIntact'
  <2> SUFFICES ASSUME NEW m \in Name, refs'[m] > 0
               PROVE  disk'[m] # 0 /\ (image'[m] = disk'[m] \/ RebuiltInPlace(m))
    BY SameProcess DEF MappedFileIntact, Mapped
  <2>1. refs[m] > 0
    BY <1>1
  <2> QED  BY <2>1 DEF Libraries, MappedFileIntact, Mapped
<1>5. ASSUME NEW m \in Name, Pinned(m) PROVE Pinned(m)'
  <2>1. refs'[m] >= refs[m]
    OBVIOUS
  <2>2. (\E q \in Object : obj'[q].lib = m) => \E q \in Object : obj[q].lib = m
    BY NameFacts
  <2> QED  BY <1>1, <1>5, <2>1, <2>2 DEF Pinned
<1> QED  BY <1>2, <1>3, <1>4, <1>5

(***************************************************************************)
(* What unload does.  In the objects f that it is applied to, only o may   *)
(* differ from what it was before the step, and not in its library.        *)
(***************************************************************************)
LEMMA UnloadFacts ==
    ASSUME TypeOK, Exclusive, NEW o \in Object, NEW f \in [Object -> ObjectType],
           f[o].lib = obj[o].lib, Unload(f, o), NEW n, n = obj[o].lib
    PROVE  /\ n \in Name \cup {NoLib} /\ (n # NoLib => refs[n] > 0)
           /\ refs' \in [Name -> Nat] /\ image' \in [Name -> 0..MaxVersion]
           /\ \A m \in Name : m # n => refs'[m] = refs[m] /\ image'[m] = image[m]
           /\ n # NoLib => refs'[n] = refs[n] - 1 /\ (refs[n] > 1 => image'[n] = image[n])
           /\ obj' \in [Object -> ObjectType]
           /\ \A q \in Object :
                 /\ obj'[q].lib = IF q = o THEN NoLib ELSE f[q].lib
                 /\ obj'[q].bound = f[q].bound /\ obj'[q].program = f[q].program
                 /\ obj'[q].status = f[q].status
                 /\ obj'[q].initialized = f[q].initialized /\ obj'[q].handle = f[q].handle
                 /\ obj'[q].ptrs = IF n # NoLib /\ refs[n] = 1 /\ f[q].bound = n /\ f[q].ptrs = "valid"
                                   THEN "dangling" ELSE f[q].ptrs
<1>1. n \in Name \cup {NoLib} /\ (n # NoLib => n \in Name /\ refs[n] > 0)
  BY NameFacts DEF TypeOK, ObjectType, Exclusive, Mapped
<1>2. refs' = IF n = NoLib THEN refs ELSE [refs EXCEPT ![n] = @ - 1]
  BY DEF Unload
<1>3. image' = IF n # NoLib /\ refs[n] = 1 THEN [image EXCEPT ![n] = 0] ELSE image
  BY DEF Unload
<1>4. /\ refs' \in [Name -> Nat]
      /\ \A m \in Name : m # n => refs'[m] = refs[m]
      /\ n # NoLib => refs'[n] = refs[n] - 1
  BY <1>1, <1>2 DEF TypeOK
<1>5. /\ image' \in [Name -> 0..MaxVersion]
      /\ \A m \in Name : m # n => image'[m] = image[m]
      /\ n # NoLib => (refs[n] > 1 => image'[n] = image[n])
  BY SMTT(30), <1>1, <1>3, BoundAssumption DEF TypeOK
<1> DEFINE gone == n # NoLib /\ refs[n] = 1
           Closed(q) == IF gone /\ f[q].bound = n /\ f[q].ptrs = "valid"
                        THEN [f[q] EXCEPT !.ptrs = "dangling"] ELSE f[q]
<1>6. obj' = [q \in Object |-> IF q = o THEN [Closed(q) EXCEPT !.lib = NoLib] ELSE Closed(q)]
  BY DEF Unload
<1>7. ASSUME NEW q \in Object
      PROVE  /\ Closed(q) \in ObjectType
             /\ Closed(q).lib = f[q].lib
             /\ Closed(q).bound = f[q].bound /\ Closed(q).program = f[q].program
             /\ Closed(q).status = f[q].status
             /\ Closed(q).initialized = f[q].initialized /\ Closed(q).handle = f[q].handle
             /\ Closed(q).ptrs = IF gone /\ f[q].bound = n /\ f[q].ptrs = "valid"
                                 THEN "dangling" ELSE f[q].ptrs
  <2>1. f[q] \in ObjectType
    OBVIOUS
  <2> QED  BY <2>1 DEF ObjectType
<1>8. ASSUME NEW q \in Object
      PROVE  /\ obj'[q] \in ObjectType
             /\ obj'[q].lib = IF q = o THEN NoLib ELSE f[q].lib
             /\ obj'[q].bound = f[q].bound /\ obj'[q].program = f[q].program
             /\ obj'[q].status = f[q].status
             /\ obj'[q].initialized = f[q].initialized /\ obj'[q].handle = f[q].handle
             /\ obj'[q].ptrs = IF gone /\ f[q].bound = n /\ f[q].ptrs = "valid"
                               THEN "dangling" ELSE f[q].ptrs
  <2> HIDE DEF Closed, gone
  <2>1. obj'[q] = IF q = o THEN [Closed(q) EXCEPT !.lib = NoLib] ELSE Closed(q)
    BY <1>6
  <2>2. CASE q = o
    BY <1>7, <2>1, <2>2 DEF ObjectType
  <2>3. CASE q # o
    BY <1>7, <2>1, <2>3
  <2> QED  BY <2>2, <2>3
<1>9. obj' \in [Object -> ObjectType]
  <2>1. \A q \in Object : obj'[q] \in ObjectType
    BY <1>8
  <2> QED  BY <1>6, <2>1
<1> QED  BY <1>1, <1>4, <1>5, <1>8, <1>9

LEMMA UnloadLibraries ==
    ASSUME TypeOK, Libraries, UNCHANGED disk, UNCHANGED <<env, restarts>>, NEW o \in Object,
           NEW f \in [Object -> ObjectType], f[o].lib = obj[o].lib, Unload(f, o),
           \A q \in Object \ {o} : f[q] = obj[q],
           \/ f[o].ptrs = "none"
           \/ /\ f[o].bound = obj[o].bound /\ f[o].ptrs = obj[o].ptrs
              /\ f[o].program = obj[o].program
    PROVE  Libraries'
<1> DEFINE n == obj[o].lib
<1>0. Exclusive
  BY DEF Libraries
<1>1. /\ n \in Name \cup {NoLib} /\ (n # NoLib => n \in Name /\ refs[n] > 0)
      /\ refs \in [Name -> Nat] /\ refs' \in [Name -> Nat]
      /\ \A m \in Name : m # n => refs'[m] = refs[m] /\ image'[m] = image[m]
      /\ n # NoLib => refs'[n] = refs[n] - 1 /\ (refs[n] > 1 => image'[n] = image[n])
      /\ \A q \in Object : obj[q].lib \in Name \cup {NoLib}
  <2>1. refs \in [Name -> Nat] /\ \A q \in Object : obj[q].lib \in Name \cup {NoLib}
    BY DEF TypeOK, ObjectType
  <2> HIDE DEF n
  <2>2. /\ n \in Name \cup {NoLib} /\ (n # NoLib => refs[n] > 0)
        /\ refs' \in [Name -> Nat]
        /\ \A m \in Name : m # n => refs'[m] = refs[m] /\ image'[m] = image[m]
        /\ n # NoLib => refs'[n] = refs[n] - 1 /\ (refs[n] > 1 => image'[n] = image[n])
    BY <1>0, UnloadFacts DEF n
  <2> QED  BY <2>1, <2>2
<1>2. \A q \in Object : obj'[q].lib = IF q = o THEN NoLib ELSE obj[q].lib
  BY <1>0, UnloadFacts
<1>3. \A q \in Object :
          /\ obj'[q].bound = f[q].bound /\ obj'[q].program = f[q].program
          /\ obj'[q].ptrs = IF n # NoLib /\ refs[n] = 1 /\ f[q].bound = n /\ f[q].ptrs = "valid"
                            THEN "dangling" ELSE f[q].ptrs
  BY <1>0, UnloadFacts
<1> HIDE DEF n
<1>4. \A q \in Object : q # o /\ obj[q].lib # NoLib => obj[q].lib # n
  BY DEF n, Libraries, Exclusive
<1>5. Exclusive'
  <2> SUFFICES ASSUME NEW q \in Object, obj'[q].lib # NoLib
               PROVE  /\ refs'[obj'[q].lib] > 0
                      /\ \A p \in Object \ {q} : obj'[p].lib # obj'[q].lib
    BY DEF Exclusive, Mapped
  <2>1. q # o /\ obj'[q].lib = obj[q].lib /\ obj[q].lib # NoLib /\ obj[q].lib \in Name
    BY <1>1, <1>2
  <2>2. /\ refs[obj[q].lib] > 0
        /\ \A p \in Object \ {q} : obj[p].lib # obj[q].lib
    BY <2>1 DEF Libraries, Exclusive, Mapped
  <2>3. refs'[obj[q].lib] = refs[obj[q].lib]
    BY <1>1, <1>4, <2>1
  <2>4. \A p \in Object \ {q} : obj'[p].lib # obj[q].lib
    BY <1>2, <2>1, <2>2
  <2> QED  BY <2>1, <2>2, <2>3, <2>4
<1>6. Linked'
  <2> SUFFICES ASSUME NEW q \in Object, obj'[q].ptrs = "valid"
               PROVE  /\ obj'[q].bound \in Name /\ refs'[obj'[q].bound] > 0
                      /\ \/ image'[obj'[q].bound] = obj'[q].program
                         \/ IsCopy(obj'[q].bound) /\ CopiesMayBeStale
    BY SameProcess DEF Linked, Mapped, IsCopy
  <2>1. f[q].ptrs = "valid" /\ ~(n # NoLib /\ refs[n] = 1 /\ f[q].bound = n)
    BY <1>3
  <2>2. obj'[q].bound = obj[q].bound /\ obj'[q].program = obj[q].program /\ obj[q].ptrs = "valid"
        /\ f[q].bound = obj[q].bound
    <3>1. CASE q = o
      BY <1>3, <2>1, <3>1
    <3>2. CASE q # o
      BY <1>3, <2>1, <3>2
    <3> QED  BY <3>1, <3>2
  <2>3. /\ obj[q].bound \in Name /\ refs[obj[q].bound] > 0
        /\ \/ image[obj[q].bound] = obj[q].program
           \/ IsCopy(obj[q].bound) /\ CopiesMayBeStale
    BY <2>2 DEF Libraries, Linked, Mapped
  <2>4. refs'[obj[q].bound] > 0 /\ image'[obj[q].bound] = image[obj[q].bound]
    <3>1. CASE obj[q].bound = n
      <4>1. n # NoLib /\ refs[n] # 1 /\ refs[n] \in Nat
        BY <1>1, <2>1, <2>2, <2>3, <3>1, NameFacts
      <4> QED  BY <1>1, <2>3, <3>1, <4>1
    <3>2. CASE obj[q].bound # n
      BY <1>1, <2>3, <3>2
    <3> QED  BY <3>1, <3>2
  <2> QED  BY <2>2, <2>3, <2>4
<1>7. MappedFileIntact'
  <2> SUFFICES ASSUME NEW m \in Name, refs'[m] > 0
               PROVE  disk[m] # 0 /\ (image'[m] = disk[m] \/ RebuiltInPlace(m))
    BY SameProcess DEF MappedFileIntact, Mapped
  <2>1. refs[m] > 0 /\ image'[m] = image[m]
    <3>1. CASE m = n
      <4>1. n # NoLib
        BY <3>1, NameFacts
      <4> QED  BY <1>1, <3>1, <4>1
    <3>2. CASE m # n
      BY <1>1, <3>2
    <3> QED  BY <3>1, <3>2
  <2> QED  BY <2>1 DEF Libraries, MappedFileIntact, Mapped
(* A library that is pinned loses at most the reference of its object.     *)
<1>8. ASSUME NEW m \in Name, Pinned(m) PROVE Pinned(m)'
  <2>1. CASE m = n
    <3>1. n # NoLib /\ refs[m] > 1 /\ refs[m] \in Nat
      BY <1>1, <1>8, <2>1, NameFacts DEF Pinned, n
    <3>2. refs'[m] > 0
      BY <1>1, <2>1, <3>1
    <3>3. \A q \in Object : obj'[q].lib # m
      BY <1>2, <1>4, <2>1, <3>1
    <3> QED  BY <3>2, <3>3 DEF Pinned
  <2>2. CASE m # n
    <3>1. refs'[m] = refs[m] /\ m # NoLib
      BY <1>1, <2>2, NameFacts
    <3>2. (\E q \in Object : obj'[q].lib = m) => \E q \in Object : obj[q].lib = m
      BY <1>2, <3>1
    <3> QED  BY <1>8, <3>1, <3>2 DEF Pinned
  <2> QED  BY <2>1, <2>2
<1>9. CopiesCurrent'
  BY <1>8, CopiesKept
<1> QED  BY <1>5, <1>6, <1>7, <1>9 DEF Libraries

(***************************************************************************)
(* Calls into a library, and objects that are made.                        *)
(***************************************************************************)
Handle == {"null", "state", "freed"}
NativeType ==
    [fn : {"none", "init", "program", "exit"}, ptrs : {"valid", "dangling"}, handle : Handle]

LEMMA InvokeFacts ==
    ASSUME TypeOK, OnlyLive, NEW o \in Object, Live(o),
           NEW fn \in {"init", "program", "exit"}, NEW h \in Handle, Invoke(o, fn, h)
    PROVE  /\ native' \in NativeType /\ crashed' \in BOOLEAN
           /\ obj[o].ptrs = "valid" /\ (fn = "init" \/ h = "state") => CallsAreSound'
<1>1. obj[o].ptrs \in {"valid", "dangling"}
  BY DEF TypeOK, ObjectType, OnlyLive, Live
<1>2. native' = [fn |-> fn, ptrs |-> obj[o].ptrs, handle |-> h]
  BY DEF Invoke
<1>3. crashed' \in BOOLEAN
  BY DEF Invoke
<1> QED  BY <1>1, <1>2, <1>3 DEF NativeType, CallsAreSound

LEMMA ConstructFacts ==
    ASSUME TypeOK, NEW o \in Object, NEW n, NEW k, CopyName(n, k) \in Name,
           NEW program \in 0..MaxVersion, Construct(o, n, k, program)
    PROVE  /\ obj' \in [Object -> ObjectType]
           /\ obj'[o].status = "live" /\ obj'[o].ptrs = "valid" /\ ~obj'[o].initialized
           /\ obj'[o].lib = CopyName(n, k) /\ obj'[o].bound = CopyName(n, k)
           /\ obj'[o].program = program
           /\ \A q \in Object \ {o} : obj'[q] = obj[q]
<1> DEFINE r == [NoObject EXCEPT !.status = "live", !.fname = CopyName(n, k), !.lib = CopyName(n, k),
                                 !.bound = CopyName(n, k), !.ptrs = "valid", !.program = program]
<1>1. /\ r \in ObjectType /\ r.status = "live" /\ r.ptrs = "valid" /\ ~r.initialized
      /\ r.lib = CopyName(n, k) /\ r.bound = CopyName(n, k) /\ r.program = program
  BY DEF NoObject, ObjectType
<1>2. obj' = [obj EXCEPT ![o] = r]
  BY DEF Construct
<1> HIDE DEF r
<1> QED  BY <1>1, <1>2 DEF TypeOK

LEMMA LoadTypes ==
    ASSUME TypeOK, NEW files \in [Name -> 0..MaxVersion],
           NEW n, NEW k \in 0..MaxCount, Load(n, k, files), NEW c, c = CopyName(n, k)
    PROVE  /\ refs' \in [Name -> Nat] /\ refs'[c] = 1
           /\ image' \in [Name -> 0..MaxVersion] /\ image'[c] = disk'[c]
           /\ \A m \in Name : m # c => /\ refs'[m] >= refs[m] /\ (refs[m] = 0 => refs'[m] = 0)
                                       /\ image'[m] = image[m] /\ disk'[m] = files[m]
           /\ k # 0 => refs'[n] > 1
<1> DEFINE S == {CopyName(n, j) : j \in 0..(k - 1)}
<1>0. CanLoad(n, k, files) /\ disk' = Copied(n, k, files)
  BY DEF Load
<1>1. /\ n \in Name /\ c \in Name /\ refs[c] = 0 /\ disk' \in [Name -> 0..MaxVersion]
      /\ \A m \in Name : m # c => disk'[m] = files[m]
      /\ k # 0 => c # n /\ refs[n] > 0 /\ n \in S
  BY ONLY <1>0, LoadFacts, TypeOK, k \in 0..MaxCount, files \in [Name -> 0..MaxVersion],
          c = CopyName(n, k)
<1> HIDE DEF S
<1>2. /\ Probe(S) \in [Name -> Nat] /\ Probe(S)[c] = 0
      /\ \A m \in Name : /\ Probe(S)[m] >= refs[m] /\ (refs[m] = 0 => Probe(S)[m] = 0)
                         /\ m \in S /\ refs[m] > 0 => Probe(S)[m] = refs[m] + 1
  BY <1>1, ProbeFacts
<1>3. refs' = [Probe(S) EXCEPT ![c] = @ + 1] /\ image' = [image EXCEPT ![c] = disk'[c]]
  BY DEF Load, S
<1>4. refs' \in [Name -> Nat] /\ refs'[c] = 1 /\ \A m \in Name : m # c => refs'[m] = Probe(S)[m]
  BY <1>1, <1>2, <1>3
<1>5. k # 0 => refs'[n] > 1
  <2> SUFFICES ASSUME k # 0 PROVE refs'[n] > 1
    OBVIOUS
  <2>1. refs'[n] = refs[n] + 1 /\ refs[n] > 0 /\ refs[n] \in Nat
    BY <1>1, <1>2, <1>4 DEF TypeOK
  <2> QED  BY <2>1
<1>6. /\ image' \in [Name -> 0..MaxVersion] /\ image'[c] = disk'[c]
      /\ \A m \in Name : m # c => image'[m] = image[m]
  BY <1>1, <1>3 DEF TypeOK
<1> QED  BY <1>1, <1>2, <1>4, <1>5, <1>6

(***************************************************************************)
(* get_program_handle, with the files that compile left.                   *)
(***************************************************************************)
LEMMA GetProgramHandleInv ==
    ASSUME Inv, NEW o \in Object, obj[o].status = "new",
           NEW i \in 0..MaxCount, NEW k \in 0..MaxCount,
           NEW files \in [Name -> 0..MaxVersion], NEW program, program = files[SDFGName(i)],
           \A m \in Name : files[m] = disk[m] \/ (files[m] # 0 /\ RebuiltInPlace(m)),
           files = disk \/ CopiesMayBeStale,
           GetProgramHandle(o, i, k, files, program),
           UNCHANGED <<env, native, restarts, crashed>>,
           version' \in 0..MaxVersion, generated' \in [0..MaxVersion -> 0..MaxCount]
    PROVE  Inv'
<1> DEFINE n == SDFGName(i)
           c == CopyName(n, k)
           S == {CopyName(n, j) : j \in 0..(k - 1)}
<1>0. TypeOK /\ Libraries /\ disk \in [Name -> 0..MaxVersion] /\ obj[o].lib = NoLib
  BY DEF Inv, TypeOK, OnlyLive
<1>1. /\ CanLoad(n, k, files) /\ disk' = Copied(n, k, files)
      /\ \/ Load(n, k, files) /\ Construct(o, n, k, program)
         \/ /\ refs' = Probe(S)
            /\ obj' = [obj EXCEPT ![o].status = "deleted"] /\ UNCHANGED image
  BY DEF GetProgramHandle, Load
<1>2. /\ n \in Name /\ c \in Name /\ refs[c] = 0 /\ disk' \in [Name -> 0..MaxVersion] /\ disk'[c] # 0
      /\ \A m \in Name : m # c \/ files[c] # 0 => disk'[m] = files[m]
      /\ files[c] = 0 => disk'[c] = files[n]
      /\ k = 0 => c = n
      /\ k # 0 => k - 1 \in Nat /\ c = Append(n, k - 1) /\ refs[n] > 0 /\ n \in S
  <2>1. CanLoad(n, k, files) /\ disk' = Copied(n, k, files)
    BY <1>1
  <2>2. TypeOK
    BY <1>0
  <2> HIDE DEF n
  <2> QED  BY ONLY SMTT(30), <2>1, <2>2, LoadFacts, k \in 0..MaxCount, files \in [Name -> 0..MaxVersion]
(* A copy that is not stale is of the same program. *)
<1>3. disk'[c] = program \/ (IsCopy(c) /\ CopiesMayBeStale)
  <2>1. CASE k = 0
    BY <1>2, <2>1
  <2>2. CASE k # 0
    <3>1. IsCopy(c)
      <4> HIDE DEF c, n
      <4>1. n \in Seq(Nat) /\ Len(n) > 0 /\ k - 1 \in Nat /\ c = Append(n, k - 1)
        BY <1>2, <2>2, NameAssumption
      <4>2. Len(n) \in Nat /\ Len(c) = Len(n) + 1
        BY <4>1, AppendProperties
      <4> QED  BY <4>1, <4>2 DEF IsCopy
    <3>2. CASE files = disk /\ ~CopiesMayBeStale
      <4>1. disk[c] # 0 => disk[c] = disk[n]
        BY <1>0, <1>2, <2>2, <3>2 DEF Libraries, CopiesCurrent
      <4> QED  BY <1>2, <3>2, <4>1
    <3> QED  BY <3>1, <3>2
  <2> QED  BY <2>1, <2>2
<1>4. CASE Load(n, k, files) /\ Construct(o, n, k, program)
  <2>1. /\ refs' \in [Name -> Nat] /\ refs'[c] = 1
        /\ image' \in [Name -> 0..MaxVersion] /\ image'[c] = disk'[c]
        /\ \A m \in Name : m # c => /\ refs'[m] >= refs[m] /\ (refs[m] = 0 => refs'[m] = 0)
                                    /\ image'[m] = image[m] /\ disk'[m] = files[m]
        /\ k # 0 => refs'[n] > 1
    BY ZenonT(40), <1>0, <1>4, LoadTypes
  <2>2. program \in 0..MaxVersion
    BY <1>2
  <2>3. /\ obj' \in [Object -> ObjectType]
        /\ obj'[o].status = "live" /\ obj'[o].ptrs = "valid" /\ ~obj'[o].initialized
        /\ obj'[o].lib = c /\ obj'[o].bound = c /\ obj'[o].program = program
        /\ \A q \in Object \ {o} : obj'[q] = obj[q]
    <3>1. TypeOK /\ CopyName(n, k) \in Name /\ Construct(o, n, k, program)
      BY <1>0, <1>2, <1>4
    <3> HIDE DEF n
    <3> QED  BY ONLY <2>2, <3>1, o \in Object, ConstructFacts
  <2> HIDE DEF n, c, S
  <2>4. TypeOK'
    BY <1>0, <1>2, <2>1, <2>3 DEF TypeOK
  <2>5. OnlyLive'
    BY <2>3 DEF Inv, OnlyLive
  <2>6. /\ Exclusive' /\ Linked' /\ MappedFileIntact'
        /\ \A m \in Name : Pinned(m) => Pinned(m)'
    <3>1. UNCHANGED <<env, restarts>>
      OBVIOUS
    <3>2. obj'[o].bound = c /\ (obj'[o].program = disk'[c] \/ (IsCopy(c) /\ CopiesMayBeStale))
      BY <1>3, <2>3
    <3>3. \A q \in Object \ {o} :
              /\ obj'[q].lib = obj[q].lib /\ obj'[q].bound = obj[q].bound
              /\ obj'[q].ptrs = obj[q].ptrs /\ obj'[q].program = obj[q].program
      BY <2>3
    <3>4. obj'[o].lib = c /\ disk'[c] # 0 /\ refs[c] = 0 /\ refs'[c] = 1 /\ image'[c] = disk'[c]
          /\ c \in Name
      BY <1>2, <2>1, <2>3
    <3>5. \A m \in Name : m # c => /\ refs'[m] >= refs[m] /\ (refs[m] = 0 => refs'[m] = 0)
                                   /\ image'[m] = image[m]
                                   /\ disk'[m] = disk[m] \/ (disk'[m] # 0 /\ RebuiltInPlace(m))
      BY <2>1
    <3> QED  BY <1>0, <2>4, <3>1, <3>2, <3>3, <3>4, <3>5, Acquire
  <2>7. k # 0 => Pinned(n)'
    <3>1. k # 0 => refs'[n] \in Nat /\ refs'[n] > 1
      BY <1>2, <2>1
    <3>2. k # 0 => refs'[n] > 0
      BY <3>1
    <3> QED  BY <3>1, <3>2 DEF Pinned
  <2>8. CopiesCurrent'
    <3>1. CASE files = disk
      BY <1>0, <1>1, <2>6, <2>7, <3>1, CopyCurrent DEF n, c
    <3>2. CASE CopiesMayBeStale
      BY <3>2, SameProcess DEF CopiesCurrent
    <3> QED  BY <3>1, <3>2
  <2>9. Sound'
    BY <2>3 DEF Inv, Sound, Undisturbed, CallsAreSound
  <2> QED  BY <2>4, <2>5, <2>6, <2>8, <2>9 DEF Inv, Libraries
<1>5. CASE /\ refs' = Probe(S)
           /\ obj' = [obj EXCEPT ![o].status = "deleted"] /\ UNCHANGED image
  <2> HIDE DEF n, c, S
  <2>1. /\ refs' \in [Name -> Nat]
        /\ \A m \in Name : /\ refs'[m] >= refs[m] /\ (refs[m] = 0 => refs'[m] = 0)
                           /\ m \in S /\ refs[m] > 0 => refs'[m] = refs[m] + 1
    BY <1>0, <1>5, ProbeFacts
  <2>2. /\ obj' \in [Object -> ObjectType]
        /\ obj'[o].status = "deleted"
        /\ \A q \in Object \ {o} : obj'[q] = obj[q]
        /\ \A q \in Object : /\ obj'[q].lib = obj[q].lib /\ obj'[q].bound = obj[q].bound
                             /\ obj'[q].ptrs = obj[q].ptrs /\ obj'[q].program = obj[q].program
    <3>1. obj \in [Object -> ObjectType]
      BY <1>0 DEF TypeOK
    <3> QED  BY ZenonT(40), <1>5, <3>1 DEF ObjectType
  <2>3. TypeOK'
    BY <1>0, <1>2, <1>5, <2>1, <2>2 DEF TypeOK
  <2>4. OnlyLive'
    BY <2>2 DEF Inv, OnlyLive
  <2>5. /\ Exclusive' /\ Linked' /\ MappedFileIntact'
        /\ \A m \in Name : Pinned(m) => Pinned(m)'
    <3>1. UNCHANGED <<env, restarts>>
      OBVIOUS
    <3>2. \A m \in Name : /\ refs'[m] >= refs[m] /\ (refs[m] = 0 => refs'[m] = 0)
                          /\ image'[m] = image[m]
                          /\ refs[m] > 0 => \/ disk'[m] = disk[m]
                                            \/ disk'[m] # 0 /\ RebuiltInPlace(m)
      <4>1. UNCHANGED image
        BY <1>5
      <4>2. \A m \in Name : refs[m] > 0 => disk'[m] = files[m]
        <5>1. \A m \in Name : refs[m] > 0 => m # c
          BY ONLY <1>2
        <5> QED  BY ONLY <1>2, <5>1
      <4>3. \A m \in Name : refs[m] > 0 =>
                disk'[m] = disk[m] \/ (disk'[m] # 0 /\ RebuiltInPlace(m))
        <5>1. \A m \in Name : files[m] = disk[m] \/ (files[m] # 0 /\ RebuiltInPlace(m))
          OBVIOUS
        <5> QED  BY ONLY <4>2, <5>1
      <4> QED  BY ONLY <2>1, <4>1, <4>3
    <3> QED  BY <1>0, <2>2, <2>3, <3>1, <3>2, KeptMapped
  <2>6. k # 0 => Pinned(n)'
    <3>1. k # 0 => refs[n] \in Nat /\ refs[n] > 0 /\ refs'[n] = refs[n] + 1
      BY <1>0, <1>2, <2>1 DEF TypeOK
    <3>2. k # 0 => refs'[n] > 1 /\ refs'[n] > 0
      BY <3>1
    <3> QED  BY <3>2 DEF Pinned
  <2>7. CopiesCurrent'
    <3>1. CASE files = disk
      BY <1>0, <1>1, <2>5, <2>6, <3>1, CopyCurrent DEF n, c
    <3>2. CASE CopiesMayBeStale
      BY <3>2, SameProcess DEF CopiesCurrent
    <3> QED  BY <3>1, <3>2
  <2>8. Sound'
    BY <2>2 DEF Inv, Sound, Undisturbed, CallsAreSound
  <2> QED  BY <2>3, <2>4, <2>5, <2>7, <2>8 DEF Inv, Libraries
<1> QED  BY <1>1, <1>4, <1>5

LEMMA LoadPrecompiledInv ==
    ASSUME Inv, NEW o \in Object, NEW k \in 0..MaxCount, NEW i \in {0, generated[version]},
           LoadPrecompiled(o, i, k)
    PROVE  Inv'
<1>1. /\ obj[o].status = "new" /\ UNCHANGED <<env, native, version, generated, restarts, crashed>>
      /\ GetProgramHandle(o, i, k, disk, disk[SDFGName(i)])
  BY DEF LoadPrecompiled, New
<1>2. /\ i \in 0..MaxCount /\ disk \in [Name -> 0..MaxVersion]
      /\ version' \in 0..MaxVersion /\ generated' \in [0..MaxVersion -> 0..MaxCount]
  BY <1>1, BoundAssumption DEF Inv, TypeOK
<1>3. PICK program : program = disk[SDFGName(i)]
  OBVIOUS
<1>4. GetProgramHandle(o, i, k, disk, program)
  BY <1>1, <1>3
<1> QED  BY <1>1, <1>2, <1>3, <1>4, GetProgramHandleInv

(***************************************************************************)
(* compile with the code that is kept: only the library of the SDFG's own  *)
(* name is built in place.                                                 *)
(***************************************************************************)
LEMMA CompileKeptInv ==
    ASSUME Inv, NEW o \in Object, NEW k \in 0..MaxCount, NEW v \in {version, version + 1},
           CompileKept(o, v, k)
    PROVE  Inv'
<1>1. PICK files : files = [disk EXCEPT ![SDFGName(0)] = v]
  OBVIOUS
<1>2. /\ obj[o].status = "new" /\ "kept" \in env.disturbed /\ version > 0 /\ v <= MaxVersion
      /\ version' = v /\ generated' = [generated EXCEPT ![v] = generated[version]]
      /\ GetProgramHandle(o, 0, k, files, v) /\ UNCHANGED <<env, native, restarts, crashed>>
  BY <1>1 DEF CompileKept, New
<1>3. /\ 0 \in 0..MaxCount /\ v \in 0..MaxVersion /\ v # 0
      /\ generated \in [0..MaxVersion -> 0..MaxCount] /\ version \in 0..MaxVersion
      /\ disk \in [Name -> 0..MaxVersion]
  BY <1>2, BoundAssumption DEF Inv, TypeOK
<1>4. version' \in 0..MaxVersion /\ generated' \in [0..MaxVersion -> 0..MaxCount]
  BY <1>2, <1>3
<1>5. files \in [Name -> 0..MaxVersion]
  BY <1>1, <1>3
<1>6. SDFGName(0) \in Name
  <2>1. CanLoad(SDFGName(0), k, files) /\ disk' = Copied(SDFGName(0), k, files)
    BY <1>2 DEF GetProgramHandle, Load
  <2>2. TypeOK
    BY DEF Inv
  <2> QED  BY ONLY <1>5, <2>1, <2>2, LoadFacts, k \in 0..MaxCount
<1>7. \A m \in Name : files[m] = disk[m] \/ (files[m] # 0 /\ RebuiltInPlace(m))
  BY <1>1, <1>2, <1>3, <1>6 DEF RebuiltInPlace
<1>8. CopiesMayBeStale
  BY <1>2 DEF CopiesMayBeStale
<1>9. v = files[SDFGName(0)]
  BY <1>1, <1>3, <1>6
<1> QED  BY <1>2, <1>3, <1>4, <1>5, <1>7, <1>8, <1>9, GetProgramHandleInv

LEMMA CompileInv ==
    ASSUME Inv, NEW o \in Object, NEW i \in 0..MaxCount, Compile(o, i)
    PROVE  Inv'
<1> DEFINE c == SDFGName(i)
           S == {SDFGName(j) : j \in 0..(i - 1)}
<1>0. TypeOK /\ Libraries
  BY DEF Inv
<1>1. /\ obj[o].status = "new" /\ version < MaxVersion /\ version' = version + 1
      /\ generated' = [generated EXCEPT ![version'] = i]
      /\ disk' = [disk EXCEPT ![c] = version']
      /\ refs' = [Probe(S) EXCEPT ![c] = @ + 1]
      /\ image' = [image EXCEPT ![c] = version']
      /\ Construct(o, c, 0, version')
      /\ UNCHANGED <<env, native, restarts, crashed>>
  BY DEF Compile, New
<1>2. c \in Name /\ refs[c] = 0
  <2> DEFINE names == [j \in 0..MaxCount |-> SDFGName(j)]
  <2>1. Try(names, i) /\ i \in 0..i /\ names[i] = c
    BY DEF Compile
  <2>2. c \in Name /\ ~Mapped(c)
    <3> HIDE DEF names, c
    <3> QED  BY <2>1 DEF Try
  <2> QED  BY <1>0, <2>2 DEF TypeOK, Mapped
<1>3. version' \in 0..MaxVersion /\ version' # 0 /\ c = CopyName(c, 0)
  BY <1>0, <1>1, BoundAssumption DEF TypeOK, CopyName
<1> HIDE DEF S
<1>4. \A n \in Name, j \in Nat : Append(n, j) # c
  BY CopyFacts DEF SDFGName
<1>5. /\ obj' \in [Object -> ObjectType]
      /\ obj'[o].status = "live" /\ obj'[o].ptrs = "valid" /\ ~obj'[o].initialized
      /\ obj'[o].lib = c /\ obj'[o].bound = c /\ obj'[o].program = version'
      /\ \A q \in Object \ {o} : obj'[q] = obj[q]
  <2> HIDE DEF c
  <2>1. \A n, program : n = c /\ program = version' => n \in Name /\ program \in 0..MaxVersion
    BY <1>2, <1>3
  <2>2. TypeOK /\ Construct(o, c, 0, version')
    BY <1>0, <1>1
  <2> QED  BY ONLY <1>2, <1>3, <2>1, <2>2, o \in Object, ConstructFacts
<1> HIDE DEF c
<1>6. /\ Probe(S) \in [Name -> Nat] /\ Probe(S)[c] = 0
      /\ \A m \in Name : Probe(S)[m] >= refs[m] /\ (refs[m] = 0 => Probe(S)[m] = 0)
  BY <1>0, <1>2, ProbeFacts
<1>7. /\ disk' \in [Name -> 0..MaxVersion] /\ disk'[c] = version'
      /\ image' \in [Name -> 0..MaxVersion] /\ image'[c] = disk'[c]
      /\ \A m \in Name : m # c => image'[m] = image[m] /\ disk'[m] = disk[m]
  BY <1>0, <1>1, <1>2, <1>3 DEF TypeOK
<1>8. /\ refs' \in [Name -> Nat] /\ refs'[c] = 1
      /\ \A m \in Name : m # c => refs'[m] >= refs[m] /\ (refs[m] = 0 => refs'[m] = 0)
  BY <1>1, <1>2, <1>6
<1>9. TypeOK'
  BY <1>0, <1>1, <1>3, <1>5, <1>7, <1>8 DEF TypeOK
<1>10. OnlyLive'
  BY <1>5 DEF Inv, OnlyLive
<1>11. /\ Exclusive' /\ Linked' /\ MappedFileIntact'
       /\ \A m \in Name : Pinned(m) => Pinned(m)'
  <2>1. UNCHANGED <<env, restarts>> /\ obj[o].lib = NoLib
    BY <1>1 DEF Inv, OnlyLive
  <2>2. obj'[o].bound = c /\ obj'[o].program = disk'[c]
    BY <1>5, <1>7
  <2>3. \A q \in Object \ {o} :
            /\ obj'[q].lib = obj[q].lib /\ obj'[q].bound = obj[q].bound
            /\ obj'[q].ptrs = obj[q].ptrs /\ obj'[q].program = obj[q].program
    BY <1>5
  <2>4. \A m \in Name : m # c => /\ refs'[m] >= refs[m] /\ (refs[m] = 0 => refs'[m] = 0)
                                 /\ image'[m] = image[m] /\ disk'[m] = disk[m]
    BY <1>7, <1>8
  <2>5. obj'[o].lib = c /\ disk'[c] # 0 /\ refs[c] = 0 /\ refs'[c] = 1 /\ image'[c] = disk'[c]
    BY <1>2, <1>3, <1>5, <1>7, <1>8
  <2> QED  BY <1>0, <1>2, <1>9, <2>1, <2>2, <2>3, <2>4, <2>5, Acquire
(* The file that is written is not that of a copy, and has no copies.      *)
<1>12. CopiesCurrent'
  <2> SUFFICES ASSUME ~CopiesMayBeStale, NEW n \in Name, NEW j \in Nat,
                      Append(n, j) \in Name, disk'[Append(n, j)] # 0
               PROVE  disk'[Append(n, j)] = disk'[n] /\ Pinned(n)'
    BY <1>1, SameProcess DEF CopiesCurrent
  <2>1. disk'[Append(n, j)] = disk[Append(n, j)]
    BY <1>4, <1>7
  <2>2. disk[Append(n, j)] = disk[n] /\ Pinned(n)
    BY <1>0, <2>1 DEF Libraries, CopiesCurrent
  <2>3. refs[n] > 0
    BY <2>2 DEF Pinned
  <2>4. n # c
    BY <1>2, <2>3
  <2> QED  BY <1>7, <1>11, <2>1, <2>2, <2>4
<1>13. Sound'
  BY <1>1, <1>5 DEF Inv, Sound, Undisturbed, CallsAreSound
<1> QED  BY <1>9, <1>10, <1>11, <1>12, <1>13 DEF Inv, Libraries

(***************************************************************************)
(* Steps that change no library.                                           *)
(***************************************************************************)
LEMMA SameLibraries ==
    ASSUME TypeOK, TypeOK', Libraries, UNCHANGED <<disk, refs, image>>,
           UNCHANGED <<env, restarts>>,
           \A q \in Object :
               /\ obj'[q].lib = obj[q].lib \/ obj'[q].lib = NoLib
               /\ \/ obj'[q].ptrs = "none"
                  \/ /\ obj'[q].bound = obj[q].bound /\ obj'[q].ptrs = obj[q].ptrs
                     /\ obj'[q].program = obj[q].program
    PROVE  Libraries'
<1>1. \A m \in Name : /\ refs'[m] >= refs[m] /\ (refs[m] = 0 => refs'[m] = 0)
                      /\ image'[m] = image[m]
                      /\ refs[m] > 0 => disk'[m] = disk[m]
  BY DEF TypeOK
<1>2. /\ Exclusive' /\ Linked' /\ MappedFileIntact'
      /\ \A m \in Name : Pinned(m) => Pinned(m)'
  BY <1>1, KeptMapped
<1>3. CopiesCurrent'
  BY <1>2, CopiesKept
<1> QED  BY <1>2, <1>3 DEF Libraries

LEMMA IsLoadedInv ==
    ASSUME Inv, NEW i \in 0..MaxCount, IsLoaded(i)
    PROVE  Inv'
<1>0. TypeOK /\ OnlyLive /\ Libraries /\ Sound
  BY DEF Inv
<1>1. /\ refs' = Probe({SDFGName(i)})
      /\ UNCHANGED <<env, disk, image, obj, native, version, generated, restarts, crashed>>
  BY DEF IsLoaded
<1>2. refs' \in [Name -> Nat] /\ \A m \in Name : refs'[m] >= refs[m] /\ (refs[m] = 0 => refs'[m] = 0)
  BY <1>0, <1>1, ProbeFacts
<1>3. TypeOK'
  BY <1>0, <1>1, <1>2 DEF TypeOK
<1>4. OnlyLive' /\ Sound'
  BY <1>0, <1>1 DEF OnlyLive, Sound, Undisturbed, CallsAreSound
<1>5. /\ Exclusive' /\ Linked' /\ MappedFileIntact'
      /\ \A m \in Name : Pinned(m) => Pinned(m)'
  BY <1>0, <1>1, <1>2, <1>3, KeptMapped
<1>6. CopiesCurrent'
  BY <1>0, <1>1, <1>5, CopiesKept
<1> QED  BY <1>3, <1>4, <1>5, <1>6 DEF Inv, Libraries

(***************************************************************************)
(* The records of objects, and what the init function returns.             *)
(***************************************************************************)
LEMMA NoObjectTypes ==
    /\ NoObject \in ObjectType /\ [NoObject EXCEPT !.status = "deleted"] \in ObjectType
    /\ \A r : r.lib \in Name \cup {NoLib} => Deleted(r) \in ObjectType
<1>1. 0 \in 0..MaxVersion
  BY BoundAssumption
<1>2. NoObject \in ObjectType
  BY <1>1 DEF NoObject, ObjectType
<1>3. [NoObject EXCEPT !.status = "deleted"] \in ObjectType
  BY <1>2 DEF ObjectType
<1>4. \A r : r.lib \in Name \cup {NoLib} => Deleted(r) \in ObjectType
  BY <1>2 DEF Deleted, ObjectType
<1> QED  BY <1>2, <1>3, <1>4

LEMMA RecordFacts ==
    ASSUME NEW r \in ObjectType, NEW h \in Handle
    PROVE  /\ Initialized(r, h) \in ObjectType
           /\ Initialized(r, h).status = r.status /\ Initialized(r, h).lib = r.lib
           /\ Initialized(r, h).bound = r.bound /\ Initialized(r, h).ptrs = r.ptrs
           /\ Initialized(r, h).program = r.program /\ Initialized(r, h).handle = h
           /\ Finalized(r) \in ObjectType
           /\ Finalized(r).status = r.status /\ Finalized(r).lib = r.lib
           /\ Finalized(r).bound = r.bound /\ Finalized(r).ptrs = r.ptrs
           /\ Finalized(r).program = r.program /\ ~Finalized(r).initialized
           /\ Deleted(r) \in ObjectType
           /\ Deleted(r).status = "deleted" /\ Deleted(r).lib = r.lib /\ Deleted(r).ptrs = "none"
<1>1. Initialized(r, h) \in ObjectType /\ Finalized(r) \in ObjectType
  BY DEF Initialized, Finalized, ObjectType, Handle
<1>2. Deleted(r) \in ObjectType
  <2>1. r.lib \in Name \cup {NoLib}
    BY DEF ObjectType
  <2> QED  BY <2>1, NoObjectTypes
<1>3. /\ Initialized(r, h).status = r.status /\ Initialized(r, h).lib = r.lib
      /\ Initialized(r, h).bound = r.bound /\ Initialized(r, h).ptrs = r.ptrs
      /\ Initialized(r, h).program = r.program /\ Initialized(r, h).handle = h
  BY DEF Initialized, ObjectType
<1>4. /\ Finalized(r).status = r.status /\ Finalized(r).lib = r.lib
      /\ Finalized(r).bound = r.bound /\ Finalized(r).ptrs = r.ptrs
      /\ Finalized(r).program = r.program /\ ~Finalized(r).initialized
  BY DEF Finalized, ObjectType
<1>5. Deleted(r).status = "deleted" /\ Deleted(r).lib = r.lib /\ Deleted(r).ptrs = "none"
  BY DEF Deleted, NoObject
<1> QED  BY <1>1, <1>2, <1>3, <1>4, <1>5

LEMMA InitResultFacts ==
    ASSUME NEW h \in InitResult
    PROVE  h \in Handle /\ (Undisturbed => h = "state")
  BY DEF InitResult, Handle, Undisturbed

LEMMA AfterInitFacts ==
    ASSUME Inv, NEW o \in Object, Live(o), NEW h \in InitResult, NEW r, r = AfterInit(o, h)
    PROVE  /\ r \in ObjectType /\ r.status = "live" /\ r.lib = obj[o].lib
           /\ r.bound = obj[o].bound /\ r.ptrs = obj[o].ptrs /\ r.program = obj[o].program
           /\ Undisturbed => r.handle = "state"
<1>1. obj[o] \in ObjectType /\ obj[o].status = "live"
  BY DEF Inv, TypeOK, Live
<1>2. h \in Handle /\ (Undisturbed => h = "state")
  BY InitResultFacts
<1>3. CASE obj[o].initialized
  BY <1>1, <1>3 DEF AfterInit, Inv, Sound
<1>4. CASE ~obj[o].initialized
  <2>1. r = Initialized(obj[o], h)
    BY <1>4 DEF AfterInit
  <2> QED  BY <1>1, <1>2, <2>1, RecordFacts
<1> QED  BY <1>3, <1>4

(***************************************************************************)
(* A call after which the object is still there, with its library.         *)
(***************************************************************************)
LEMMA CallKeepsInv ==
    ASSUME Inv, NEW o \in Object, Live(o), NEW r \in ObjectType,
           r.status = "live", r.lib = obj[o].lib, r.bound = obj[o].bound,
           r.ptrs = obj[o].ptrs, r.program = obj[o].program,
           Undisturbed /\ r.initialized => r.handle = "state",
           obj' = [obj EXCEPT ![o] = r],
           UNCHANGED <<env, disk, refs, image, version, generated, restarts>>,
           NEW fn \in {"init", "program", "exit"}, NEW h \in Handle, Invoke(o, fn, h),
           Undisturbed => fn = "init" \/ h = "state"
    PROVE  Inv'
<1>0. TypeOK /\ OnlyLive /\ Libraries /\ Sound
  BY DEF Inv
<1>1. /\ native' \in NativeType /\ crashed' \in BOOLEAN
      /\ obj[o].ptrs = "valid" /\ (fn = "init" \/ h = "state") => CallsAreSound'
  BY <1>0, InvokeFacts
<1>2. /\ obj' \in [Object -> ObjectType] /\ obj'[o] = r
      /\ \A q \in Object \ {o} : obj'[q] = obj[q]
  BY <1>0 DEF TypeOK
<1>3. TypeOK'
  BY <1>0, <1>1, <1>2 DEF TypeOK, NativeType, Handle
<1>4. obj[o].status = "live"
  BY DEF Live
<1>5. OnlyLive'
  BY <1>0, <1>2, <1>4 DEF OnlyLive
<1>6. \A q \in Object : /\ obj'[q].lib = obj[q].lib /\ obj'[q].bound = obj[q].bound
                        /\ obj'[q].ptrs = obj[q].ptrs /\ obj'[q].program = obj[q].program
  BY <1>2
<1>7. Libraries'
  BY <1>0, <1>3, <1>6, SameLibraries
<1>8. Sound'
  <2> SUFFICES ASSUME Undisturbed
               PROVE  /\ CallsAreSound'
                      /\ \A q \in Object :
                             obj'[q].status = "live" =>
                                 /\ obj'[q].ptrs = "valid" /\ obj'[q].lib = obj'[q].bound
                                 /\ obj'[q].initialized => obj'[q].handle = "state"
    BY DEF Sound, Undisturbed
  <2>1. \A q \in Object :
            obj[q].status = "live" =>
                /\ obj[q].ptrs = "valid" /\ obj[q].lib = obj[q].bound
                /\ obj[q].initialized => obj[q].handle = "state"
    BY <1>0 DEF Sound
  <2>2. CallsAreSound'
    BY <1>1, <1>4, <2>1
  <2> QED  BY <1>2, <1>4, <2>1, <2>2
<1> QED  BY <1>3, <1>5, <1>7, <1>8 DEF Inv

LEMMA InitializeInv ==
    ASSUME Inv, NEW o \in Object, NEW h \in InitResult, Initialize(o, h)
    PROVE  Inv'
<1> DEFINE r == Initialized(obj[o], h)
<1>1. /\ Live(o) /\ Invoke(o, "init", h) /\ obj' = [obj EXCEPT ![o] = r]
      /\ UNCHANGED <<env, disk, refs, image, version, generated, restarts>>
  BY DEF Initialize
<1>2. obj[o] \in ObjectType /\ obj[o].status = "live" /\ h \in Handle /\ (Undisturbed => h = "state")
  BY <1>1, InitResultFacts DEF Inv, TypeOK, Live
<1>3. /\ r \in ObjectType /\ r.status = "live" /\ r.lib = obj[o].lib /\ r.bound = obj[o].bound
      /\ r.ptrs = obj[o].ptrs /\ r.program = obj[o].program /\ r.handle = h
  BY <1>2, RecordFacts
<1> HIDE DEF r
<1> QED  BY <1>1, <1>2, <1>3, CallKeepsInv

LEMMA FastCallInv ==
    ASSUME Inv, NEW o \in Object, NEW h \in InitResult, FastCall(o, h)
    PROVE  Inv'
<1> DEFINE r == AfterInit(o, h)
           g == r.handle
<1>1. /\ Live(o) /\ Invoke(o, "program", g) /\ obj' = [obj EXCEPT ![o] = r]
      /\ UNCHANGED <<env, disk, refs, image, version, generated, restarts>>
  BY DEF FastCall
<1>2. /\ r \in ObjectType /\ r.status = "live" /\ r.lib = obj[o].lib
      /\ r.bound = obj[o].bound /\ r.ptrs = obj[o].ptrs /\ r.program = obj[o].program
      /\ Undisturbed => r.handle = "state"
  BY <1>1, AfterInitFacts
<1>3. g \in Handle
  BY <1>2 DEF ObjectType, Handle
<1> HIDE DEF r
<1>4. Undisturbed => g = "state"
  BY <1>2
<1> HIDE DEF g
<1> QED  BY <1>1, <1>2, <1>3, <1>4, CallKeepsInv DEF g

LEMMA FinalizeInv ==
    ASSUME Inv, NEW o \in Object, Finalize(o)
    PROVE  Inv'
<1> DEFINE r == Finalized(obj[o])
           h == obj[o].handle
<1>1. /\ Live(o) /\ Invoke(o, "exit", h) /\ obj' = [obj EXCEPT ![o] = r]
      /\ UNCHANGED <<env, disk, refs, image, version, generated, restarts>>
      /\ obj[o].initialized \/ "finalize" \in env.disturbed
  BY DEF Finalize
<1>2. obj[o] \in ObjectType /\ obj[o].status = "live" /\ h \in Handle
  BY <1>1 DEF Inv, TypeOK, Live, ObjectType, Handle
<1>3. /\ r \in ObjectType /\ r.status = "live" /\ r.lib = obj[o].lib /\ r.bound = obj[o].bound
      /\ r.ptrs = obj[o].ptrs /\ r.program = obj[o].program /\ ~r.initialized
  BY <1>2, RecordFacts
<1>4. Undisturbed => h = "state"
  BY <1>1, <1>2 DEF Inv, Sound, Undisturbed
<1> HIDE DEF r, h
<1> QED  BY <1>1, <1>2, <1>3, <1>4, CallKeepsInv

(***************************************************************************)
(* Without disturbances no live object is without its library.             *)
(***************************************************************************)
LEMMA ReadyUndisturbed ==
    ASSUME Inv, NEW o \in Object, Live(o), Undisturbed
    PROVE  obj[o].lib # NoLib /\ Ready(o)
<1>1. obj[o].ptrs = "valid" /\ obj[o].lib = obj[o].bound
  BY DEF Inv, Sound, Live
<1>2. obj[o].bound \in Name
  BY <1>1 DEF Inv, Libraries, Linked
<1> QED  BY <1>1, <1>2, NameFacts DEF Ready

LEMMA FastCallReloadsInv ==
    ASSUME Inv, NEW o \in Object, NEW h \in InitResult, NEW k \in 0..MaxCount,
           FastCallReloads(o, h, k), NEW n, n = obj[o].fname
    PROVE  Inv'
<1> DEFINE c == CopyName(n, k)
           i == Initialized(obj[o], h)
           r == [i EXCEPT !.lib = c, !.fname = c]
<1>0. TypeOK /\ OnlyLive /\ Libraries /\ disk \in [Name -> 0..MaxVersion]
  BY DEF Inv, TypeOK
<1>1. /\ Live(o) /\ ~Ready(o) /\ Load(n, k, disk) /\ Invoke(o, "program", h)
      /\ obj' = [obj EXCEPT ![o] = r]
      /\ UNCHANGED <<env, version, generated, restarts>>
  BY DEF FastCallReloads
<1>2. CanLoad(n, k, disk) /\ disk' = Copied(n, k, disk)
  BY <1>1 DEF Load
<1>3. /\ n \in Name /\ c \in Name /\ refs[c] = 0 /\ disk' \in [Name -> 0..MaxVersion] /\ disk'[c] # 0
      /\ k # 0 => k - 1 \in Nat /\ c = Append(n, k - 1)
  <2>1. TypeOK /\ disk \in [Name -> 0..MaxVersion]
    BY <1>0
  <2> QED  BY ONLY SMTT(30), <1>2, <2>1, LoadFacts, k \in 0..MaxCount
<1>4. /\ refs' \in [Name -> Nat] /\ refs'[c] = 1
      /\ image' \in [Name -> 0..MaxVersion] /\ image'[c] = disk'[c]
      /\ \A m \in Name : m # c => /\ refs'[m] >= refs[m] /\ (refs[m] = 0 => refs'[m] = 0)
                                  /\ image'[m] = image[m] /\ disk'[m] = disk[m]
      /\ k # 0 => refs'[n] > 1
  BY <1>0, <1>1, LoadTypes
<1>5. obj[o] \in ObjectType /\ obj[o].status = "live" /\ h \in Handle
  BY <1>0, <1>1, InitResultFacts DEF TypeOK, Live
<1>6. /\ i \in ObjectType /\ i.status = "live" /\ i.bound = obj[o].bound
      /\ i.ptrs = obj[o].ptrs /\ i.program = obj[o].program
  BY <1>5, RecordFacts
<1> HIDE DEF c, i
<1>7. /\ r \in ObjectType /\ r.status = "live" /\ r.bound = obj[o].bound
      /\ r.ptrs = obj[o].ptrs /\ r.program = obj[o].program /\ r.lib = c
  BY <1>3, <1>6 DEF ObjectType
<1> HIDE DEF r
<1>8. /\ obj' \in [Object -> ObjectType] /\ obj'[o] = r
      /\ \A q \in Object \ {o} : obj'[q] = obj[q]
  BY <1>0, <1>1, <1>7 DEF TypeOK
<1>9. native' \in NativeType /\ crashed' \in BOOLEAN
  BY <1>0, <1>1, <1>5, InvokeFacts
<1>10. TypeOK'
  BY <1>0, <1>1, <1>3, <1>4, <1>8, <1>9 DEF TypeOK, NativeType, Handle
<1>11. OnlyLive'
  BY <1>0, <1>5, <1>7, <1>8 DEF OnlyLive
<1>12. /\ Exclusive' /\ Linked' /\ MappedFileIntact'
       /\ \A m \in Name : Pinned(m) => Pinned(m)'
  <2>1. UNCHANGED <<env, restarts>> /\ obj[o].lib = NoLib
    BY <1>1 DEF Ready
  <2>2. /\ obj'[o].bound = obj[o].bound /\ obj'[o].ptrs = obj[o].ptrs
        /\ obj'[o].program = obj[o].program
    BY <1>7, <1>8
  <2>3. \A q \in Object \ {o} :
            /\ obj'[q].lib = obj[q].lib /\ obj'[q].bound = obj[q].bound
            /\ obj'[q].ptrs = obj[q].ptrs /\ obj'[q].program = obj[q].program
    BY <1>8
  <2>4. obj'[o].lib = c /\ disk'[c] # 0 /\ refs[c] = 0 /\ refs'[c] = 1 /\ image'[c] = disk'[c]
        /\ c \in Name
    BY <1>3, <1>4, <1>7, <1>8
  <2>5. \A m \in Name : m # c => /\ refs'[m] >= refs[m] /\ (refs[m] = 0 => refs'[m] = 0)
                                 /\ image'[m] = image[m] /\ disk'[m] = disk[m]
    BY <1>4
  <2> QED  BY <1>0, <1>10, <2>1, <2>2, <2>3, <2>4, <2>5, Acquire
<1>13. k # 0 => Pinned(n)'
  <2>1. k # 0 => refs'[n] \in Nat /\ refs'[n] > 1
    BY <1>3, <1>4
  <2>2. k # 0 => refs'[n] > 0
    BY <2>1
  <2> QED  BY <2>1, <2>2 DEF Pinned
<1>14. CopiesCurrent'
  BY <1>0, <1>1, <1>2, <1>12, <1>13, CopyCurrent
<1>15. Sound'
  BY <1>1, ReadyUndisturbed DEF Sound, Undisturbed
<1> QED  BY <1>10, <1>11, <1>12, <1>14, <1>15 DEF Inv, Libraries

LEMMA FastCallReloadFailsInv ==
    ASSUME Inv, NEW o \in Object, NEW h \in InitResult, NEW k \in 0..MaxCount,
           FastCallReloadFails(o, h, k), NEW n, n = obj[o].fname
    PROVE  Inv'
<1> DEFINE c == CopyName(n, k)
           i == Initialized(obj[o], h)
           r == [i EXCEPT !.fname = c]
           S == {CopyName(n, j) : j \in 0..(k - 1)}
<1>0. TypeOK /\ OnlyLive /\ Libraries /\ disk \in [Name -> 0..MaxVersion]
  BY DEF Inv, TypeOK
<1>1. /\ Live(o) /\ "call" \in env.disturbed /\ CanLoad(n, k, disk)
      /\ disk' = Copied(n, k, disk) /\ refs' = Probe(S) /\ Invoke(o, "program", h)
      /\ obj' = [obj EXCEPT ![o] = r]
      /\ UNCHANGED <<env, image, version, generated, restarts>>
  BY DEF FastCallReloadFails
<1>2. /\ n \in Name /\ c \in Name /\ refs[c] = 0 /\ disk' \in [Name -> 0..MaxVersion]
      /\ \A m \in Name : m # c \/ disk[c] # 0 => disk'[m] = disk[m]
      /\ k # 0 => refs[n] > 0 /\ n \in S
  <2>1. TypeOK /\ disk \in [Name -> 0..MaxVersion]
    BY <1>0
  <2>2. CanLoad(n, k, disk) /\ disk' = Copied(n, k, disk)
    BY <1>1
  <2> QED  BY ONLY <2>1, <2>2, LoadFacts, k \in 0..MaxCount
<1>3. obj[o] \in ObjectType /\ obj[o].status = "live" /\ h \in Handle
  BY <1>0, <1>1, InitResultFacts DEF TypeOK, Live
<1>4. /\ i \in ObjectType /\ i.status = "live" /\ i.bound = obj[o].bound /\ i.lib = obj[o].lib
      /\ i.ptrs = obj[o].ptrs /\ i.program = obj[o].program
  BY <1>3, RecordFacts
<1> HIDE DEF c, i, S
<1>5. /\ r \in ObjectType /\ r.status = "live" /\ r.bound = obj[o].bound
      /\ r.ptrs = obj[o].ptrs /\ r.program = obj[o].program /\ r.lib = obj[o].lib
  BY <1>2, <1>4 DEF ObjectType
<1> HIDE DEF r
<1>6. /\ obj' \in [Object -> ObjectType] /\ obj'[o] = r
      /\ \A q \in Object \ {o} : obj'[q] = obj[q]
  BY <1>0, <1>1, <1>5 DEF TypeOK
<1>7. native' \in NativeType /\ crashed' \in BOOLEAN
  BY <1>0, <1>1, <1>3, InvokeFacts
<1>8. /\ refs' \in [Name -> Nat]
      /\ \A m \in Name : /\ refs'[m] >= refs[m] /\ (refs[m] = 0 => refs'[m] = 0)
                         /\ m \in S /\ refs[m] > 0 => refs'[m] = refs[m] + 1
  BY <1>0, <1>1, ProbeFacts
<1>9. TypeOK'
  BY <1>0, <1>1, <1>2, <1>6, <1>7, <1>8 DEF TypeOK, NativeType, Handle
<1>10. OnlyLive'
  BY <1>0, <1>3, <1>5, <1>6 DEF OnlyLive
<1>11. /\ Exclusive' /\ Linked' /\ MappedFileIntact'
       /\ \A m \in Name : Pinned(m) => Pinned(m)'
  <2>1. \A m \in Name : /\ refs'[m] >= refs[m] /\ (refs[m] = 0 => refs'[m] = 0)
                        /\ image'[m] = image[m]
                        /\ refs[m] > 0 => disk'[m] = disk[m]
    BY <1>1, <1>2, <1>8
  <2>2. \A q \in Object : /\ obj'[q].lib = obj[q].lib /\ obj'[q].bound = obj[q].bound
                          /\ obj'[q].ptrs = obj[q].ptrs /\ obj'[q].program = obj[q].program
    BY <1>5, <1>6
  <2> QED  BY <1>0, <1>1, <1>9, <2>1, <2>2, KeptMapped
<1>12. k # 0 => Pinned(n)'
  <2>1. k # 0 => refs[n] \in Nat /\ refs[n] > 0 /\ refs'[n] = refs[n] + 1
    BY <1>0, <1>2, <1>8 DEF TypeOK
  <2>2. k # 0 => refs'[n] > 1 /\ refs'[n] > 0
    BY <2>1
  <2> QED  BY <2>2 DEF Pinned
<1>13. CopiesCurrent'
  BY <1>0, <1>1, <1>11, <1>12, CopyCurrent
<1>14. Sound'
  BY <1>1 DEF Sound, Undisturbed
<1> QED  BY <1>9, <1>10, <1>11, <1>13, <1>14 DEF Inv, Libraries

(***************************************************************************)
(* A live object unloads its library, and is deleted or not.               *)
(***************************************************************************)
LEMMA UnloadInv ==
    ASSUME Inv, NEW o \in Object, Live(o), NEW r \in ObjectType, r.lib = obj[o].lib,
           \/ r.status = "deleted" /\ r.ptrs = "none"
           \/ /\ r.status = "live" /\ r.bound = obj[o].bound /\ r.ptrs = obj[o].ptrs
              /\ r.program = obj[o].program,
           Unload([obj EXCEPT ![o] = r], o), UNCHANGED <<env, disk, version, generated, restarts>>,
           native' \in NativeType, crashed' \in BOOLEAN,
           Undisturbed => CallsAreSound' /\ r.status = "deleted"
    PROVE  Inv'
<1> DEFINE f == [obj EXCEPT ![o] = r]
           n == obj[o].lib
<1>0. TypeOK /\ OnlyLive /\ Libraries /\ Sound /\ Exclusive
  BY DEF Inv, Libraries
<1>1. /\ f \in [Object -> ObjectType] /\ f[o] = r
      /\ \A q \in Object \ {o} : f[q] = obj[q]
  BY <1>0 DEF TypeOK
<1>2. Unload(f, o) /\ f[o].lib = obj[o].lib
  BY <1>1
<1> HIDE DEF f
<1>3. /\ n \in Name \cup {NoLib}
      /\ refs' \in [Name -> Nat] /\ image' \in [Name -> 0..MaxVersion]
      /\ obj' \in [Object -> ObjectType]
  BY <1>0, <1>1, <1>2, UnloadFacts
<1>4. \A q \in Object :
          /\ obj'[q].lib = IF q = o THEN NoLib ELSE f[q].lib
          /\ obj'[q].bound = f[q].bound /\ obj'[q].status = f[q].status
          /\ obj'[q].initialized = f[q].initialized /\ obj'[q].handle = f[q].handle
          /\ obj'[q].ptrs = IF n # NoLib /\ refs[n] = 1 /\ f[q].bound = n /\ f[q].ptrs = "valid"
                            THEN "dangling" ELSE f[q].ptrs
  BY <1>0, <1>1, <1>2, UnloadFacts
<1>5. TypeOK'
  BY <1>0, <1>3 DEF TypeOK, NativeType, Handle
<1>6. OnlyLive'
  <2> SUFFICES ASSUME NEW q \in Object
               PROVE  IF obj'[q].status = "live" THEN obj'[q].ptrs # "none"
                      ELSE obj'[q].lib = NoLib /\ obj'[q].ptrs = "none"
    BY DEF OnlyLive
  <2>1. CASE q = o
    <3>1. obj[o].ptrs # "none"
      BY <1>0 DEF OnlyLive, Live
    <3> QED  BY <1>1, <1>4, <2>1, <3>1
  <2>2. CASE q # o
    BY <1>0, <1>1, <1>4, <2>2 DEF OnlyLive
  <2> QED  BY <2>1, <2>2
<1>7. Libraries'
  BY <1>0, <1>1, <1>2, UnloadLibraries
<1>8. Sound'
  <2> SUFFICES ASSUME Undisturbed, NEW q \in Object, obj'[q].status = "live"
               PROVE  /\ obj'[q].ptrs = "valid" /\ obj'[q].lib = obj'[q].bound
                      /\ obj'[q].initialized => obj'[q].handle = "state"
    BY DEF Sound, Undisturbed
  <2>1. q # o
    BY <1>1, <1>4
  <2>2. /\ obj[q].status = "live" /\ obj[q].ptrs = "valid" /\ obj[q].lib = obj[q].bound
        /\ obj[q].initialized => obj[q].handle = "state"
    BY <1>0, <1>1, <1>4, <2>1 DEF Sound
  <2>3. obj[q].bound # n \/ n = NoLib
    BY <1>0, <2>1, <2>2 DEF Exclusive
  <2> QED  BY <1>1, <1>4, <2>1, <2>2, <2>3
<1> QED  BY <1>5, <1>6, <1>7, <1>8 DEF Inv

LEMMA FastCallFailsInv ==
    ASSUME Inv, NEW o \in Object, NEW h \in InitResult, FastCallFails(o, h)
    PROVE  Inv'
<1> DEFINE r == AfterInit(o, h)
           g == r.handle
<1>1. /\ Live(o) /\ "call" \in env.disturbed /\ Invoke(o, "program", g)
      /\ Unload([obj EXCEPT ![o] = r], o) /\ UNCHANGED <<env, disk, version, generated, restarts>>
  BY DEF FastCallFails
<1>2. /\ r \in ObjectType /\ r.status = "live" /\ r.lib = obj[o].lib
      /\ r.bound = obj[o].bound /\ r.ptrs = obj[o].ptrs /\ r.program = obj[o].program
  BY <1>1, AfterInitFacts
<1>3. g \in Handle
  BY <1>2 DEF ObjectType, Handle
<1> HIDE DEF r, g
<1>4. native' \in NativeType /\ crashed' \in BOOLEAN
  BY <1>1, <1>3, InvokeFacts DEF Inv
<1>5. ~Undisturbed
  BY <1>1 DEF Undisturbed
<1> QED  BY <1>1, <1>2, <1>4, <1>5, UnloadInv

LEMMA DeleteInitializedInv ==
    ASSUME Inv, NEW o \in Object, DeleteInitialized(o)
    PROVE  Inv'
<1> DEFINE r == Deleted(obj[o])
           h == obj[o].handle
<1>1. /\ Live(o) /\ obj[o].initialized /\ Invoke(o, "exit", h)
      /\ Unload([obj EXCEPT ![o] = r], o) /\ UNCHANGED <<env, disk, version, generated, restarts>>
  BY DEF DeleteInitialized
<1>2. obj[o] \in ObjectType /\ h \in Handle
  BY DEF Inv, TypeOK, ObjectType, Handle
<1>3. r \in ObjectType /\ r.status = "deleted" /\ r.lib = obj[o].lib /\ r.ptrs = "none"
  BY <1>2, RecordFacts
<1>4. Undisturbed => h = "state" /\ obj[o].ptrs = "valid"
  BY <1>1 DEF Inv, Sound, Live
<1> HIDE DEF r, h
<1>5. native' \in NativeType /\ crashed' \in BOOLEAN /\ (Undisturbed => CallsAreSound')
  BY <1>1, <1>2, <1>4, InvokeFacts DEF Inv
<1> QED  BY <1>1, <1>3, <1>5, UnloadInv

LEMMA DeleteUninitializedInv ==
    ASSUME Inv, NEW o \in Object, DeleteUninitialized(o)
    PROVE  Inv'
<1> DEFINE r == Deleted(obj[o])
<1>1. /\ Live(o) /\ Unload([obj EXCEPT ![o] = r], o)
      /\ UNCHANGED <<env, disk, native, version, generated, restarts, crashed>>
  BY DEF DeleteUninitialized
<1>2. obj[o] \in ObjectType
  BY DEF Inv, TypeOK
<1>3. r \in ObjectType /\ r.status = "deleted" /\ r.lib = obj[o].lib /\ r.ptrs = "none"
  BY <1>2, RecordFacts DEF Handle
<1> HIDE DEF r
<1>4. native' \in NativeType /\ crashed' \in BOOLEAN /\ (Undisturbed => CallsAreSound')
  BY <1>1 DEF Inv, TypeOK, NativeType, Handle, Sound, CallsAreSound
<1> QED  BY <1>1, <1>3, <1>4, UnloadInv

LEMMA DeleteFailsInv ==
    ASSUME Inv, NEW o \in Object, DeleteFails(o)
    PROVE  Inv'
<1> DEFINE d == Deleted(obj[o])
           r == [d EXCEPT !.lib = NoLib]
           h == obj[o].handle
<1>0. TypeOK /\ OnlyLive /\ Libraries /\ Sound
  BY DEF Inv
<1>1. /\ Live(o) /\ obj[o].initialized /\ Invoke(o, "exit", h) /\ obj' = [obj EXCEPT ![o] = r]
      /\ UNCHANGED <<env, disk, refs, image, version, generated, restarts>>
  BY DEF DeleteFails
<1>2. obj[o] \in ObjectType /\ h \in Handle
  BY DEF Inv, TypeOK, ObjectType, Handle
<1>3. d \in ObjectType /\ d.status = "deleted" /\ d.ptrs = "none"
  BY <1>2, RecordFacts
<1> HIDE DEF d
<1>4. r \in ObjectType /\ r.status = "deleted" /\ r.lib = NoLib /\ r.ptrs = "none"
  BY <1>3 DEF ObjectType
<1>5. Undisturbed => h = "state" /\ obj[o].ptrs = "valid"
  BY <1>1 DEF Inv, Sound, Live
<1> HIDE DEF r, h
<1>6. native' \in NativeType /\ crashed' \in BOOLEAN /\ (Undisturbed => CallsAreSound')
  BY <1>1, <1>2, <1>5, InvokeFacts DEF Inv
<1>7. /\ obj' \in [Object -> ObjectType] /\ obj'[o] = r
      /\ \A q \in Object \ {o} : obj'[q] = obj[q]
  BY <1>0, <1>1, <1>4 DEF TypeOK
<1>8. TypeOK'
  BY <1>0, <1>1, <1>6, <1>7 DEF TypeOK, NativeType, Handle
<1>9. OnlyLive'
  BY <1>0, <1>4, <1>7 DEF OnlyLive
<1>10. \A q \in Object :
          /\ obj'[q].lib = obj[q].lib \/ obj'[q].lib = NoLib
          /\ \/ obj'[q].ptrs = "none"
             \/ /\ obj'[q].bound = obj[q].bound /\ obj'[q].ptrs = obj[q].ptrs
                /\ obj'[q].program = obj[q].program
  BY <1>4, <1>7
<1>11. Libraries'
  BY <1>0, <1>1, <1>8, <1>10, SameLibraries
<1>12. Sound'
  BY <1>0, <1>1, <1>4, <1>6, <1>7 DEF Sound, Undisturbed
<1> QED  BY <1>8, <1>9, <1>11, <1>12 DEF Inv

(***************************************************************************)
(* A new process begins, in which nothing is mapped and no object is live. *)
(***************************************************************************)
LEMMA RestartInv ==
    ASSUME Inv, Restart
    PROVE  Inv'
<1>0. TypeOK
  BY DEF Inv
<1>1. /\ restarts < MaxRestarts /\ restarts' = restarts + 1
      /\ refs' = [n \in Name |-> 0] /\ image' = [n \in Name |-> 0]
      /\ obj' = [o \in Object |-> IF obj[o].status = "live"
                                  THEN [NoObject EXCEPT !.status = "deleted"] ELSE obj[o]]
      /\ native' = NoCall /\ crashed' = FALSE
      /\ UNCHANGED <<env, disk, version, generated>>
  BY DEF Restart
<1>2. restarts' \in 0..MaxRestarts /\ CopiesMayBeStale'
  BY <1>0, <1>1, BoundAssumption DEF TypeOK, CopiesMayBeStale
<1>3. refs' \in [Name -> Nat] /\ image' \in [Name -> 0..MaxVersion]
  BY <1>1, BoundAssumption
<1>4. \A o \in Object : /\ obj'[o] \in ObjectType
                        /\ obj'[o].status # "live" /\ obj'[o].lib = NoLib /\ obj'[o].ptrs = "none"
  <2> TAKE o \in Object
  <2>1. CASE obj[o].status = "live"
    BY <1>1, <2>1, NoObjectTypes DEF NoObject
  <2>2. CASE obj[o].status # "live"
    <3>1. obj'[o] = obj[o]
      BY <1>1, <2>2
    <3> QED  BY <1>0, <2>2, <3>1 DEF Inv, OnlyLive, TypeOK
  <2> QED  BY <2>1, <2>2
<1>5. obj' \in [Object -> ObjectType]
  BY <1>1, <1>4
<1>6. TypeOK'
  BY <1>0, <1>1, <1>2, <1>3, <1>5 DEF TypeOK, NoCall
<1>7. OnlyLive' /\ Exclusive' /\ Linked' /\ CopiesCurrent'
  BY <1>2, <1>4 DEF OnlyLive, Exclusive, Linked, CopiesCurrent
<1>8. MappedFileIntact'
  BY <1>1 DEF MappedFileIntact, Mapped
<1>9. Sound'
  BY <1>1, <1>4 DEF Sound, CallsAreSound, NoCall
<1> QED  BY <1>6, <1>7, <1>8, <1>9 DEF Inv, Libraries

(***************************************************************************)
(* The invariant holds in every behavior.                                  *)
(***************************************************************************)
LEMMA InitInv ==
    ASSUME Init
    PROVE  Inv
<1>1. \A o \in Object : obj[o] = NoObject
  BY DEF Init
<1>2. 0 \in 0..MaxVersion /\ 0 \in 0..MaxRestarts /\ 0 \in 0..MaxCount
  BY BoundAssumption
<1>3. TypeOK
  <2>1. obj \in [Object -> ObjectType]
    BY NoObjectTypes DEF Init
  <2>2. native \in NativeType
    BY DEF Init, NoCall, NativeType, Handle
  <2>3. /\ disk \in [Name -> 0..MaxVersion] /\ image \in [Name -> 0..MaxVersion]
        /\ refs \in [Name -> Nat] /\ generated \in [0..MaxVersion -> 0..MaxCount]
    BY <1>2 DEF Init
  <2> QED  BY <1>2, <2>1, <2>2, <2>3 DEF Init, TypeOK, NativeType, Handle
<1>4. OnlyLive /\ Exclusive /\ Linked
  BY <1>1 DEF OnlyLive, Exclusive, Linked, NoObject
<1>5. MappedFileIntact /\ CopiesCurrent
  BY DEF Init, MappedFileIntact, Mapped, CopiesCurrent
<1>6. Sound
  BY <1>1 DEF Init, Sound, CallsAreSound, NoCall, NoObject
<1> QED  BY <1>3, <1>4, <1>5, <1>6 DEF Inv, Libraries

LEMMA NextInv ==
    ASSUME Inv, [Next]_vars
    PROVE  Inv'
<1>1. CASE UNCHANGED vars
  BY <1>1 DEF vars, Inv, TypeOK, OnlyLive, Libraries, Exclusive, Linked, MappedFileIntact,
              Mapped, CopiesCurrent, Pinned, Sound, Undisturbed, CallsAreSound,
              CopiesMayBeStale, RebuiltInPlace
<1>2. ASSUME NEW o \in Object, NEW i \in 0..MaxCount, Compile(o, i)
      PROVE  Inv'
  BY <1>2, CompileInv
<1>8. ASSUME NEW o \in Object, NEW k \in 0..MaxCount, NEW v \in {version, version + 1},
             CompileKept(o, v, k)
      PROVE  Inv'
  BY <1>8, CompileKeptInv
<1>9. ASSUME NEW o \in Object, NEW k \in 0..MaxCount, NEW i \in {0, generated[version]},
             LoadPrecompiled(o, i, k)
      PROVE  Inv'
  BY <1>9, LoadPrecompiledInv
<1>3. ASSUME NEW o \in Object, NEW k \in 0..MaxCount, NEW h \in InitResult,
             FastCallReloads(o, h, k) \/ FastCallReloadFails(o, h, k)
      PROVE  Inv'
  BY <1>3, FastCallReloadsInv, FastCallReloadFailsInv
<1>4. ASSUME NEW i \in 0..MaxCount, IsLoaded(i)
      PROVE  Inv'
  BY <1>4, IsLoadedInv
<1>5. ASSUME NEW o \in Object, NEW h \in InitResult,
             Initialize(o, h) \/ FastCall(o, h) \/ FastCallFails(o, h)
      PROVE  Inv'
  BY <1>5, InitializeInv, FastCallInv, FastCallFailsInv
<1>6. ASSUME NEW o \in Object,
             Finalize(o) \/ DeleteInitialized(o) \/ DeleteUninitialized(o) \/ DeleteFails(o)
      PROVE  Inv'
  BY <1>6, FinalizeInv, DeleteInitializedInv, DeleteUninitializedInv, DeleteFailsInv
<1>7. CASE Restart
  BY <1>7, RestartInv
<1> QED  BY <1>1, <1>2, <1>3, <1>4, <1>5, <1>6, <1>7, <1>8, <1>9 DEF Next

LEMMA Invariance == Spec => []Inv
<1>1. Init => Inv
  BY InitInv
<1>2. Inv /\ [Next]_vars => Inv'
  BY NextInv
<1> QED  BY <1>1, <1>2, PTL DEF Spec

(***************************************************************************)
(* The files, reference counts and objects have their types: unload never  *)
(* gives back a reference to a library that has none.                      *)
(***************************************************************************)
THEOREM CompiledTypeCorrect == Spec => []TypeOK
<1>1. Inv => TypeOK
  BY DEF Inv
<1> QED  BY <1>1, Invariance, PTL

(***************************************************************************)
(* No two CompiledSDFG objects that are live have the same library loaded: *)
(* load finds a name for a copy that is not mapped.                        *)
(***************************************************************************)
THEOREM CompiledNoSharedLibrary == Spec => []NoSharedLibrary
<1>1. Inv => NoSharedLibrary
  BY DEF Inv, Libraries, Exclusive, NoSharedLibrary
<1> QED  BY <1>1, Invariance, PTL

(***************************************************************************)
(* The file of a library that is mapped is there, and neither compile nor  *)
(* load writes it, except that compile rebuilds the library of the SDFG's  *)
(* own name where the code in the build folder is kept.                    *)
(***************************************************************************)
THEOREM CompiledMappedFileIntact == Spec => []MappedFileIntact
<1>1. Inv => MappedFileIntact
  BY DEF Inv, Libraries
<1> QED  BY <1>1, Invariance, PTL

(***************************************************************************)
(* The functions that an object has looked up, as long as their library is *)
(* mapped, are those of the program the object was made for.  In the first *)
(* process and with generated code that holds also if a copy was loaded    *)
(* that was there already; in later processes and with code that is kept   *)
(* it holds of every library that is not a copy.                           *)
(***************************************************************************)
THEOREM CompiledRunsItsProgram == Spec => []RunsItsProgram
<1>1. Inv => RunsItsProgram
  BY DEF Inv, Libraries, Linked, RunsItsProgram
<1> QED  BY <1>1, Invariance, PTL

(***************************************************************************)
(* Unless an init function or a call fails or the user finalizes what is   *)
(* not initialized, every call of a CompiledSDFG goes to a mapped library, *)
(* and the program and the exit function get the state that init made.     *)
(***************************************************************************)
THEOREM CompiledSoundUnlessDisturbed == Spec => []SoundUnlessDisturbed
<1>1. Inv => SoundUnlessDisturbed
  BY DEF Inv, Sound, Undisturbed, SoundUnlessDisturbed
<1> QED  BY <1>1, Invariance, PTL
=============================================================================
