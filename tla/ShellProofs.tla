---------------------------- MODULE ShellProofs ----------------------------
(***************************************************************************)
(* Proofs about the shell of module Shell: for any number of processes and *)
(* descriptors, whatever is typed and whatever the programs do.            *)
(***************************************************************************)
EXTENDS Shell, FiniteSetTheorems, WellFoundedInduction, TLAPS

Fields == {"at", "parent", "line", "pipeLine", "commands", "current", "fd",
           "flowThru", "left"}

RecordsInv ==
    /\ proc = [p \in Processes |-> proc[p]]
    /\ \A p \in Processes : DOMAIN proc[p] = Fields

(* The processes that live are a chain c of n: the shell that was started, *)
(* its child, that one's child, and so on.  Only the last one runs; all    *)
(* before it wait for a child, or are about to.                            *)
Chained(ps, n, c) ==
    /\ \A i, j \in 1 .. n : c[i] = c[j] => i = j
    /\ \A p \in Processes :
          ps[p].at # "none" => \E i \in 1 .. n : c[i] = p
    /\ \A i \in 1 .. n :
          /\ ps[c[i]].at # "none"
          /\ ps[c[i]].parent = IF i = 1 THEN 0 ELSE c[i - 1]
          /\ i < n => ps[c[i]].at \in {"forked", "waiting"}
          /\ ps[c[i]].at = "zombie" => i # 1
    /\ n > 0 => c[1] = 1

ChainInv ==
    \E n \in Nat : \E c \in [1 .. n -> Processes] : Chained(proc, n, c)

RunsInv == RecordsInv /\ ChainInv
----------------------------------------------------------------------------
(* Operators. *)

(* A set of natural numbers that is not empty has a lowest one. *)
LEMMA LowestOf ==
    ASSUME NEW S \in SUBSET Nat, S # {}
    PROVE  Lowest(S) \in S /\ \A y \in S : Lowest(S) <= y
<1> DEFINE Less == {p \in Nat \X Nat : p[1] < p[2]}
<1>1. OpToRel(<, Nat) = Less
  BY Zenon DEF OpToRel
<1>2. IsWellFoundedOn(Less, Nat)
  BY <1>1, NatLessThanWellFounded, Zenon
<1>3. PICK x \in S : \A y \in S : ~ (<<y, x>> \in Less)
  <2> HIDE DEF Less
  <2>1. QED
    BY <1>2, WFMin
<1>4. \A y \in S : x <= y
  <2>1. SUFFICES ASSUME NEW y \in S, y < x PROVE FALSE
    OBVIOUS
  <2>2. <<y, x>> \in Less
    BY <2>1
  <2>3. QED
    BY <1>3, <2>2, Zenon
<1>5. QED
  BY <1>4 DEF Lowest

(* What a process becomes keeps its parent, and these are its states. *)
LEMMA NobodyFields ==
    /\ DOMAIN Nobody = Fields
    /\ Nobody.at = "none"
    /\ Nobody.parent = 0
BY DEF Nobody, Fields

LEMMA ParsedFields ==
    ASSUME NEW s, NEW line, DOMAIN s = Fields
    PROVE  /\ DOMAIN Parsed(s, line) = Fields
           /\ Parsed(s, line).at = "read"
           /\ Parsed(s, line).parent = s.parent
BY DEF Parsed, Fields

LEMMA StartedFields ==
    ASSUME NEW s, NEW commands, DOMAIN s = Fields
    PROVE  /\ DOMAIN Started(s, commands) = Fields
           /\ Started(s, commands).at = "loop"
           /\ Started(s, commands).parent = s.parent
BY DEF Started, Fields

LEMMA PromptingFields ==
    ASSUME NEW s, DOMAIN s = Fields
    PROVE  /\ DOMAIN Prompting(s) = Fields
           /\ Prompting(s).at = "prompt"
           /\ Prompting(s).parent = s.parent
BY DEF Prompting, Fields

LEMMA AdvancedFields ==
    ASSUME NEW s, DOMAIN s = Fields
    PROVE  /\ DOMAIN Advanced(s) = Fields
           /\ Advanced(s).at \in {"loop", "prompt"}
           /\ Advanced(s).parent = s.parent
<1>1. PICK fd : fd = close(s.fd, s.flowThru[1])
  OBVIOUS
<1>2. PICK t : t = [s EXCEPT !.fd = fd]
  OBVIOUS
<1>3. DOMAIN t = Fields /\ t.parent = s.parent
  BY <1>2 DEF Fields
<1>4. Advanced(s) = IF s.current < Len(s.commands)
                    THEN [s EXCEPT !.at = "loop", !.current = @ + 1]
                    ELSE Prompting(t)
  BY <1>1, <1>2 DEF Advanced
<1>5. QED
  BY <1>3, <1>4, PromptingFields DEF Fields
----------------------------------------------------------------------------
(* A process that lives. *)

(* Steps of a process, seen from the chain. *)
LEMMA ChainSame ==
    ASSUME NEW ps, NEW qs, NEW p \in Processes, NEW n \in Nat,
           NEW c \in [1 .. n -> Processes],
           Chained(ps, n, c),
           ps[p].at \notin {"none", "zombie"},
           \A q \in Processes \ {p} : qs[q] = ps[q],
           qs[p].parent = ps[p].parent,
           qs[p].at \notin {"none", "zombie"},
           ps[p].at \in {"forked", "waiting"} => \/ qs[p].at \in {"forked", "waiting"}
                                                 \/ p = c[n]
    PROVE  Chained(qs, n, c)
<1>1. \A i \in 1 .. n : c[i] \in Processes
  OBVIOUS
<1>2. \A q \in Processes : qs[q].parent = ps[q].parent
  OBVIOUS
<1>3. \A q \in Processes : qs[q].at # "none" => \E i \in 1 .. n : c[i] = q
  BY DEF Chained
<1>4. ASSUME NEW i \in 1 .. n
      PROVE  /\ qs[c[i]].at # "none"
             /\ qs[c[i]].parent = IF i = 1 THEN 0 ELSE c[i - 1]
             /\ i < n => qs[c[i]].at \in {"forked", "waiting"}
             /\ qs[c[i]].at = "zombie" => i # 1
  <2>1. CASE c[i] = p
    <3>1. i < n => p # c[n]
      BY <2>1 DEF Chained
    <3>2. QED
      BY <1>1, <1>2, <2>1, <3>1 DEF Chained
  <2>2. CASE c[i] # p
    BY <1>1, <1>2, <2>2 DEF Chained
  <2>3. QED
    BY <2>1, <2>2
<1>5. QED
  BY <1>3, <1>4, Zenon DEF Chained

(* Only the last of the chain takes a step of its own. *)
LEMMA LastRuns ==
    ASSUME NEW ps, NEW p \in Processes, NEW n \in Nat,
           NEW c \in [1 .. n -> Processes],
           Chained(ps, n, c),
           ps[p].at \notin {"none", "forked", "waiting"}
    PROVE  n > 0 /\ c[n] = p
BY DEF Chained

(* The last of the chain has no children, and every other one has one.     *)
LEMMA OneChild ==
    ASSUME NEW p \in Processes, NEW n \in Nat,
           NEW c \in [1 .. n -> Processes],
           Chained(proc, n, c)
    PROVE  /\ p = c[n] /\ n > 0 => Children(p) = {}
           /\ \A i \in 1 .. n - 1 : p = c[i] => Children(p) = {c[i + 1]}
           /\ proc[p].at = "none" => Children(p) = {}
<1>1. ASSUME NEW q \in Children(p)
      PROVE  \E i \in 1 .. n : c[i] = q /\ i > 1 /\ c[i - 1] = p
  <2>1. q \in Processes /\ proc[q].parent = p /\ proc[q].at # "none"
    BY DEF Children
  <2>2. PICK i \in 1 .. n : c[i] = q
    BY <2>1 DEF Chained
  <2>3. proc[q].parent = IF i = 1 THEN 0 ELSE c[i - 1]
    BY <2>2 DEF Chained
  <2>4. p # 0
    BY DEF Processes
  <2>5. QED
    BY <2>1, <2>2, <2>3, <2>4
<1>2. p = c[n] /\ n > 0 => Children(p) = {}
  <2>1. SUFFICES ASSUME p = c[n], n > 0, NEW q \in Children(p) PROVE FALSE
    OBVIOUS
  <2>2. PICK i \in 1 .. n : c[i] = q /\ i > 1 /\ c[i - 1] = p
    BY <1>1
  <2>3. i - 1 \in 1 .. n /\ n \in 1 .. n /\ i - 1 # n
    BY <2>1, <2>2
  <2>4. QED
    BY <2>1, <2>2, <2>3 DEF Chained
<1>3. ASSUME NEW i \in 1 .. n - 1, p = c[i] PROVE Children(p) = {c[i + 1]}
  <2>1. i \in 1 .. n /\ i + 1 \in 1 .. n /\ (i + 1) - 1 = i /\ i + 1 # 1
    OBVIOUS
  <2>2. c[i + 1] \in Children(p)
    <3>1. proc[c[i + 1]].parent = c[(i + 1) - 1] /\ proc[c[i + 1]].at # "none"
      BY <2>1 DEF Chained
    <3>2. c[i + 1] \in Processes
      BY <2>1
    <3>3. QED
      BY <1>3, <2>1, <3>1, <3>2 DEF Children
  <2>3. ASSUME NEW q \in Children(p) PROVE q = c[i + 1]
    <3>1. PICK j \in 1 .. n : c[j] = q /\ j > 1 /\ c[j - 1] = p
      BY <1>1
    <3>2. j - 1 \in 1 .. n
      BY <3>1
    <3>3. j - 1 = i
      BY <1>3, <2>1, <3>1, <3>2 DEF Chained
    <3>4. QED
      BY <3>1, <3>3
  <2>4. QED
    BY <2>2, <2>3
<1>4. proc[p].at = "none" => Children(p) = {}
  <2>1. SUFFICES ASSUME proc[p].at = "none", NEW q \in Children(p) PROVE FALSE
    OBVIOUS
  <2>2. PICK i \in 1 .. n : c[i] = q /\ i > 1 /\ c[i - 1] = p
    BY <1>1
  <2>3. i - 1 \in 1 .. n
    BY <2>2
  <2>4. QED
    BY <2>1, <2>2, <2>3 DEF Chained
<1>5. QED
  BY <1>2, <1>3, <1>4
----------------------------------------------------------------------------
(* The chain, step by step. *)

(* A step of one process that goes on. *)
LEMMA GoesOn ==
    ASSUME RunsInv, NEW p \in Processes, NEW s,
           proc' = [proc EXCEPT ![p] = s],
           DOMAIN s = Fields, s.parent = proc[p].parent,
           s.at \notin {"none", "zombie"},
           proc[p].at \notin {"none", "zombie"},
           \/ proc[p].at \notin {"forked", "waiting"}
           \/ s.at \in {"forked", "waiting"}
           \/ Children(p) = {}
    PROVE  RunsInv'
<1>n. PICK n \in Nat : \E c \in [1 .. n -> Processes] : Chained(proc, n, c)
  BY DEF RunsInv, ChainInv
<1>c. PICK c \in [1 .. n -> Processes] : Chained(proc, n, c)
  BY <1>n
<1>2. /\ proc' = [q \in Processes |-> proc'[q]]
      /\ proc'[p] = s
      /\ \A q \in Processes \ {p} : proc'[q] = proc[q]
  BY DEF RunsInv, RecordsInv
<1>3. RecordsInv'
  BY <1>2 DEF RunsInv, RecordsInv
<1>4. ASSUME proc[p].at \in {"forked", "waiting"}
      PROVE  s.at \in {"forked", "waiting"} \/ p = c[n]
  <2>1. PICK i \in 1 .. n : c[i] = p
    BY <1>c, <1>4 DEF Chained
  <2>2. CASE i = n
    BY <2>1, <2>2
  <2>3. CASE i # n
    <3>1. i \in 1 .. n - 1
      BY <2>3
    <3>2. Children(p) = {c[i + 1]}
      BY <1>c, <2>1, <3>1, OneChild
    <3>3. QED
      BY <1>4, <3>2
  <2>4. QED
    BY <2>2, <2>3
<1>5. Chained(proc', n, c)
  BY <1>c, <1>2, <1>4, ChainSame
<1>6. QED
  BY <1>3, <1>5 DEF RunsInv, ChainInv

(* The end of a process that has no children. *)
LEMMA Ends ==
    ASSUME RunsInv, NEW p \in Processes, Exit(p),
           proc[p].at \notin {"none", "forked", "waiting", "zombie"}
    PROVE  RunsInv'
<1>n. PICK n \in Nat : \E c \in [1 .. n -> Processes] : Chained(proc, n, c)
  BY DEF RunsInv, ChainInv
<1>c. PICK c \in [1 .. n -> Processes] : Chained(proc, n, c)
  BY <1>n
<1>2. n > 0 /\ c[n] = p
  BY <1>c, LastRuns
<1>3. Children(p) = {}
  BY <1>c, <1>2, OneChild
<1>4. /\ proc' = [q \in Processes |-> proc'[q]]
      /\ proc'[p] = Gone(p)
      /\ \A q \in Processes \ {p} : proc'[q] = proc[q]
  BY <1>3 DEF Exit
<1>5. /\ DOMAIN Gone(p) = Fields
      /\ proc[p].parent = 0 => Gone(p).at = "none"
      /\ proc[p].parent # 0 =>
            Gone(p).at = "zombie" /\ Gone(p).parent = proc[p].parent
  BY NobodyFields DEF Gone, Fields
<1>6. RecordsInv'
  BY <1>4, <1>5 DEF RunsInv, RecordsInv
<1>7. proc[p].parent = IF n = 1 THEN 0 ELSE c[n - 1]
  BY <1>c, <1>2 DEF Chained
<1>8. CASE n = 1
  <2>1. \A q \in Processes : proc'[q].at = "none"
    <3>1. \A q \in Processes \ {p} : proc[q].at = "none"
      BY <1>c, <1>2, <1>8 DEF Chained
    <3>2. QED
      BY <1>4, <1>5, <1>7, <1>8, <3>1
  <2>2. PICK d : d = [i \in 1 .. 0 |-> p]
    OBVIOUS
  <2>3. d \in [1 .. 0 -> Processes] /\ Chained(proc', 0, d)
    BY <2>1, <2>2 DEF Chained
  <2>4. QED
    BY <1>6, <2>3 DEF RunsInv, ChainInv
<1>9. CASE n # 1
  <2>1. n \in 1 .. n /\ n - 1 \in 1 .. n
    BY <1>2, <1>9
  <2>2. Gone(p).at = "zombie" /\ Gone(p).parent = proc[p].parent
    BY <1>5, <1>7, <1>9, <2>1 DEF Processes
  <2>3. \A q \in Processes : proc'[q].at # "none" => \E i \in 1 .. n : c[i] = q
    BY <1>c, <1>2, <1>4, <2>1 DEF Chained
  <2>4. ASSUME NEW i \in 1 .. n
        PROVE  /\ proc'[c[i]].at # "none"
               /\ proc'[c[i]].parent = IF i = 1 THEN 0 ELSE c[i - 1]
               /\ i < n => proc'[c[i]].at \in {"forked", "waiting"}
               /\ proc'[c[i]].at = "zombie" => i # 1
    <3>1. CASE i = n
      BY <1>2, <1>4, <1>7, <1>9, <2>2, <3>1
    <3>2. CASE i # n
      <4>1. c[i] # p /\ c[i] \in Processes
        BY <1>c, <1>2, <2>1, <3>2 DEF Chained
      <4>2. proc'[c[i]] = proc[c[i]]
        BY <1>4, <4>1
      <4>3. QED
        BY <1>c, <4>2 DEF Chained
    <3>3. QED
      BY <3>1, <3>2
  <2>5. Chained(proc', n, c)
    BY <1>c, <2>3, <2>4, Zenon DEF Chained
  <2>6. QED
    BY <1>6, <2>5 DEF RunsInv, ChainInv
<1>10. QED
  BY <1>8, <1>9

(* A child is the new last. *)
LEMMA Forks ==
    ASSUME RunsInv, NEW p \in Processes, Fork(p)
    PROVE  RunsInv'
<1> DEFINE free == {x \in Processes : proc[x].at = "none"}
           k == Lowest(free)
<1>1. proc[p].at = "loop"
  BY DEF Fork
<1>n. PICK n \in Nat : \E c \in [1 .. n -> Processes] : Chained(proc, n, c)
  BY DEF RunsInv, ChainInv
<1>c. PICK c \in [1 .. n -> Processes] : Chained(proc, n, c)
  BY <1>n
<1>3. n > 0 /\ c[n] = p
  BY <1>1, <1>c, LastRuns
<1>4. PICK s : s = [proc[p] EXCEPT !.at = "forked"]
  OBVIOUS
<1>5. DOMAIN s = Fields /\ s.at = "forked" /\ s.parent = proc[p].parent
  BY <1>4 DEF RunsInv, RecordsInv, Fields
<1>6. CASE free = {}
  <2>1. proc' = [x \in Processes |-> IF x = p THEN s ELSE proc[x]]
    BY <1>4, <1>6 DEF Fork
  <2>2. proc' = [proc EXCEPT ![p] = s]
    BY <2>1 DEF RunsInv, RecordsInv
  <2>3. QED
    BY <1>1, <1>5, <2>2, GoesOn
<1>7. CASE free # {}
  <2>1. free \in SUBSET Nat
    BY DEF Processes
  <2>2. k \in free
    <3> HIDE DEF free
    <3>1. QED
      BY <1>7, <2>1, LowestOf DEF k
  <2>3. k \in Processes /\ proc[k].at = "none" /\ k # p
    BY <1>1, <2>2
  <2>4. PICK t : t = [proc[p] EXCEPT !.at = "child", !.parent = p]
    OBVIOUS
  <2>5. DOMAIN t = Fields /\ t.at = "child" /\ t.parent = p
    BY <2>4 DEF RunsInv, RecordsInv, Fields
  <2>6. /\ proc' = [x \in Processes |-> proc'[x]]
        /\ proc'[p] = s
        /\ proc'[k] = t
        /\ \A x \in Processes \ {p, k} : proc'[x] = proc[x]
    BY <1>4, <1>7, <2>3, <2>4, Zenon DEF Fork
  <2>7. RecordsInv'
    BY <1>5, <2>5, <2>6 DEF RunsInv, RecordsInv
  <2>8. PICK d : d = [i \in 1 .. n + 1 |-> IF i = n + 1 THEN k ELSE c[i]]
    OBVIOUS
  <2>9. /\ n + 1 \in Nat
        /\ d \in [1 .. n + 1 -> Processes]
        /\ d[n + 1] = k
        /\ \A i \in 1 .. n : d[i] = c[i] /\ i \in 1 .. n + 1
        /\ \A i \in 1 .. n + 1 : i \in 1 .. n \/ i = n + 1
        /\ n + 1 \in 1 .. n + 1
    BY <2>3, <2>8
  <2>10. \A i \in 1 .. n : c[i] # k
    BY <1>c, <2>3 DEF Chained
  <2>11. \A i, j \in 1 .. n + 1 : d[i] = d[j] => i = j
    <3>1. \A i, j \in 1 .. n : c[i] = c[j] => i = j
      BY <1>c, Zenon DEF Chained
    <3>2. QED
      BY <2>9, <2>10, <3>1
  <2>12. ASSUME NEW x \in Processes, proc'[x].at # "none"
         PROVE  \E i \in 1 .. n + 1 : d[i] = x
    <3>1. CASE x = k
      BY <2>9, <3>1
    <3>2. CASE x # k
      <4>1. proc[x].at # "none"
        BY <1>1, <2>6, <2>12, <3>2
      <4>2. PICK i \in 1 .. n : c[i] = x
        BY <1>c, <4>1 DEF Chained
      <4>3. QED
        BY <2>9, <4>2
    <3>3. QED
      BY <3>1, <3>2
  <2>13. ASSUME NEW i \in 1 .. n + 1
         PROVE  /\ proc'[d[i]].at # "none"
                /\ proc'[d[i]].parent = IF i = 1 THEN 0 ELSE d[i - 1]
                /\ i < n + 1 => proc'[d[i]].at \in {"forked", "waiting"}
                /\ proc'[d[i]].at = "zombie" => i # 1
    <3>1. CASE i = n + 1
      <4>1. i # 1 /\ d[i - 1] = p
        BY <1>3, <2>9, <3>1
      <4>2. QED
        BY <2>5, <2>6, <2>9, <3>1, <4>1
    <3>2. CASE i = n
      <4>1. i \in 1 .. n /\ d[i] = p
        BY <1>3, <2>9, <3>2
      <4>2. i # 1 => i - 1 \in 1 .. n /\ d[i - 1] = c[i - 1]
        BY <2>9, <3>2
      <4>3. proc'[d[i]].parent = proc[c[i]].parent
        BY <1>3, <1>5, <2>6, <3>2, <4>1
      <4>4. proc[c[i]].parent = IF i = 1 THEN 0 ELSE c[i - 1]
        BY <1>c, <4>1 DEF Chained
      <4>5. QED
        BY <1>5, <2>6, <4>1, <4>2, <4>3, <4>4
    <3>3. CASE i # n + 1 /\ i # n
      <4>1. i \in 1 .. n /\ d[i] = c[i] /\ i < n
        BY <2>9, <3>3
      <4>2. i # 1 => i - 1 \in 1 .. n /\ d[i - 1] = c[i - 1]
        BY <2>9, <4>1
      <4>3. c[i] # p /\ c[i] # k /\ c[i] \in Processes
        BY <1>c, <1>3, <2>10, <4>1 DEF Chained
      <4>4. proc'[d[i]] = proc[c[i]]
        BY <2>6, <4>1, <4>3
      <4>5. QED
        BY <1>c, <4>1, <4>2, <4>4 DEF Chained
    <3>4. QED
      BY <3>1, <3>2, <3>3
  <2>14. d[1] = 1
    BY <1>c, <1>3, <2>9 DEF Chained
  <2>15. Chained(proc', n + 1, d)
    BY <2>11, <2>12, <2>13, <2>14, Zenon DEF Chained
  <2>16. QED
    BY <2>7, <2>9, <2>15 DEF RunsInv, ChainInv
<1>8. QED
  BY <1>6, <1>7

(* A child that has ended is the last; without it its parent is. *)
LEMMA Reaps ==
    ASSUME RunsInv, NEW p \in Processes, NEW k \in Children(p),
           proc[p].at = "waiting", proc[k].at = "zombie",
           proc' = [proc EXCEPT ![p] = Advanced(@), ![k] = Nobody]
    PROVE  RunsInv'
<1>n. PICK n \in Nat : \E c \in [1 .. n -> Processes] : Chained(proc, n, c)
  BY DEF RunsInv, ChainInv
<1>c. PICK c \in [1 .. n -> Processes] : Chained(proc, n, c)
  BY <1>n
<1>2. k \in Processes /\ k # p
  BY DEF Children
<1>3. PICK s : s = Advanced(proc[p])
  OBVIOUS
<1>4. DOMAIN s = Fields /\ s.at \in {"loop", "prompt"} /\ s.parent = proc[p].parent
  BY <1>3, AdvancedFields DEF RunsInv, RecordsInv
<1>5. /\ proc' = [x \in Processes |-> proc'[x]]
      /\ proc'[p] = s
      /\ proc'[k] = Nobody
      /\ \A x \in Processes \ {p, k} : proc'[x] = proc[x]
  BY <1>2, <1>3 DEF RunsInv, RecordsInv
<1>6. RecordsInv'
  BY <1>4, <1>5, NobodyFields DEF RunsInv, RecordsInv
<1>7. n > 0 /\ c[n] = k
  BY <1>c, <1>2, LastRuns
<1>8. PICK m \in 1 .. n : c[m] = p
  BY <1>c DEF Chained
<1>9. m # n
  BY <1>2, <1>7, <1>8
<1>10. m \in 1 .. n - 1
  BY <1>9
<1>11. Children(p) = {c[m + 1]}
  BY <1>c, <1>8, <1>10, OneChild
<1>12. m + 1 \in 1 .. n /\ n \in 1 .. n /\ c[m + 1] = c[n]
  BY <1>7, <1>10, <1>11
<1>13. m + 1 = n
  BY <1>c, <1>12 DEF Chained
<1>14. PICK h \in Nat : h = m
  OBVIOUS
<1>15. h > 0 /\ h + 1 = n /\ c[h] = p /\ (\A i \in 1 .. h : i \in 1 .. n)
  BY <1>8, <1>13, <1>14
<1>16. PICK d : d = [i \in 1 .. h |-> c[i]]
  OBVIOUS
<1>17. d \in [1 .. h -> Processes] /\ \A i \in 1 .. h : d[i] = c[i]
  BY <1>15, <1>16
<1>18. \A i, j \in 1 .. h : d[i] = d[j] => i = j
  <2>1. \A i, j \in 1 .. n : c[i] = c[j] => i = j
    BY <1>c, Zenon DEF Chained
  <2>2. QED
    BY <1>15, <1>17, <2>1
<1>19. ASSUME NEW x \in Processes, proc'[x].at # "none"
       PROVE  \E i \in 1 .. h : d[i] = x
  <2>1. x # k
    BY <1>5, <1>19, NobodyFields
  <2>2. proc[x].at # "none"
    BY <1>5, <1>19, <2>1
  <2>3. PICK i \in 1 .. n : c[i] = x
    BY <1>c, <2>2 DEF Chained
  <2>4. i \in 1 .. h
    BY <1>7, <1>15, <2>1, <2>3
  <2>5. QED
    BY <1>17, <2>3, <2>4
<1>20. ASSUME NEW i \in 1 .. h
       PROVE  /\ proc'[d[i]].at # "none"
              /\ proc'[d[i]].parent = IF i = 1 THEN 0 ELSE d[i - 1]
              /\ i < h => proc'[d[i]].at \in {"forked", "waiting"}
              /\ proc'[d[i]].at = "zombie" => i # 1
  <2>1. i \in 1 .. n /\ i # n /\ d[i] = c[i] /\ c[i] \in Processes
    BY <1>15, <1>17
  <2>2. i # 1 => i - 1 \in 1 .. h /\ d[i - 1] = c[i - 1]
    BY <1>17
  <2>3. c[i] # k
    BY <1>c, <1>7, <1>12, <2>1 DEF Chained
  <2>4. proc'[d[i]].parent = proc[c[i]].parent
    BY <1>4, <1>5, <2>1, <2>3
  <2>5. proc[c[i]].parent = IF i = 1 THEN 0 ELSE c[i - 1]
    BY <1>c, <2>1 DEF Chained
  <2>6. CASE i = h
    BY <1>4, <1>5, <1>15, <2>1, <2>2, <2>4, <2>5, <2>6
  <2>7. CASE i # h
    <3>1. c[i] # p /\ i < h /\ i < n /\ h \in 1 .. n
      BY <1>c, <1>15, <2>1, <2>7 DEF Chained
    <3>2. proc'[d[i]] = proc[c[i]]
      BY <1>5, <2>1, <2>3, <3>1
    <3>3. proc[c[i]].at \in {"forked", "waiting"}
      BY <1>c, <2>1, <3>1 DEF Chained
    <3>4. QED
      BY <2>2, <2>4, <2>5, <3>2, <3>3
  <2>8. QED
    BY <2>6, <2>7
<1>21. d[1] = 1
  BY <1>c, <1>7, <1>15, <1>17 DEF Chained
<1>22. Chained(proc', h, d)
  BY <1>18, <1>19, <1>20, <1>21, Zenon DEF Chained
<1>23. QED
  BY <1>6, <1>17, <1>22 DEF RunsInv, ChainInv

LEMMA RunsHeld == RunsInv /\ Next => RunsInv'
<1> SUFFICES ASSUME RunsInv, NEW p \in Processes, User(p) \/ Step(p)
             PROVE  RunsInv'
  BY DEF Next
<1> USE DEF RunsInv, RecordsInv
<1>1. DOMAIN proc[p] = Fields
  OBVIOUS
<1>2. CASE ReadTerminal(p)
  <2>1. CASE Exit(p)
    BY <1>2, <2>1, Ends DEF ReadTerminal
  <2>2. ASSUME NEW line, proc' = [proc EXCEPT ![p] = Parsed(@, line)]
        PROVE  RunsInv'
    BY <1>1, <1>2, <2>2, ParsedFields, GoesOn DEF ReadTerminal
  <2>3. QED
    BY <1>2, <2>1, <2>2, Zenon DEF ReadTerminal
<1>3. CASE ReadInput(p)
  <2>1. CASE Exit(p)
    BY <1>3, <2>1, Ends DEF ReadInput
  <2>2. ASSUME NEW line, proc' = [proc EXCEPT ![p] = Parsed(@, line)]
        PROVE  RunsInv'
    BY <1>1, <1>3, <2>2, ParsedFields, GoesOn DEF ReadInput
  <2>3. QED
    BY <1>3, <2>1, <2>2, Zenon DEF ReadInput
<1>4. CASE Check(p)
  <2>1. CASE Exit(p)
    BY <1>4, <2>1, Ends DEF Check
  <2>2. PICK s : s = [proc[p] EXCEPT !.line = <<>>, !.pipeLine = Nobody.pipeLine]
    OBVIOUS
  <2>3. DOMAIN s = Fields /\ s.at = proc[p].at /\ s.parent = proc[p].parent
    BY <1>1, <2>2 DEF Fields
  <2>4. proc[p].at = "read"
    BY <1>4, <2>2, <2>3, Zenon DEF Check
  <2>5. CASE proc' = [proc EXCEPT ![p] = [s EXCEPT !.at = "prompt"]]
    <3>1. PICK t : t = [s EXCEPT !.at = "prompt"]
      OBVIOUS
    <3>2. DOMAIN t = Fields /\ t.at = "prompt" /\ t.parent = proc[p].parent
      BY <2>3, <3>1 DEF Fields
    <3>3. proc' = [proc EXCEPT ![p] = t]
      BY <2>5, <3>1
    <3>4. QED
      BY <2>4, <3>2, <3>3, GoesOn
  <2>6. CASE proc' = [proc EXCEPT ![p] = Started(s, proc[p].pipeLine.commands)]
    BY <2>3, <2>4, <2>6, StartedFields, GoesOn
  <2>7. QED
    BY <1>4, <2>1, <2>2, <2>5, <2>6, Zenon DEF Check
<1>5. CASE Again(p)
  BY <1>1, <1>5, StartedFields, GoesOn DEF Again
<1>6. CASE Fork(p)
  BY <1>6, Forks
<1>7. CASE CloseWrite(p)
  <2>1. PICK fd :
           proc' = [proc EXCEPT ![p].at = "waiting", ![p].fd = fd]
    BY <1>7 DEF CloseWrite
  <2>2. PICK s : s = [proc[p] EXCEPT !.at = "waiting", !.fd = fd]
    OBVIOUS
  <2>3. DOMAIN s = Fields /\ s.at = "waiting" /\ s.parent = proc[p].parent
    BY <1>1, <2>2 DEF Fields
  <2>4. proc' = [proc EXCEPT ![p] = s]
    BY <2>1, <2>2
  <2>5. proc[p].at = "forked"
    BY <1>7 DEF CloseWrite
  <2>6. QED
    BY <2>3, <2>4, <2>5, GoesOn
<1>8. CASE Wait(p)
  <2>1. proc[p].at = "waiting"
    BY <1>8 DEF Wait
  <2>2. CASE Children(p) = {} /\ proc' = [proc EXCEPT ![p] = Advanced(@)]
    BY <1>1, <2>1, <2>2, AdvancedFields, GoesOn
  <2>3. ASSUME NEW c \in Children(p), proc[c].at = "zombie",
               proc' = [proc EXCEPT ![p] = Advanced(@), ![c] = Nobody]
        PROVE  RunsInv'
    BY <2>1, <2>3, Reaps
  <2>4. QED
    BY <1>8, <2>2, <2>3, Zenon DEF Wait
<1>9. CASE Child(p)
  <2>1. proc[p].at = "child"
    BY <1>9 DEF Child
  <2>2. PICK in : in = [proc[p] EXCEPT
                 !.fd = Redirected(@, proc[p].commands[proc[p].current].redirect_in,
                                   stdIn)]
    OBVIOUS
  <2>3. PICK ready : ready = [proc[p] EXCEPT !.fd = Connected(proc[p])]
    OBVIOUS
  <2>4. PICK runs : runs = [ready EXCEPT
                 !.at = "program",
                 !.left = IF proc[p].commands[proc[p].current].args[1] \in Producers
                          THEN OUTPUT ELSE 0]
    OBVIOUS
  <2>5. /\ DOMAIN in = Fields /\ in.parent = proc[p].parent
        /\ DOMAIN ready = Fields /\ ready.parent = proc[p].parent
    BY <1>1, <2>2, <2>3 DEF Fields
  <2>6. DOMAIN runs = Fields /\ runs.parent = proc[p].parent /\ runs.at = "program"
    BY <2>4, <2>5 DEF Fields
  <2>7. PICK s \in {Prompting(proc[p]), Prompting(in), runs, Advanced(ready)} :
           proc' = [proc EXCEPT ![p] = s]
    BY <1>9, <2>2, <2>3, <2>4, Zenon DEF Child
  <2>8. /\ DOMAIN s = Fields /\ s.parent = proc[p].parent
        /\ s.at \in {"prompt", "program", "loop"}
    BY <1>1, <2>5, <2>6, <2>7, PromptingFields, AdvancedFields
  <2>9. QED
    BY <2>1, <2>7, <2>8, GoesOn
<1>10. CASE Write(p) \/ Read(p) \/ ReadTyped(p) \/ Finish(p)
  <2>1. proc[p].at = "program"
    BY <1>10, Zenon DEF Write, Read, ReadTyped, Finish
  <2>2. CASE Exit(p)
    BY <2>1, <2>2, Ends
  <2>3. ASSUME NEW n, proc' = [proc EXCEPT ![p].left = n]
        PROVE  RunsInv'
    <3>1. PICK s : s = [proc[p] EXCEPT !.left = n]
      OBVIOUS
    <3>2. DOMAIN s = Fields /\ s.parent = proc[p].parent /\ s.at = "program"
      BY <1>1, <2>1, <3>1 DEF Fields
    <3>3. proc' = [proc EXCEPT ![p] = s]
      BY <2>3, <3>1
    <3>4. QED
      BY <2>1, <3>2, <3>3, GoesOn
  <2>4. \/ Exit(p)
        \/ \E n : proc' = [proc EXCEPT ![p].left = n]
    <3>1. CASE Write(p)
      BY <3>1 DEF Write
    <3>2. CASE Read(p)
      BY <3>2 DEF Read
    <3>3. CASE ReadTyped(p) \/ Finish(p)
      BY <3>3 DEF ReadTyped, Finish
    <3>4. QED
      BY <1>10, <3>1, <3>2, <3>3
  <2>5. QED
    BY <2>2, <2>3, <2>4
<1>11. QED
  BY <1>2, <1>3, <1>4, <1>5, <1>6, <1>7, <1>8, <1>9, <1>10 DEF User, Step

LEMMA RunsInit == Init => RunsInv
<1> SUFFICES ASSUME Init PROVE RunsInv
  OBVIOUS
<1>1. PICK s : s = [Nobody EXCEPT !.at = "prompt", !.fd = Fresh]
  OBVIOUS
<1>2. DOMAIN s = Fields /\ s.at = "prompt" /\ s.parent = 0
  BY <1>1 DEF Nobody, Fields
<1>3. proc = [p \in Processes |-> IF p = 1 THEN s ELSE Nobody]
  BY <1>1 DEF Init
<1>4. RecordsInv
  BY <1>2, <1>3, NobodyFields DEF RecordsInv
<1>5. 1 \in Processes
  BY ShellAssumption DEF Processes
<1>6. PICK c : c = [i \in 1 .. 1 |-> 1]
  OBVIOUS
<1>7. c \in [1 .. 1 -> Processes] /\ c[1] = 1
  BY <1>5, <1>6
<1>8. \A i \in 1 .. 1 : i = 1
  OBVIOUS
<1>9. Chained(proc, 1, c)
  BY <1>2, <1>3, <1>5, <1>7, <1>8, NobodyFields DEF Chained
<1>10. QED
  BY <1>4, <1>7, <1>9 DEF RunsInv, ChainInv

LEMMA RunsAlways == Spec => []RunsInv
<1>1. RunsInv /\ UNCHANGED shellVars => RunsInv'
  <2>1. SUFFICES ASSUME RunsInv, UNCHANGED shellVars PROVE RunsInv'
    OBVIOUS
  <2>2. proc' = proc
    BY <2>1 DEF shellVars
  <2>3. RecordsInv'
    BY <2>1, <2>2 DEF RunsInv, RecordsInv
  <2>4. ChainInv'
    BY <2>1, <2>2, Zenon DEF RunsInv, ChainInv
  <2>5. QED
    BY <2>3, <2>4 DEF RunsInv
<1>2. QED
  BY RunsInit, RunsHeld, <1>1, PTL DEF Spec
----------------------------------------------------------------------------
(* At most one process reads the terminal, and nobody has two children:    *)
(* however many commands could not be run, the shells that this leaves     *)
(* behind wait for one another.                                            *)
THEOREM ShellsTakeTurns == Spec => []OneReader
<1>1. RunsInv => OneReader
  <2> SUFFICES ASSUME RunsInv PROVE OneReader
    OBVIOUS
  <2>1. PICK n \in Nat : \E c \in [1 .. n -> Processes] : Chained(proc, n, c)
    BY DEF RunsInv, ChainInv
  <2>2. PICK c \in [1 .. n -> Processes] : Chained(proc, n, c)
    BY <2>1
  <2>3. ASSUME NEW p \in Processes PROVE Cardinality(Children(p)) <= 1
    <3>1. CASE Children(p) = {}
      BY <3>1, FS_EmptySet
    <3>2. CASE Children(p) # {}
      <4>1. PICK i \in 1 .. n : c[i] = p
        <5>1. proc[p].at # "none"
          BY <2>2, <3>2, OneChild
        <5>2. QED
          BY <2>2, <5>1 DEF Chained
      <4>2. i \in 1 .. n - 1
        <5>1. i # n
          BY <2>2, <3>2, <4>1, OneChild
        <5>2. QED
          BY <5>1
      <4>3. Children(p) = {c[i + 1]}
        BY <2>2, <4>1, <4>2, OneChild
      <4>4. Cardinality(Children(p)) = 1
        BY <4>3, FS_Singleton, Zenon
      <4>5. QED
        BY <4>4
    <3>3. QED
      BY <3>1, <3>2
  <2>4. ASSUME NEW S \in SUBSET Processes,
               \A p \in S : proc[p].at \in {"prompt", "program"}
        PROVE  Cardinality(S) <= 1
    <3>1. CASE S = {}
      BY <3>1, FS_EmptySet
    <3>2. CASE S # {}
      <4>1. \A p \in S : p = c[n]
        BY <2>2, <2>4, LastRuns
      <4>2. S = {c[n]}
        BY <3>2, <4>1
      <4>3. Cardinality(S) = 1
        BY <4>2, FS_Singleton, Zenon
      <4>4. QED
        BY <4>3
    <3>3. QED
      BY <3>1, <3>2
  <2>5. QED
    BY <2>3, <2>4 DEF OneReader
<1>2. QED
  BY <1>1, RunsAlways, PTL
----------------------------------------------------------------------------
(* The parser: whatever is typed, the pipeline it builds has a command.    *)

Built(commands) ==
    Len(commands) \in Nat \ {0} /\ DOMAIN commands = 1 .. Len(commands)

(* The loop of pipeline_build, as the fold defines it: what it has made of *)
(* the characters at the places of a set, taken in their order.            *)
Made(f, line, s) ==
    IF s = {} THEN Unread
    ELSE Turn(f[s \ {Max(s)}], line[Max(s)], Len(line) + 1)

Loop(line, places, f) == f = [s \in SUBSET places |-> Made(f, line, s)]

(* Its definition is recursive, and it has a solution. *)
LEMMA LoopRuns ==
    ASSUME NEW line, NEW n \in Nat
    PROVE  \E f : Loop(line, 1 .. n, f)
<1> DEFINE S == {k \in Nat : ~ \E f : Loop(line, 1 .. k, f)}
           k == Lowest(S)
<1>1. SUFFICES ASSUME S # {} PROVE FALSE
  OBVIOUS
<1>2. S \in SUBSET Nat
  OBVIOUS
<1>3. k \in S /\ \A j \in S : k <= j
  <2> HIDE DEF S
  <2>1. QED
    BY <1>1, <1>2, LowestOf
<1>4. CASE k = 0
  <2>1. PICK f : f = [s \in SUBSET (1 .. 0) |-> Unread]
    OBVIOUS
  <2>2. SUBSET (1 .. 0) = {{}}
    OBVIOUS
  <2>3. \A s \in SUBSET (1 .. 0) : Made(f, line, s) = Unread
    BY <2>2 DEF Made
  <2>4. Loop(line, 1 .. 0, f)
    BY <2>1, <2>3 DEF Loop
  <2>5. QED
    BY <1>3, <1>4, <2>4
<1>5. CASE k # 0
  <2>1. PICK j \in Nat : k = j + 1
    <3>1. k \in Nat
      BY <1>3
    <3> HIDE DEF k
    <3>2. k - 1 \in Nat /\ k = (k - 1) + 1
      BY <1>5, <3>1
    <3>3. QED
      BY <3>2
  <2>2. PICK f : Loop(line, 1 .. j, f)
    <3>1. j \notin S
      <4> HIDE DEF k, S
      <4>1. QED
        BY <1>3, <2>1
    <3>2. QED
      BY <3>1
  <2>3. PICK g : g = [s \in SUBSET (1 .. k) |->
                        IF k \in s THEN Turn(f[s \ {k}], line[k], Len(line) + 1)
                        ELSE f[s]]
    OBVIOUS
  <2> HIDE DEF k, S
  <2>4. ASSUME NEW s \in SUBSET (1 .. k) PROVE g[s] = Made(g, line, s)
    <3>1. CASE k \in s
      <4>1. Max(s) = k
        <5>1. k \in s /\ s \subseteq Nat /\ \A y \in s : k >= y
          BY <2>1, <3>1
        <5>2. \A x \in s : (\A y \in s : x >= y) => x = k
          BY <5>1
        <5>3. QED
          BY <5>1, <5>2 DEF Max
      <4>2. s \ {k} \in SUBSET (1 .. k) /\ k \notin s \ {k}
        OBVIOUS
      <4>3. g[s \ {k}] = f[s \ {k}]
        BY <2>3, <4>2
      <4>4. QED
        BY <2>3, <3>1, <4>1, <4>3 DEF Made
    <3>2. CASE k \notin s
      <4>1. s \in SUBSET (1 .. j)
        BY <2>1, <3>2
      <4>2. g[s] = Made(f, line, s)
        BY <2>2, <2>3, <3>2, <4>1 DEF Loop
      <4>3. g[s \ {Max(s)}] = f[s \ {Max(s)}]
        <5>1. s \ {Max(s)} \in SUBSET (1 .. k) /\ k \notin s \ {Max(s)}
          BY <3>2
        <5>2. QED
          BY <2>3, <5>1
      <4>4. QED
        BY <4>2, <4>3 DEF Made
    <3>3. QED
      BY <3>1, <3>2
  <2>5. g = [s \in SUBSET (1 .. k) |-> g[s]]
    BY <2>3
  <2>6. Loop(line, 1 .. k, g)
    BY <2>4, <2>5 DEF Loop
  <2>7. QED
    BY <1>3, <2>6 DEF S
<1>6. QED
  BY <1>4, <1>5

LoopOver(line) == CHOOSE f : Loop(line, DOMAIN line, f)

LEMMA PipelineLoop ==
    ASSUME NEW line, NEW s, s = LoopOver(line)[DOMAIN line]
    PROVE  pipeline_build(line).commands =
             Terminated(s.commands)
<1> DEFINE size == Len(line) + 1
           Nxt(r, letter) == Turn(r, letter, size)
<1>1. FoldLeft(Nxt, Unread, line) = LoopOver(line)[DOMAIN line]
  BY Zenon DEF FoldLeft, MapThenFoldSet, LoopOver, Loop, Made
<1>2. QED
  BY <1>1, Zenon DEF pipeline_build

(* A sequence that is not empty, of whatever. *)
List(c) == \E S : c \in Seq(S) /\ c # <<>>

LEMMA ListFacts ==
    ASSUME NEW c, List(c), NEW v
    PROVE  /\ Built(c)
           /\ \A i : List([c EXCEPT ![i] = v])
           /\ List(Append(c, v))
           /\ List(Terminated(c))
<1>1. PICK S : c \in Seq(S) /\ c # <<>>
  BY DEF List
<1>2. Len(c) \in Nat \ {0} /\ DOMAIN c = 1 .. Len(c)
  BY <1>1
<1>3. PICK T : T = S \cup {v}
  OBVIOUS
<1>4. c \in Seq(T) /\ v \in T
  BY <1>1, <1>2, <1>3
<1>5. ASSUME NEW i PROVE List([c EXCEPT ![i] = v])
  <2>1. PICK d : d = [c EXCEPT ![i] = v]
    OBVIOUS
  <2>2. d \in [1 .. Len(c) -> T]
    <3>1. \A k \in 1 .. Len(c) : c[k] \in T
      BY <1>2, <1>4
    <3>2. d = [k \in 1 .. Len(c) |-> IF k = i THEN v ELSE c[k]]
      BY <1>2, <2>1
    <3>3. QED
      BY <1>4, <3>1, <3>2
  <2>3. d \in Seq(T) /\ d # <<>>
    BY <1>2, <2>2
  <2>4. QED
    BY <2>1, <2>3 DEF List
<1>6. List(Append(c, v))
  <2>1. PICK d : d = Append(c, v)
    OBVIOUS
  <2>2. d \in Seq(T) /\ Len(d) = Len(c) + 1
    BY <1>4, <2>1
  <2>3. d # <<>>
    BY <1>2, <2>2
  <2>4. QED
    BY <2>1, <2>2, <2>3 DEF List
<1>7. List(Terminated(c))
  <2>1. PICK w : w = [c[Len(c)] EXCEPT !.args = IF Last(@) = <<>> THEN Front(@) ELSE @]
    OBVIOUS
  <2>2. Terminated(c) = [c EXCEPT ![Len(c)] = w]
    BY <2>1 DEF Terminated
  <2>3. w \in S \cup {w} /\ c \in Seq(S \cup {w})
    BY <1>1, <1>2
  <2>4. PICK d : d = [c EXCEPT ![Len(c)] = w]
    OBVIOUS
  <2>5. d \in [1 .. Len(c) -> S \cup {w}]
    BY <1>2, <2>3, <2>4
  <2>6. d \in Seq(S \cup {w}) /\ d # <<>>
    BY <1>2, <2>5
  <2>7. QED
    BY <2>2, <2>4, <2>6 DEF List
<1>8. QED
  BY <1>2, <1>5, <1>6, <1>7 DEF Built

ParserFields == {"commands", "inCheck", "outCheck", "riCheck", "roCheck",
                 "paths", "inputPos", "background", "doubleRedirect",
                 "ampersandPos"}

HasCommand(s) == DOMAIN s = ParserFields /\ List(s.commands)

(* A turn of the loop keeps a command to put characters into. *)
LEMMA TurnHasCommand ==
    ASSUME NEW s, HasCommand(s), NEW letter, NEW size
    PROVE  HasCommand(Turn(s, letter, size))
<1>1. PICK r : r = [s EXCEPT !.paths = TRUE]
  OBVIOUS
<1>2. DOMAIN r = ParserFields /\ List(r.commands)
  BY <1>1 DEF HasCommand, ParserFields
<1>3. PICK t : t = CASE letter = "&" -> Ampersand(r, size)
                    [] letter = "<" -> RedirectIn(r)
                    [] letter = ">" -> RedirectOut(r)
                    [] letter = "|" -> Bar(r)
                    [] letter = " " -> Space(r)
                    [] OTHER -> characterInsert(r, letter)
  OBVIOUS
<1>4. DOMAIN t = ParserFields /\ List(t.commands)
  <2>1. HasCommand(Ampersand(r, size))
    BY <1>2 DEF HasCommand, Ampersand, ParserFields
  <2>2. HasCommand(RedirectIn(r))
    BY <1>2 DEF HasCommand, RedirectIn, ParserFields
  <2>3. HasCommand(RedirectOut(r))
    BY <1>2 DEF HasCommand, RedirectOut, ParserFields
  <2>4. HasCommand(Bar(r))
    <3>1. PICK d : d = Append(Terminated(r.commands), newCommand)
      OBVIOUS
    <3>2. List(d)
      BY <1>2, <3>1, ListFacts
    <3>3. Bar(r) = [r EXCEPT !.commands = d, !.paths = FALSE, !.inCheck = FALSE,
                             !.outCheck = FALSE]
      BY <3>1 DEF Bar
    <3>4. QED
      BY <1>2, <3>2, <3>3 DEF HasCommand, ParserFields
  <2>5. ASSUME NEW i, NEW v
        PROVE  HasCommand([r EXCEPT !.commands[i] = v])
    <3>1. PICK c : c = [r.commands EXCEPT ![i] = v]
      OBVIOUS
    <3>2. List(c)
      BY <1>2, <3>1, ListFacts
    <3>3. [r EXCEPT !.commands[i] = v] = [r EXCEPT !.commands = c]
      BY <3>1
    <3>4. QED
      BY <1>2, <3>2, <3>3 DEF HasCommand, ParserFields
  <2>6. HasCommand(Space(r))
    <3>1. PICK v : v = [r.commands[Current(r)] EXCEPT !.args = Append(@, <<>>)]
      OBVIOUS
    <3>2. Space(r) \in {r, [r EXCEPT !.commands[Current(r)] = v]}
      BY <3>1 DEF Space
    <3>3. QED
      BY <1>2, <2>5, <3>2 DEF HasCommand
  <2>7. HasCommand(characterInsert(r, letter))
    <3>1. PICK u : u = [r.commands[Current(r)] EXCEPT !.redirect_in = Append(@, letter)]
      OBVIOUS
    <3>2. PICK v : v = [r.commands[Current(r)] EXCEPT !.redirect_out = Append(@, letter)]
      OBVIOUS
    <3>3. PICK w : w = [r.commands[Current(r)] EXCEPT
                 !.args[Len(r.commands[Current(r)].args)] = Append(@, letter)]
      OBVIOUS
    <3>4. \E x \in {u, v, w} :
             characterInsert(r, letter) =
                [r EXCEPT !.commands[Current(r)] = x]
      BY <3>1, <3>2, <3>3 DEF characterInsert
    <3>5. QED
      BY <2>5, <3>4
  <2>8. QED
    BY <1>3, <2>1, <2>2, <2>3, <2>4, <2>6, <2>7 DEF HasCommand
<1>5. Turn(s, letter, size) = IF Stopped(s) THEN s ELSE [t EXCEPT !.inputPos = @ + 1]
  BY <1>1, <1>3, Zenon DEF Turn
<1>6. PICK u : u = [t EXCEPT !.inputPos = @ + 1]
  OBVIOUS
<1>7. HasCommand(u)
  BY <1>4, <1>6 DEF HasCommand, ParserFields
<1>8. QED
  BY <1>5, <1>6, <1>7

(* Whatever is typed, the pipeline has a command. *)
LEMMA PipelineHasCommand ==
    ASSUME NEW line, Len(line) \in Nat, DOMAIN line = 1 .. Len(line)
    PROVE  Built(pipeline_build(line).commands)
<1> DEFINE n == Len(line)
           f == LoopOver(line)
           S == {k \in Nat : k <= n /\ ~HasCommand(f[1 .. k])}
           k == Lowest(S)
<1>1. Loop(line, 1 .. n, f)
  BY LoopRuns DEF LoopOver
<1> HIDE DEF f
<1>2. ASSUME S # {} PROVE FALSE
  <2>1. k \in S /\ \A j \in S : k <= j
    <3>1. S \in SUBSET Nat
      OBVIOUS
    <3> HIDE DEF S
    <3>2. QED
      BY <1>2, <3>1, LowestOf
  <2>2. k \in Nat /\ k <= n /\ ~HasCommand(f[1 .. k])
    BY <2>1
  <2>3. f[1 .. k] = Made(f, line, 1 .. k)
    <3> HIDE DEF k
    <3>1. 1 .. k \in SUBSET (1 .. n)
      BY <2>2
    <3>2. QED
      BY <1>1, <3>1 DEF Loop
  <2>4. CASE k = 0
    <3> HIDE DEF k
    <3>1. 1 .. k = {}
      BY <2>4
    <3>2. f[1 .. k] = Unread
      BY <2>3, <3>1 DEF Made
    <3>3. <<newCommand>> \in Seq({newCommand}) /\ <<newCommand>> # <<>>
      OBVIOUS
    <3>4. List(Unread.commands)
      BY <3>3 DEF Unread, List
    <3>5. HasCommand(Unread)
      BY <3>4 DEF HasCommand, Unread, ParserFields
    <3>6. QED
      BY <2>2, <3>2, <3>5
  <2>5. CASE k # 0
    <3> HIDE DEF k
    <3>1. PICK j \in Nat : k = j + 1
      <4>1. k - 1 \in Nat /\ k = (k - 1) + 1
        BY <2>2, <2>5
      <4>2. QED
        BY <4>1
    <3>2. HasCommand(f[1 .. j])
      <4>1. j <= n /\ ~(k <= j)
        BY <2>2, <3>1
      <4>2. QED
        BY <2>1, <4>1
    <3>3. Max(1 .. k) = k
      <4>1. k \in 1 .. k /\ \A y \in 1 .. k : k >= y
        BY <3>1
      <4>2. \A x \in 1 .. k : (\A y \in 1 .. k : x >= y) => x = k
        BY <4>1
      <4>3. QED
        BY <4>1, <4>2 DEF Max
    <3>4. 1 .. k # {} /\ (1 .. k) \ {k} = 1 .. j
      <4>1. k \in 1 .. k
        BY <3>1
      <4>2. \A i \in Int : i \in 1 .. j <=> i \in 1 .. k /\ i # k
        BY <3>1
      <4>3. \A i : i \in 1 .. j <=> i \in 1 .. k /\ i # k
        BY <4>2
      <4>4. QED
        BY <4>1, <4>3
    <3>5. f[1 .. k] = Turn(f[1 .. j], line[k], Len(line) + 1)
      BY <2>3, <3>3, <3>4, Zenon DEF Made
    <3>6. QED
      BY <2>2, <3>2, <3>5, TurnHasCommand
  <2>6. QED
    BY <2>4, <2>5
<1>3. n \notin S
  BY <1>2
<1>4. PICK s : s = f[DOMAIN line]
  OBVIOUS
<1>5. HasCommand(s)
  BY <1>3, <1>4
<1>6. List(Terminated(s.commands))
  BY <1>5, ListFacts DEF HasCommand
<1>7. pipeline_build(line).commands = Terminated(s.commands)
  BY <1>4, PipelineLoop DEF f
<1>8. QED
  BY <1>6, <1>7, ListFacts

----------------------------------------------------------------------------
(* Types.  What makes them hold is that a process always has a command to  *)
(* run: pipeline_build never returns a pipeline without one, and Again     *)
(* finds those of the line before.                                         *)

OpenOn == {Closed, Terminal, File} \cup {ReadEnd(q) : q \in Pipes}
                                  \cup {WriteEnd(q) : q \in Pipes}
Table == [Descriptors -> OpenOn]

LEMMA LinesBuilt ==
    \A line \in Lines \cup NestedLines \cup Noise :
        Built(pipeline_build(line).commands)
BY ShellAssumption, PipelineHasCommand

(* A read of the standard input fails. *)
Blind(fd) == fd[stdIn][1] \in {"closed", "write"}

Fit(s) == /\ DOMAIN s = Fields
          /\ s.fd \in Table
          /\ s.flowThru \in Descriptors \X Descriptors

AtWork == {"loop", "forked", "waiting", "child", "program"}

Sound(s) ==
    /\ Fit(s)
    /\ s.at \in {"none", "prompt", "read", "zombie"} \cup AtWork
    /\ s.at \in {"none", "zombie"} => \A d \in Descriptors : s.fd[d] = Closed
    /\ s.at = "read" => ~Blind(s.fd) /\ Built(s.pipeLine.commands)
    /\ s.at = "prompt" /\ Blind(s.fd) => Built(s.commands)
    /\ s.at \in AtWork => /\ Built(s.commands)
                          /\ s.current \in 1 .. Len(s.commands)

TypesInv ==
    /\ proc = [p \in Processes |-> proc[p]]
    /\ \A p \in Processes : /\ Sound(proc[p])
                            /\ proc[p].parent \in (0 .. MAX_PROC) \ {p}
    /\ content \in [Pipes -> 0 .. CAP]

(* Descriptors. *)
LEMMA DescriptorNumbers ==
    /\ Descriptors \subseteq Nat
    /\ stdIn \in Descriptors /\ stdOut \in Descriptors /\ stdErr \in Descriptors
    /\ {Closed, Terminal, File} \subseteq OpenOn
BY ShellAssumption DEF Descriptors, stdIn, stdOut, stdErr, OpenOn

LEMMA FreshTable == Fresh \in Table /\ [d \in Descriptors |-> Closed] \in Table
BY DescriptorNumbers DEF Fresh, Table

LEMMA CloseTable ==
    ASSUME NEW fd \in Table, NEW d
    PROVE  /\ close(fd, d) \in Table
           /\ \A x \in Descriptors : close(fd, d)[x] = IF x = d THEN Closed ELSE fd[x]
BY DescriptorNumbers DEF close, Table

LEMMA DupTable ==
    ASSUME NEW fd \in Table, NEW from \in Descriptors, NEW to
    PROVE  dup2(fd, from, to) \in Table
BY DEF dup2, Table

LEMMA RedirectedTable ==
    ASSUME NEW fd \in Table, NEW path, NEW std,
           path = <<>> \/ \E d \in Descriptors : fd[d] = Closed
    PROVE  Redirected(fd, path, std) \in Table
<1> DEFINE free == {x \in Descriptors : fd[x] = Closed}
<1>1. PICK d : d = Lowest(free)
  OBVIOUS
<1>2. PICK opened : opened = [fd EXCEPT ![d] = File]
  OBVIOUS
<1>3. Redirected(fd, path, std) =
        IF path = <<>> THEN fd ELSE close(dup2(close(opened, std), d, std), d)
  BY <1>1, <1>2 DEF Redirected
<1>4. CASE path = <<>>
  BY <1>3, <1>4
<1>5. CASE path # <<>>
  <2>1. free \in SUBSET Nat /\ free # {}
    BY <1>5, DescriptorNumbers
  <2>2. d \in free
    <3> HIDE DEF free
    <3>1. QED
      BY <1>1, <2>1, LowestOf
  <2>3. opened \in Table
    BY <1>2, DescriptorNumbers DEF Table
  <2>4. close(opened, std) \in Table /\ d \in Descriptors
    BY <2>2, <2>3, CloseTable
  <2>5. dup2(close(opened, std), d, std) \in Table
    BY <2>4, DupTable
  <2>6. QED
    BY <1>3, <1>5, <2>5, CloseTable
<1>6. QED
  BY <1>4, <1>5

(* A child's files are open where both its redirections are. *)
LEMMA ConnectedTable ==
    ASSUME NEW s, Fit(s), NEW in, NEW command,
           command = s.commands[s.current],
           in = Redirected(s.fd, command.redirect_in, stdIn),
           Opens(s.fd, command.redirect_in),
           Opens(in, command.redirect_out)
    PROVE  Connected(s) \in Table
<1>1. PICK r \in Descriptors, w \in Descriptors : s.flowThru = <<r, w>>
  BY DEF Fit
<1>2. s.flowThru[1] = r /\ s.flowThru[2] = w
  BY <1>1
<1>3. in \in Table
  BY RedirectedTable DEF Opens, Fit
<1>4. PICK out : out = Redirected(in, command.redirect_out, stdOut)
  OBVIOUS
<1>5. out \in Table
  BY <1>3, <1>4, RedirectedTable DEF Opens
<1>6. PICK to : to = IF s.current < Len(s.commands)
                     THEN dup2(close(out, stdOut), w, stdOut) ELSE out
  OBVIOUS
<1>7. to \in Table
  BY <1>1, <1>5, <1>6, CloseTable, DupTable
<1>8. PICK cut : cut = close(to, w)
  OBVIOUS
<1>9. cut \in Table
  BY <1>7, <1>8, CloseTable
<1>10. PICK from : from = IF s.current > 1
                          THEN dup2(close(cut, stdIn), r, stdIn) ELSE cut
  OBVIOUS
<1>11. from \in Table
  BY <1>1, <1>9, <1>10, CloseTable, DupTable
<1>12. Connected(s) = close(from, r)
  BY <1>2, <1>4, <1>6, <1>8, <1>10, Zenon DEF Connected
<1>13. QED
  BY <1>11, <1>12, CloseTable

(* Steps of a process. *)
LEMMA NobodySound == Sound(Nobody)
<1>1. /\ DOMAIN Nobody = Fields
      /\ Nobody.at = "none"
      /\ Nobody.fd = [d \in Descriptors |-> Closed]
      /\ Nobody.flowThru = <<3, 4>>
  BY DEF Nobody, Fields
<1>2. 3 \in Descriptors /\ 4 \in Descriptors
  BY ShellAssumption DEF Descriptors
<1>3. Fit(Nobody)
  BY <1>1, <1>2, FreshTable DEF Fit
<1>4. QED
  BY <1>1, <1>3 DEF Sound, AtWork

LEMMA ParsedSound ==
    ASSUME NEW s, Sound(s), NEW line, Built(pipeline_build(line).commands),
           ~Blind(s.fd)
    PROVE  Sound(Parsed(s, line))
<1>1. PICK built : built = pipeline_build(line)
  OBVIOUS
<1>2. PICK t : t = [s EXCEPT !.at = "read", !.line = line, !.pipeLine = built]
  OBVIOUS
<1>3. Parsed(s, line) = t
  BY <1>1, <1>2 DEF Parsed
<1>4. /\ DOMAIN t = Fields /\ t.at = "read" /\ t.fd = s.fd
      /\ t.flowThru = s.flowThru /\ t.pipeLine = built
  BY <1>2 DEF Sound, Fit, Fields
<1>5. Fit(t)
  BY <1>4 DEF Sound, Fit
<1>6. QED
  BY <1>1, <1>3, <1>4, <1>5 DEF Sound, AtWork

LEMMA PromptingSound ==
    ASSUME NEW s, Fit(s), Built(s.commands)
    PROVE  Sound(Prompting(s))
<1>1. PICK kept : kept = IF s.fd[stdIn][1] \in {"closed", "write"} THEN s.commands
                         ELSE <<>>
  OBVIOUS
<1>2. PICK t : t = [s EXCEPT !.at = "prompt", !.current = 1, !.commands = kept]
  OBVIOUS
<1>3. Prompting(s) = t
  BY <1>1, <1>2 DEF Prompting
<1>4. /\ DOMAIN t = Fields /\ t.at = "prompt" /\ t.fd = s.fd
      /\ t.flowThru = s.flowThru /\ t.commands = kept
  BY <1>2 DEF Fit, Fields
<1>5. Fit(t)
  BY <1>4 DEF Fit
<1>6. Blind(t.fd) => Built(t.commands)
  BY <1>1, <1>4, Zenon DEF Blind
<1>7. QED
  BY <1>3, <1>4, <1>5, <1>6 DEF Sound, AtWork

LEMMA AdvancedSound ==
    ASSUME NEW s, Fit(s), Built(s.commands), s.current \in 1 .. Len(s.commands)
    PROVE  Sound(Advanced(s))
<1>1. PICK fd : fd = close(s.fd, s.flowThru[1])
  OBVIOUS
<1>2. PICK t : t = [s EXCEPT !.fd = fd]
  OBVIOUS
<1>3. PICK u : u = [s EXCEPT !.at = "loop", !.current = @ + 1]
  OBVIOUS
<1>4. Advanced(s) = IF s.current < Len(s.commands) THEN u ELSE Prompting(t)
  BY <1>1, <1>2, <1>3 DEF Advanced
<1>5. CASE s.current < Len(s.commands)
  <2>1. /\ DOMAIN u = Fields /\ u.at = "loop" /\ u.fd = s.fd
        /\ u.flowThru = s.flowThru /\ u.commands = s.commands
        /\ u.current = s.current + 1
    BY <1>3 DEF Fit, Fields
  <2>2. Fit(u)
    BY <2>1 DEF Fit
  <2>3. u.current \in 1 .. Len(u.commands)
    BY <1>5, <2>1 DEF Built
  <2>4. QED
    BY <1>4, <1>5, <2>1, <2>2, <2>3 DEF Sound, AtWork
<1>6. CASE ~(s.current < Len(s.commands))
  <2>1. /\ DOMAIN t = Fields /\ t.fd = fd
        /\ t.flowThru = s.flowThru /\ t.commands = s.commands
    BY <1>2 DEF Fit, Fields
  <2>2. fd \in Table
    BY <1>1, CloseTable DEF Fit
  <2>3. Fit(t)
    BY <2>1, <2>2 DEF Fit
  <2>4. QED
    BY <1>4, <1>6, <2>1, <2>3, PromptingSound
<1>7. QED
  BY <1>5, <1>6

LEMMA StartedSound ==
    ASSUME NEW s, Fit(s), NEW commands, Built(commands)
    PROVE  Sound(Started(s, commands))
<1> DEFINE free == {d \in Descriptors : s.fd[d] = Closed}
           r == Lowest(free)
           w == Lowest(free \ {r})
           q == Lowest(FreePipes)
<1>1. PICK t : t = [s EXCEPT !.at = "loop", !.commands = commands, !.current = 1]
  OBVIOUS
<1>2. PICK u : u = [t EXCEPT !.fd[r] = ReadEnd(q), !.fd[w] = WriteEnd(q),
                             !.flowThru = <<r, w>>]
  OBVIOUS
<1>3. Started(s, commands) =
        IF Cardinality(free) < 2 \/ FreePipes = {} THEN t ELSE u
  BY <1>1, <1>2, Zenon DEF Started
<1>4. /\ DOMAIN t = Fields /\ t.at = "loop" /\ t.fd = s.fd
      /\ t.flowThru = s.flowThru /\ t.commands = commands /\ t.current = 1
  BY <1>1 DEF Fit, Fields
<1>5. Sound(t)
  <2>1. Fit(t)
    BY <1>4 DEF Fit
  <2>2. 1 \in 1 .. Len(commands)
    BY DEF Built
  <2>3. QED
    BY <1>4, <2>1, <2>2 DEF Sound, AtWork
<1>6. CASE ~(Cardinality(free) < 2 \/ FreePipes = {})
  <2>1. free \in SUBSET Nat /\ IsFiniteSet(free)
    <3>1. IsFiniteSet(Descriptors)
      <4>1. 0 \in Int /\ MAX_FD \in Int
        BY ShellAssumption
      <4>2. QED
        BY <4>1, FS_Interval, Zenon DEF Descriptors
    <3>2. free \in SUBSET Descriptors
      OBVIOUS
    <3>3. IsFiniteSet(free)
      BY <3>1, <3>2, FS_Subset, Zenon
    <3>4. QED
      BY <3>3, DescriptorNumbers
  <2>2. free # {} /\ free \ {r} # {}
    <3> HIDE DEF free, r
    <3>1. free # {}
      <4>1. Cardinality({}) = 0
        BY FS_EmptySet
      <4>2. QED
        BY <1>6, <4>1
    <3>2. free # {r}
      <4>1. Cardinality({r}) = 1
        BY FS_Singleton, Zenon
      <4>2. QED
        BY <1>6, <4>1
    <3>3. QED
      BY <3>1, <3>2
  <2>3. r \in free
    <3> HIDE DEF free
    <3>1. QED
      BY <2>1, <2>2, LowestOf
  <2>4. w \in free \ {r}
    <3> HIDE DEF free, r
    <3>1. QED
      BY <2>1, <2>2, LowestOf
  <2>5. q \in Pipes
    <3>1. FreePipes \in SUBSET Nat /\ FreePipes \subseteq Pipes
      BY DEF FreePipes, Pipes
    <3>2. QED
      BY <1>6, <3>1, LowestOf
  <2>6. r \in Descriptors /\ w \in Descriptors
    BY <2>3, <2>4
  <2> HIDE DEF free, r, w, q
  <2>7. ReadEnd(q) \in OpenOn /\ WriteEnd(q) \in OpenOn
    BY <2>5 DEF OpenOn
  <2>8. PICK fd : fd = [s.fd EXCEPT ![r] = ReadEnd(q), ![w] = WriteEnd(q)]
    OBVIOUS
  <2>9. fd \in Table
    BY <2>7, <2>8 DEF Table, Fit
  <2>10. u = [t EXCEPT !.fd = fd, !.flowThru = <<r, w>>]
    BY <1>2, <1>4, <2>8
  <2>11. /\ DOMAIN u = Fields /\ u.at = "loop" /\ u.fd = fd
         /\ u.flowThru = <<r, w>> /\ u.commands = commands /\ u.current = 1
    BY <1>4, <2>10 DEF Fields
  <2>12. Fit(u)
    BY <2>6, <2>9, <2>11 DEF Fit
  <2>13. QED
    BY <1>3, <1>5, <1>6, <1>4, <2>11, <2>12 DEF Sound, AtWork
<1>7. QED
  BY <1>3, <1>5, <1>6

(* A step that leaves all processes but one as they are. *)
LEMMA OneSound ==
    ASSUME TypesInv, NEW p \in Processes, NEW s,
           proc' = [proc EXCEPT ![p] = s],
           Sound(s), s.parent = proc[p].parent,
           content' \in [Pipes -> 0 .. CAP]
    PROVE  TypesInv'
<1>1. /\ proc' = [q \in Processes |-> proc'[q]]
      /\ proc'[p] = s
      /\ \A q \in Processes \ {p} : proc'[q] = proc[q]
  BY DEF TypesInv
<1>2. QED
  BY <1>1 DEF TypesInv

LEMMA ExitSound ==
    ASSUME TypesInv, NEW p \in Processes, Exit(p),
           content' \in [Pipes -> 0 .. CAP]
    PROVE  TypesInv'
<1>1. Sound(Gone(p)) /\ Gone(p).parent \in (0 .. MAX_PROC) \ {p}
  <2>1. CASE proc[p].parent = 0
    <3>1. p # 0 /\ 0 \in 0 .. MAX_PROC
      BY ShellAssumption DEF Processes
    <3>2. QED
      BY <2>1, <3>1, NobodySound, NobodyFields DEF Gone
  <2>2. CASE proc[p].parent # 0
    <3>1. PICK z : z = [Nobody EXCEPT !.at = "zombie", !.parent = proc[p].parent]
      OBVIOUS
    <3>2. /\ DOMAIN z = Fields /\ z.at = "zombie" /\ z.fd = Nobody.fd
          /\ z.flowThru = Nobody.flowThru /\ z.parent = proc[p].parent
      BY <3>1, NobodyFields DEF Fields
    <3>3. Sound(z)
      BY <3>2, NobodySound, NobodyFields DEF Sound, Fit, AtWork
    <3>4. QED
      BY <2>2, <3>1, <3>2, <3>3 DEF Gone, TypesInv
  <2>3. QED
    BY <2>1, <2>2
<1>2. ASSUME NEW c \in Processes, c # p, c \in Children(p)
      PROVE  /\ Sound([proc[c] EXCEPT !.parent = 0])
             /\ [proc[c] EXCEPT !.parent = 0].parent = 0
             /\ 0 \in (0 .. MAX_PROC) \ {c}
  <2>1. PICK o : o = [proc[c] EXCEPT !.parent = 0]
    OBVIOUS
  <2>2. Sound(proc[c]) /\ DOMAIN proc[c] = Fields
    BY DEF TypesInv, Sound, Fit
  <2>3. /\ DOMAIN o = Fields /\ o.parent = 0 /\ o.at = proc[c].at
        /\ o.fd = proc[c].fd /\ o.flowThru = proc[c].flowThru
        /\ o.commands = proc[c].commands /\ o.current = proc[c].current
        /\ o.pipeLine = proc[c].pipeLine
    BY <2>1, <2>2 DEF Fields
  <2>4. Sound(o)
    BY <2>2, <2>3 DEF Sound, Fit
  <2>5. 0 \in (0 .. MAX_PROC) \ {c}
    BY ShellAssumption DEF Processes
  <2>6. QED
    BY <2>1, <2>3, <2>4, <2>5
<1>3. /\ proc' = [c \in Processes |-> proc'[c]]
      /\ proc'[p] = Gone(p)
      /\ \A c \in Processes : c # p =>
            \/ proc'[c] \in {Nobody, proc[c]}
            \/ c \in Children(p) /\ proc'[c] = [proc[c] EXCEPT !.parent = 0]
  <2>1. \A c \in Processes :
           proc'[c] = CASE c = p -> Gone(p)
                        [] c # p /\ c \in Children(p) ->
                             IF proc[c].at = "zombie" THEN Nobody
                             ELSE [proc[c] EXCEPT !.parent = 0]
                        [] OTHER -> proc[c]
    BY Zenon DEF Exit
  <2>2. proc' = [c \in Processes |-> proc'[c]]
    BY DEF Exit
  <2>3. ASSUME NEW c \in Processes, c # p
        PROVE  \/ proc'[c] \in {Nobody, proc[c]}
               \/ c \in Children(p) /\ proc'[c] = [proc[c] EXCEPT !.parent = 0]
    <3>1. PICK o : o = [proc[c] EXCEPT !.parent = 0]
      OBVIOUS
    <3>2. CASE c \in Children(p)
      BY <2>1, <2>3, <3>1, <3>2
    <3>3. CASE c \notin Children(p)
      BY <2>1, <2>3, <3>3
    <3>4. QED
      BY <3>2, <3>3
  <2>4. proc'[p] = Gone(p)
    BY <2>1
  <2>5. QED
    BY <2>2, <2>3, <2>4, Zenon
<1>4. ASSUME NEW c \in Processes
      PROVE  Sound(proc'[c]) /\ proc'[c].parent \in (0 .. MAX_PROC) \ {c}
  <2>1. CASE c = p
    BY <1>1, <1>3, <2>1
  <2>2. CASE c # p /\ proc'[c] = proc[c]
    BY <2>2 DEF TypesInv
  <2>3. CASE c # p /\ proc'[c] = Nobody
    <3>1. 0 \in (0 .. MAX_PROC) \ {c}
      BY ShellAssumption DEF Processes
    <3>2. QED
      BY <2>3, <3>1, NobodySound, NobodyFields
  <2>4. CASE /\ c # p /\ c \in Children(p)
             /\ proc'[c] = [proc[c] EXCEPT !.parent = 0]
    BY <1>2, <2>4
  <2>5. QED
    BY <1>3, <2>1, <2>2, <2>3, <2>4
<1>5. QED
  BY <1>3, <1>4 DEF TypesInv

(* What happens to the contents of the pipes. *)
LEMMA ContentTypes ==
    ASSUME TypesInv
    PROVE  /\ Emptied \in [Pipes -> 0 .. CAP]
           /\ \A q \in Pipes : content[q] > 0 =>
                 [content EXCEPT ![q] = @ - 1] \in [Pipes -> 0 .. CAP]
           /\ \A q \in Pipes : content[q] < CAP =>
                 [content EXCEPT ![q] = @ + 1] \in [Pipes -> 0 .. CAP]
BY ShellAssumption DEF TypesInv, Emptied

LEMMA EndPipes ==
    ASSUME NEW fd \in Table, NEW d \in Descriptors,
           fd[d][1] \in {"read", "write"}
    PROVE  fd[d][2] \in Pipes
<1>1. fd[d] \in OpenOn
  BY DEF Table
<1>2. QED
  BY <1>1 DEF OpenOn, Closed, Terminal, File, ReadEnd, WriteEnd

LEMMA TypesHeld == TypesInv /\ Next => TypesInv'
<1> SUFFICES ASSUME TypesInv, NEW p \in Processes, User(p) \/ Step(p)
             PROVE  TypesInv'
  BY DEF Next
<1>1. Sound(proc[p]) /\ Fit(proc[p]) /\ DOMAIN proc[p] = Fields
  BY DEF TypesInv, Sound, Fit
<1>2. content \in [Pipes -> 0 .. CAP]
  BY DEF TypesInv
<1>3. proc[p].fd[stdIn] \in OpenOn /\ proc[p].fd[stdOut] \in OpenOn
  BY <1>1, DescriptorNumbers DEF Fit, Table
<1>4. CASE ReadTerminal(p)
  <2>1. content' \in [Pipes -> 0 .. CAP] /\ proc[p].at = "prompt"
    BY <1>2, <1>4 DEF ReadTerminal
  <2>2. CASE Exit(p)
    BY <2>1, <2>2, ExitSound
  <2>3. ASSUME NEW line \in Lines \cup NestedLines,
               proc' = [proc EXCEPT ![p] = Parsed(@, line)]
        PROVE  TypesInv'
    <3>1. ~Blind(proc[p].fd)
      BY <1>4 DEF ReadTerminal, Blind, Terminal
    <3>2. Built(pipeline_build(line).commands)
      BY LinesBuilt, Zenon
    <3>3. Sound(Parsed(proc[p], line))
      BY <1>1, <3>1, <3>2, ParsedSound
    <3>4. QED
      BY <1>1, <2>1, <2>3, <3>3, ParsedFields, OneSound
  <2>4. QED
    BY <1>4, <2>2, <2>3, Zenon DEF ReadTerminal
<1>5. CASE ReadInput(p)
  <2>1. proc[p].at = "prompt"
    BY <1>5 DEF ReadInput
  <2>2. CASE Exit(p) /\ UNCHANGED content
    BY <1>2, <2>2, ExitSound
  <2>3. ASSUME proc[p].fd[stdIn][1] = "read", content[proc[p].fd[stdIn][2]] > 0,
               content' = [content EXCEPT ![proc[p].fd[stdIn][2]] = @ - 1],
               NEW line \in Noise,
               proc' = [proc EXCEPT ![p] = Parsed(@, line)]
        PROVE  TypesInv'
    <3>1. ~Blind(proc[p].fd)
      BY <2>3 DEF Blind
    <3>2. Built(pipeline_build(line).commands)
      BY LinesBuilt, Zenon
    <3>3. Sound(Parsed(proc[p], line))
      BY <1>1, <3>1, <3>2, ParsedSound
    <3>4. proc[p].fd[stdIn][2] \in Pipes
      BY <1>1, <2>3, EndPipes, DescriptorNumbers DEF Fit
    <3>5. content' \in [Pipes -> 0 .. CAP]
      BY <2>3, <3>4, ContentTypes
    <3>6. QED
      BY <1>1, <2>3, <3>3, <3>5, ParsedFields, OneSound
  <2>4. QED
    BY <1>5, <2>2, <2>3, Zenon DEF ReadInput
<1>6. CASE Check(p)
  <2>1. content' \in [Pipes -> 0 .. CAP]
    BY <1>6, ContentTypes DEF Check
  <2>2. CASE Exit(p)
    BY <2>1, <2>2, ExitSound
  <2>3. PICK s : s = [proc[p] EXCEPT !.line = <<>>, !.pipeLine = Nobody.pipeLine]
    OBVIOUS
  <2>4. /\ DOMAIN s = Fields /\ s.at = proc[p].at /\ s.parent = proc[p].parent
        /\ s.fd = proc[p].fd /\ s.flowThru = proc[p].flowThru
    BY <1>1, <2>3 DEF Fields
  <2>5. proc[p].at = "read"
    BY <1>6, <2>3, <2>4, Zenon DEF Check
  <2>6. ~Blind(proc[p].fd) /\ Built(proc[p].pipeLine.commands)
    BY <1>1, <2>5 DEF Sound
  <2>7. Fit(s)
    BY <1>1, <2>4 DEF Fit
  <2>8. CASE proc' = [proc EXCEPT ![p] = [s EXCEPT !.at = "prompt"]]
    <3>1. PICK t : t = [s EXCEPT !.at = "prompt"]
      OBVIOUS
    <3>2. /\ DOMAIN t = Fields /\ t.at = "prompt" /\ t.parent = proc[p].parent
          /\ t.fd = s.fd /\ t.flowThru = s.flowThru
      BY <2>4, <3>1 DEF Fields
    <3>3. Sound(t)
      BY <2>4, <2>6, <2>7, <3>2 DEF Sound, Fit, AtWork
    <3>4. proc' = [proc EXCEPT ![p] = t]
      BY <2>8, <3>1
    <3>5. QED
      BY <2>1, <3>2, <3>3, <3>4, OneSound
  <2>9. CASE proc' = [proc EXCEPT ![p] = Started(s, proc[p].pipeLine.commands)]
    <3>1. PICK t : t = Started(s, proc[p].pipeLine.commands)
      OBVIOUS
    <3>2. Sound(t) /\ t.parent = proc[p].parent
      BY <2>4, <2>6, <2>7, <3>1, StartedSound, StartedFields
    <3>3. QED
      BY <2>1, <2>9, <3>1, <3>2, OneSound
  <2>10. QED
    BY <1>6, <2>2, <2>3, <2>8, <2>9, Zenon DEF Check
<1>7. CASE Again(p)
  <2>1. /\ content' \in [Pipes -> 0 .. CAP]
        /\ proc' = [proc EXCEPT ![p] = Started(@, proc[p].commands)]
        /\ proc[p].at = "prompt" /\ Blind(proc[p].fd)
    BY <1>7, ContentTypes DEF Again, Blind
  <2>2. Built(proc[p].commands)
    BY <1>1, <2>1 DEF Sound
  <2>3. PICK t : t = Started(proc[p], proc[p].commands)
    OBVIOUS
  <2>4. Sound(t) /\ t.parent = proc[p].parent
    BY <1>1, <2>2, <2>3, StartedSound, StartedFields
  <2>5. QED
    BY <2>1, <2>3, <2>4, OneSound
<1>8. CASE Fork(p)
  <2> DEFINE free == {c \in Processes : proc[c].at = "none"}
             k == Lowest(free)
  <2>1. PICK s : s = [proc[p] EXCEPT !.at = "forked"]
    OBVIOUS
  <2>2. PICK t : t = [proc[p] EXCEPT !.at = "child", !.parent = p]
    OBVIOUS
  <2>3. proc[p].at = "loop" /\ content' = content
    BY <1>8 DEF Fork
  <2>4. /\ DOMAIN s = Fields /\ s.at = "forked" /\ s.parent = proc[p].parent
        /\ s.fd = proc[p].fd /\ s.flowThru = proc[p].flowThru
        /\ s.commands = proc[p].commands /\ s.current = proc[p].current
    BY <1>1, <2>1 DEF Fields
  <2>5. /\ DOMAIN t = Fields /\ t.at = "child" /\ t.parent = p
        /\ t.fd = proc[p].fd /\ t.flowThru = proc[p].flowThru
        /\ t.commands = proc[p].commands /\ t.current = proc[p].current
    BY <1>1, <2>2 DEF Fields
  <2>6. Sound(s) /\ Sound(t)
    BY <1>1, <2>3, <2>4, <2>5 DEF Sound, Fit, AtWork
  <2>7. /\ proc' = [x \in Processes |-> proc'[x]]
        /\ \A x \in Processes :
              \/ x = p /\ proc'[x] = s
              \/ x # p /\ proc'[x] = t
              \/ proc'[x] = proc[x]
    <3>1. free # {} => k \in Processes /\ k # p
      <4>1. free \in SUBSET Nat
        BY DEF Processes
      <4>2. free # {} => k \in free
        <5> HIDE DEF free
        <5>1. QED
          BY <4>1, LowestOf DEF k
      <4>3. QED
        BY <2>3, <4>2
    <3>2. CASE free = {}
      <4>1. proc' = [x \in Processes |-> IF x = p THEN s ELSE proc[x]]
        BY <1>8, <2>1, <3>2 DEF Fork
      <4>2. QED
        BY <4>1
    <3>3. CASE free # {}
      <4>1. /\ proc' = [x \in Processes |-> proc'[x]]
            /\ proc'[p] = s
            /\ proc'[k] = t
            /\ \A x \in Processes \ {p, k} : proc'[x] = proc[x]
        BY <1>8, <2>1, <2>2, <3>1, <3>3, Zenon DEF Fork
      <4>2. QED
        BY <3>1, <3>3, <4>1
    <3>4. QED
      BY <3>2, <3>3
  <2>8. p \in 0 .. MAX_PROC
    BY DEF Processes
  <2>9. QED
    BY <1>2, <2>3, <2>4, <2>5, <2>6, <2>7, <2>8 DEF TypesInv
<1>9. CASE CloseWrite(p)
  <2>1. PICK fd :
           fd = IF proc[p].current = Len(proc[p].commands)
                THEN close(proc[p].fd, proc[p].flowThru[2]) ELSE proc[p].fd
    OBVIOUS
  <2>2. fd \in Table
    BY <1>1, <2>1, CloseTable DEF Fit
  <2>3. PICK s : s = [proc[p] EXCEPT !.at = "waiting", !.fd = fd]
    OBVIOUS
  <2>4. /\ DOMAIN s = Fields /\ s.at = "waiting" /\ s.parent = proc[p].parent
        /\ s.fd = fd /\ s.flowThru = proc[p].flowThru
        /\ s.commands = proc[p].commands /\ s.current = proc[p].current
    BY <1>1, <2>3 DEF Fields
  <2>5. proc' = [proc EXCEPT ![p].at = "waiting", ![p].fd = fd]
    BY <1>9, <2>1 DEF CloseWrite
  <2>6. proc' = [proc EXCEPT ![p] = s]
    BY <2>3, <2>5
  <2>7. proc[p].at = "forked" /\ content' = content
    BY <1>9 DEF CloseWrite
  <2>8. Sound(s)
    BY <1>1, <2>2, <2>4, <2>7 DEF Sound, Fit, AtWork
  <2>9. QED
    BY <1>2, <2>4, <2>6, <2>7, <2>8, OneSound
<1>10. CASE Wait(p)
  <2>1. proc[p].at = "waiting" /\ content' = content
    BY <1>10 DEF Wait
  <2>2. PICK s : s = Advanced(proc[p])
    OBVIOUS
  <2>3. Sound(s) /\ s.parent = proc[p].parent
    BY <1>1, <2>1, <2>2, AdvancedSound, AdvancedFields DEF Sound, AtWork
  <2>4. CASE proc' = [proc EXCEPT ![p] = s]
    BY <1>2, <2>1, <2>3, <2>4, OneSound
  <2>5. ASSUME NEW c \in Children(p), proc[c].at = "zombie",
               proc' = [proc EXCEPT ![p] = s, ![c] = Nobody]
        PROVE  TypesInv'
    <3>1. c \in Processes /\ c # p /\ 0 \in (0 .. MAX_PROC) \ {c}
      BY <2>1, <2>5, ShellAssumption DEF Children, Processes
    <3>2. /\ proc' = [x \in Processes |-> proc'[x]]
          /\ proc'[p] = s /\ proc'[c] = Nobody
          /\ \A x \in Processes \ {p, c} : proc'[x] = proc[x]
      BY <2>5, <3>1 DEF TypesInv
    <3>3. ASSUME NEW x \in Processes
          PROVE  Sound(proc'[x]) /\ proc'[x].parent \in (0 .. MAX_PROC) \ {x}
      <4>1. CASE x = p
        BY <2>3, <3>2, <4>1 DEF TypesInv
      <4>2. CASE x = c
        BY <3>1, <3>2, <4>2, NobodySound, NobodyFields
      <4>3. CASE x # p /\ x # c
        BY <3>2, <4>3 DEF TypesInv
      <4>4. QED
        BY <4>1, <4>2, <4>3
    <3>4. QED
      BY <1>2, <2>1, <3>2, <3>3 DEF TypesInv
  <2>6. QED
    BY <1>10, <2>2, <2>4, <2>5, Zenon DEF Wait
<1>11. CASE Child(p)
  <2>1. proc[p].at = "child" /\ content' = content
    BY <1>11 DEF Child
  <2>2. Built(proc[p].commands) /\ proc[p].current \in 1 .. Len(proc[p].commands)
    BY <1>1, <2>1 DEF Sound, AtWork
  <2>3. PICK command : command = proc[p].commands[proc[p].current]
    OBVIOUS
  <2>4. PICK in : in = Redirected(proc[p].fd, command.redirect_in, stdIn)
    OBVIOUS
  <2>5. PICK opened : opened = [proc[p] EXCEPT !.fd = in]
    OBVIOUS
  <2>6. PICK ready : ready = [proc[p] EXCEPT !.fd = Connected(proc[p])]
    OBVIOUS
  <2>7. PICK runs : runs = [ready EXCEPT
                 !.at = "program",
                 !.left = IF command.args[1] \in Producers THEN OUTPUT ELSE 0]
    OBVIOUS
  <2>8. /\ DOMAIN opened = Fields /\ opened.parent = proc[p].parent
        /\ opened.fd = in /\ opened.flowThru = proc[p].flowThru
        /\ opened.commands = proc[p].commands
    BY <1>1, <2>5 DEF Fields
  <2>9. /\ DOMAIN ready = Fields /\ ready.parent = proc[p].parent
        /\ ready.fd = Connected(proc[p]) /\ ready.flowThru = proc[p].flowThru
        /\ ready.commands = proc[p].commands /\ ready.current = proc[p].current
    BY <1>1, <2>6 DEF Fields
  <2>10. /\ DOMAIN runs = Fields /\ runs.parent = proc[p].parent
         /\ runs.at = "program"
         /\ runs.fd = ready.fd /\ runs.flowThru = ready.flowThru
         /\ runs.commands = ready.commands /\ runs.current = ready.current
    BY <2>7, <2>9 DEF Fields
  <2> DEFINE reads == Opens(proc[p].fd, command.redirect_in)
             writes == Opens(in, command.redirect_out)
  <2>11. \/ proc' = [proc EXCEPT ![p] = Prompting(proc[p])]
         \/ reads /\ proc' = [proc EXCEPT ![p] = Prompting(opened)]
         \/ reads /\ writes /\ proc' = [proc EXCEPT ![p] = runs]
         \/ reads /\ writes /\ proc' = [proc EXCEPT ![p] = Advanced(ready)]
    <3>1. opened.fd = in
      BY <2>8
    <3>2. proc' = [proc EXCEPT ![p] =
             CASE ~reads -> Prompting(proc[p])
               [] reads /\ ~writes -> Prompting(opened)
               [] reads /\ writes /\ Runnable(command) -> runs
               [] OTHER -> Advanced(ready)]
      BY <1>11, <2>3, <2>4, <2>5, <2>6, <2>7, <3>1, Zenon DEF Child
    <3> HIDE DEF reads, writes
    <3>3. CASE ~reads
      BY <3>2, <3>3
    <3>4. CASE reads /\ ~writes
      BY <3>2, <3>4
    <3>5. CASE reads /\ writes /\ Runnable(command)
      BY <3>2, <3>5
    <3>6. CASE reads /\ writes /\ ~Runnable(command)
      BY <3>2, <3>6
    <3>7. QED
      BY <3>3, <3>4, <3>5, <3>6
  <2>12. CASE proc' = [proc EXCEPT ![p] = Prompting(proc[p])]
    <3>1. PICK t : t = Prompting(proc[p])
      OBVIOUS
    <3>2. Sound(t) /\ t.parent = proc[p].parent
      BY <1>1, <2>2, <3>1, PromptingSound, PromptingFields
    <3>3. QED
      BY <1>2, <2>1, <2>12, <3>1, <3>2, OneSound
  <2>13. CASE reads /\ proc' = [proc EXCEPT ![p] = Prompting(opened)]
    <3>1. in \in Table
      BY <1>1, <2>4, <2>13, RedirectedTable DEF Opens, Fit
    <3>2. Fit(opened)
      BY <1>1, <2>8, <3>1 DEF Fit
    <3>3. PICK t : t = Prompting(opened)
      OBVIOUS
    <3>4. Sound(t) /\ t.parent = proc[p].parent
      BY <2>2, <2>8, <3>2, <3>3, PromptingSound, PromptingFields
    <3>5. QED
      BY <1>2, <2>1, <2>13, <3>3, <3>4, OneSound
  <2>14. ASSUME reads, writes PROVE Fit(ready)
    <3>1. Connected(proc[p]) \in Table
      BY <1>1, <2>3, <2>4, <2>14, ConnectedTable
    <3>2. QED
      BY <1>1, <2>9, <3>1 DEF Fit
  <2>15. CASE reads /\ writes /\ proc' = [proc EXCEPT ![p] = runs]
    <3>1. Fit(runs)
      BY <2>10, <2>14, <2>15 DEF Fit
    <3>2. Sound(runs)
      BY <2>2, <2>9, <2>10, <3>1 DEF Sound, AtWork
    <3>3. QED
      BY <1>2, <2>1, <2>10, <2>15, <3>2, OneSound
  <2>16. CASE reads /\ writes /\ proc' = [proc EXCEPT ![p] = Advanced(ready)]
    <3>1. PICK t : t = Advanced(ready)
      OBVIOUS
    <3>2. Sound(t) /\ t.parent = proc[p].parent
      BY <2>2, <2>9, <2>14, <2>16, <3>1, AdvancedSound, AdvancedFields
    <3>3. QED
      BY <1>2, <2>1, <2>16, <3>1, <3>2, OneSound
  <2>17. QED
    BY <2>11, <2>12, <2>13, <2>15, <2>16
<1>12. CASE Write(p) \/ Read(p) \/ ReadTyped(p) \/ Finish(p)
  <2>1. proc[p].at = "program"
    BY <1>12, Zenon DEF Write, Read, ReadTyped, Finish
  <2>2. content' \in [Pipes -> 0 .. CAP]
    <3>1. CASE Write(p)
      <4>1. CASE UNCHANGED content
        BY <1>2, <4>1
      <4>2. CASE /\ proc[p].fd[stdOut][1] = "write"
                 /\ content[proc[p].fd[stdOut][2]] < CAP
                 /\ content' = [content EXCEPT ![proc[p].fd[stdOut][2]] = @ + 1]
        <5>1. proc[p].fd[stdOut][2] \in Pipes
          BY <1>1, <4>2, EndPipes, DescriptorNumbers DEF Fit
        <5>2. QED
          BY <4>2, <5>1, ContentTypes
      <4>3. QED
        BY <3>1, <4>1, <4>2, Zenon DEF Write
    <3>2. CASE Read(p)
      <4>1. CASE UNCHANGED content
        BY <1>2, <4>1
      <4>2. CASE /\ proc[p].fd[stdIn][1] = "read"
                 /\ content[proc[p].fd[stdIn][2]] > 0
                 /\ content' = [content EXCEPT ![proc[p].fd[stdIn][2]] = @ - 1]
        <5>1. proc[p].fd[stdIn][2] \in Pipes
          BY <1>1, <4>2, EndPipes, DescriptorNumbers DEF Fit
        <5>2. QED
          BY <4>2, <5>1, ContentTypes
      <4>3. QED
        BY <3>2, <4>1, <4>2, Zenon DEF Read
    <3>3. CASE ReadTyped(p) \/ Finish(p)
      BY <1>2, <3>3, Zenon DEF ReadTyped, Finish
    <3>4. QED
      BY <1>12, <3>1, <3>2, <3>3
  <2>3. CASE Exit(p)
    BY <2>2, <2>3, ExitSound
  <2>4. ASSUME NEW n, proc' = [proc EXCEPT ![p].left = n]
        PROVE  TypesInv'
    <3>1. PICK s : s = [proc[p] EXCEPT !.left = n]
      OBVIOUS
    <3>2. /\ DOMAIN s = Fields /\ s.at = "program" /\ s.parent = proc[p].parent
          /\ s.fd = proc[p].fd /\ s.flowThru = proc[p].flowThru
          /\ s.commands = proc[p].commands /\ s.current = proc[p].current
      BY <1>1, <2>1, <3>1 DEF Fields
    <3>3. Sound(s)
      BY <1>1, <2>1, <3>2 DEF Sound, Fit, AtWork
    <3>4. proc' = [proc EXCEPT ![p] = s]
      BY <2>4, <3>1
    <3>5. QED
      BY <2>2, <3>2, <3>3, <3>4, OneSound
  <2>5. \/ Exit(p)
        \/ \E n : proc' = [proc EXCEPT ![p].left = n]
    <3>1. CASE Write(p)
      BY <3>1 DEF Write
    <3>2. CASE Read(p)
      BY <3>2 DEF Read
    <3>3. CASE ReadTyped(p) \/ Finish(p)
      BY <3>3 DEF ReadTyped, Finish
    <3>4. QED
      BY <1>12, <3>1, <3>2, <3>3
  <2>6. QED
    BY <2>3, <2>4, <2>5
<1>13. QED
  BY <1>4, <1>5, <1>6, <1>7, <1>8, <1>9, <1>10, <1>11, <1>12 DEF User, Step

LEMMA TypesInit == Init => TypesInv
<1> SUFFICES ASSUME Init PROVE TypesInv
  OBVIOUS
<1>1. PICK s : s = [Nobody EXCEPT !.at = "prompt", !.fd = Fresh]
  OBVIOUS
<1>2. /\ DOMAIN s = Fields /\ s.at = "prompt" /\ s.parent = 0
      /\ s.fd = Fresh /\ s.flowThru = Nobody.flowThru
  BY <1>1 DEF Nobody, Fields
<1>3. Fit(s)
  BY <1>2, FreshTable, NobodySound DEF Sound, Fit
<1>4. ~Blind(Fresh)
  BY DescriptorNumbers DEF Blind, Fresh, Terminal
<1>5. Sound(s)
  BY <1>2, <1>3, <1>4 DEF Sound, AtWork
<1>6. proc = [p \in Processes |-> IF p = 1 THEN s ELSE Nobody]
  BY <1>1 DEF Init
<1>7. \A p \in Processes : 0 \in (0 .. MAX_PROC) \ {p}
  BY ShellAssumption DEF Processes
<1>8. content \in [Pipes -> 0 .. CAP]
  BY ShellAssumption DEF Init
<1>9. QED
  BY <1>2, <1>5, <1>6, <1>7, <1>8, NobodySound, NobodyFields DEF TypesInv

LEMMA TypesAlways == Spec => []TypesInv
<1>1. TypesInv /\ [Next]_shellVars => TypesInv'
  <2>1. TypesInv /\ UNCHANGED shellVars => TypesInv'
    BY DEF TypesInv, shellVars
  <2>2. QED
    BY <2>1, TypesHeld
<1>2. QED
  BY TypesInit, <1>1, PTL DEF Spec

(* Processes, descriptors and pipes hold what they can hold; in particular *)
(* a process that is past its prompt has a command to run.                 *)
THEOREM ShellTypes == Spec => []ShTypeOK
<1>1. TypesInv => ShTypeOK
  <2> SUFFICES ASSUME TypesInv PROVE ShTypeOK
    OBVIOUS
  <2>1. content \in [Pipes -> 0 .. CAP]
    BY DEF TypesInv
  <2>2. ASSUME NEW p \in Processes
        PROVE  /\ proc[p].at \in {"none", "prompt", "read", "loop", "forked",
                                  "waiting", "child", "program", "zombie"}
               /\ proc[p].parent \in 0 .. MAX_PROC \ {p}
               /\ proc[p].fd \in [Descriptors ->
                          {Closed, Terminal, File} \cup
                             {ReadEnd(q) : q \in Pipes} \cup
                             {WriteEnd(q) : q \in Pipes}]
               /\ proc[p].flowThru \in Descriptors \X Descriptors
               /\ proc[p].at \in {"loop", "forked", "waiting", "child", "program"} =>
                    proc[p].current \in DOMAIN proc[p].commands
               /\ proc[p].at \in {"none", "zombie"} =>
                    \A d \in Descriptors : proc[p].fd[d] = Closed
    <3>1. Sound(proc[p]) /\ proc[p].parent \in (0 .. MAX_PROC) \ {p}
      BY DEF TypesInv
    <3>2. proc[p].at \in AtWork => proc[p].current \in DOMAIN proc[p].commands
      BY <3>1 DEF Sound, Built
    <3>3. proc[p].fd \in Table /\ proc[p].flowThru \in Descriptors \X Descriptors
      BY <3>1 DEF Sound, Fit
    <3>4. /\ proc[p].at \in {"none", "prompt", "read", "zombie"} \cup AtWork
          /\ proc[p].at \in {"none", "zombie"} =>
                \A d \in Descriptors : proc[p].fd[d] = Closed
      BY <3>1, Zenon DEF Sound
    <3>5. QED
      BY <3>1, <3>2, <3>3, <3>4 DEF Table, OpenOn, AtWork
  <2>3. QED
    BY <2>1, <2>2, Zenon DEF ShTypeOK
<1>2. QED
  BY <1>1, TypesAlways, PTL
----------------------------------------------------------------------------
(* The shell that was started: it never is a child, its pipe always gets   *)
(* the descriptors 3 and 4, and nothing else of its table ever changes.    *)

FirstShell(s) ==
    /\ s.at \in {"none", "prompt", "read", "loop", "forked", "waiting"}
    /\ s.at # "none" =>
          /\ s.parent = 0
          /\ s.flowThru = <<3, 4>>
          /\ \A d \in Descriptors \ {3, 4} : s.fd[d] = Fresh[d]
    /\ s.at \in {"prompt", "read"} => s.fd = Fresh
    /\ s.at = "waiting" /\ ~(s.current < Len(s.commands)) => s.fd[4] = Closed

FirstInv == FirstShell(proc[1])

OpenInv == RunsInv /\ TypesInv /\ FirstInv

LEMMA FreshFacts ==
    /\ 3 \in Descriptors /\ 4 \in Descriptors
    /\ \A d \in Descriptors : Fresh[d] = Closed <=> d \notin {0, 1, 2}
    /\ Fresh[stdIn] = Terminal
BY ShellAssumption
   DEF Descriptors, Fresh, Closed, Terminal, stdIn, stdOut, stdErr

(* A table that differs from the fresh one in nothing is the fresh one.    *)
LEMMA FreshAgain ==
    ASSUME NEW fd \in Table, \A d \in Descriptors \ {3, 4} : fd[d] = Fresh[d],
           fd[3] = Closed, fd[4] = Closed
    PROVE  fd = Fresh
<1>1. \A d \in Descriptors : fd[d] = Fresh[d]
  BY FreshFacts
<1>2. QED
  BY <1>1, FreshTable DEF Table

LEMMA FirstStarted ==
    ASSUME NEW s, Fit(s), s.fd = Fresh, s.parent = 0, s.flowThru = <<3, 4>>,
           NEW commands
    PROVE  FirstShell(Started(s, commands))
<1> DEFINE free == {d \in Descriptors : s.fd[d] = Closed}
           r == Lowest(free)
           w == Lowest(free \ {r})
           q == Lowest(FreePipes)
<1>1. PICK t : t = [s EXCEPT !.at = "loop", !.commands = commands, !.current = 1]
  OBVIOUS
<1>2. PICK u : u = [t EXCEPT !.fd[r] = ReadEnd(q), !.fd[w] = WriteEnd(q),
                             !.flowThru = <<r, w>>]
  OBVIOUS
<1>3. Started(s, commands) = t \/ Started(s, commands) = u
  BY <1>1, <1>2, Zenon DEF Started
<1>4. /\ DOMAIN t = Fields /\ t.at = "loop" /\ t.fd = Fresh
      /\ t.flowThru = <<3, 4>> /\ t.parent = 0
  BY <1>1 DEF Fit, Fields
<1>5. FirstShell(t)
  BY <1>4 DEF FirstShell
<1>6. /\ free \in SUBSET Nat /\ free # {}
      /\ 3 \in free /\ 4 \in free /\ \A d \in free : d >= 3
  <2>1. free = {d \in Descriptors : d \notin {0, 1, 2}}
    BY FreshFacts
  <2>2. \A d \in Nat : d \notin {0, 1, 2} => d >= 3
    OBVIOUS
  <2> HIDE DEF free
  <2>3. 3 \in free /\ 4 \in free
    BY <2>1, FreshFacts
  <2>4. QED
    BY <2>1, <2>2, <2>3, DescriptorNumbers
<1> HIDE DEF free
<1>7. r = 3
  <2>1. r \in free /\ \A y \in free : r <= y
    BY <1>6, LowestOf, Zenon
  <2> HIDE DEF r
  <2>2. r \in Nat /\ r >= 3 /\ r <= 3
    BY <1>6, <2>1
  <2>3. QED
    BY <2>2
<1>8. w = 4
  <2> HIDE DEF r
  <2>1. free \ {r} \in SUBSET Nat /\ 4 \in free \ {r} /\ free \ {r} # {}
    BY <1>6, <1>7
  <2>2. w \in free \ {r} /\ \A y \in free \ {r} : w <= y
    BY <2>1, LowestOf, Zenon
  <2> HIDE DEF w
  <2>3. w \in Nat /\ w >= 3 /\ w # 3 /\ w <= 4
    BY <1>6, <1>7, <2>1, <2>2
  <2>4. QED
    BY <2>3
<1> HIDE DEF r, w, q
<1>9. PICK fd : fd = [Fresh EXCEPT ![3] = ReadEnd(q), ![4] = WriteEnd(q)]
  OBVIOUS
<1>10. u = [t EXCEPT !.fd = fd, !.flowThru = <<3, 4>>]
  BY <1>2, <1>4, <1>7, <1>8, <1>9
<1>11. /\ DOMAIN u = Fields /\ u.at = "loop" /\ u.fd = fd
       /\ u.flowThru = <<3, 4>> /\ u.parent = 0
  BY <1>4, <1>10 DEF Fields
<1>12. \A d \in Descriptors \ {3, 4} : fd[d] = Fresh[d]
  BY <1>9, FreshTable DEF Table
<1>13. FirstShell(u)
  BY <1>11, <1>12 DEF FirstShell
<1>14. QED
  BY <1>3, <1>5, <1>13

LEMMA FirstAdvanced ==
    ASSUME NEW s, Fit(s), FirstShell(s), s.at = "waiting"
    PROVE  FirstShell(Advanced(s))
<1>1. PICK fd : fd = close(s.fd, s.flowThru[1])
  OBVIOUS
<1>2. PICK t : t = [s EXCEPT !.fd = fd]
  OBVIOUS
<1>3. PICK u : u = [s EXCEPT !.at = "loop", !.current = @ + 1]
  OBVIOUS
<1>4. Advanced(s) = IF s.current < Len(s.commands) THEN u ELSE Prompting(t)
  BY <1>1, <1>2, <1>3 DEF Advanced
<1>5. /\ s.parent = 0 /\ s.flowThru = <<3, 4>>
      /\ \A d \in Descriptors \ {3, 4} : s.fd[d] = Fresh[d]
  BY DEF FirstShell
<1>6. CASE s.current < Len(s.commands)
  <2>1. /\ DOMAIN u = Fields /\ u.at = "loop" /\ u.fd = s.fd
        /\ u.flowThru = s.flowThru /\ u.parent = s.parent
    BY <1>3 DEF Fit, Fields
  <2>2. QED
    BY <1>4, <1>5, <1>6, <2>1 DEF FirstShell
<1>7. CASE ~(s.current < Len(s.commands))
  <2>1. s.fd[4] = Closed
    BY <1>7 DEF FirstShell
  <2>2. fd \in Table /\ \A d \in Descriptors : fd[d] = IF d = 3 THEN Closed ELSE s.fd[d]
    BY <1>1, <1>5, CloseTable DEF Fit
  <2>3. fd = Fresh
    BY <1>5, <2>1, <2>2, FreshFacts, FreshAgain
  <2>4. /\ DOMAIN t = Fields /\ t.fd = Fresh
        /\ t.flowThru = s.flowThru /\ t.parent = s.parent
    BY <1>2, <2>3 DEF Fit, Fields
  <2>5. PICK kept : kept = IF t.fd[stdIn][1] \in {"closed", "write"} THEN t.commands
                           ELSE <<>>
    OBVIOUS
  <2>6. Prompting(t) = [t EXCEPT !.at = "prompt", !.current = 1, !.commands = kept]
    BY <2>5 DEF Prompting
  <2>7. PICK v : v = Prompting(t)
    OBVIOUS
  <2>8. /\ v.at = "prompt" /\ v.fd = Fresh
        /\ v.flowThru = s.flowThru /\ v.parent = s.parent
    BY <2>4, <2>6, <2>7 DEF Fields
  <2>9. QED
    BY <1>4, <1>5, <1>7, <2>7, <2>8 DEF FirstShell
<1>8. QED
  BY <1>6, <1>7

(* Nothing that another process does reaches it. *)
LEMMA FirstUntouched ==
    ASSUME OpenInv, NEW p \in Processes, p # 1, User(p) \/ Step(p)
    PROVE  proc'[1] = proc[1]
<1>1. PICK n \in Nat : \E c \in [1 .. n -> Processes] : Chained(proc, n, c)
  BY DEF OpenInv, RunsInv, ChainInv
<1>2. PICK c \in [1 .. n -> Processes] : Chained(proc, n, c)
  BY <1>1
<1>3. 1 \in Processes
  BY ShellAssumption DEF Processes
<1>4. proc[1].at # "none" => proc[1].parent = 0
  BY DEF OpenInv, FirstInv, FirstShell
<1>5. 1 \notin Children(p)
  BY <1>4 DEF Children, Processes
<1>6. Exit(p) => proc'[1] = proc[1]
  BY <1>3, <1>5 DEF Exit
<1>7. proc = [x \in Processes |-> proc[x]]
  BY DEF OpenInv, TypesInv
<1>8. CASE ReadTerminal(p)
  BY <1>3, <1>6, <1>7, <1>8 DEF ReadTerminal
<1>9. CASE ReadInput(p)
  BY <1>3, <1>6, <1>7, <1>9 DEF ReadInput
<1>10. CASE Check(p)
  BY <1>3, <1>6, <1>7, <1>10 DEF Check
<1>11. CASE Again(p)
  BY <1>3, <1>7, <1>11 DEF Again
<1>12. CASE Fork(p)
  <2> DEFINE free == {x \in Processes : proc[x].at = "none"}
             k == Lowest(free)
  <2>1. proc[p].at = "loop"
    BY <1>12 DEF Fork
  <2>2. n > 0
    BY <1>2, <2>1, LastRuns
  <2>3. 1 \in 1 .. n /\ c[1] = 1
    BY <1>2, <2>2 DEF Chained
  <2>4. proc[1].at # "none"
    BY <1>2, <2>3 DEF Chained
  <2>5. ~(free # {} /\ 1 = k)
    <3>1. free \in SUBSET Nat /\ 1 \notin free
      BY <2>4 DEF Processes
    <3>2. QED
      BY <3>1, LowestOf
  <2>6. QED
    BY <1>3, <1>12, <2>5, Zenon DEF Fork
<1>13. CASE CloseWrite(p)
  BY <1>3, <1>7, <1>13 DEF CloseWrite
<1>14. CASE Wait(p)
  BY <1>3, <1>5, <1>7, <1>14 DEF Wait
<1>15. CASE Child(p)
  <2>1. PICK s : proc' = [proc EXCEPT ![p] = s]
    BY <1>15 DEF Child
  <2>2. QED
    BY <1>3, <1>7, <2>1
<1>16. CASE Write(p)
  BY <1>3, <1>6, <1>7, <1>16 DEF Write
<1>17. CASE Read(p)
  BY <1>3, <1>6, <1>7, <1>17 DEF Read
<1>18. CASE ReadTyped(p) \/ Finish(p)
  BY <1>3, <1>6, <1>7, <1>18 DEF ReadTyped, Finish
<1>19. QED
  BY <1>8, <1>9, <1>10, <1>11, <1>12, <1>13, <1>14, <1>15, <1>16, <1>17, <1>18
     DEF User, Step

LEMMA FirstHeld == OpenInv /\ Next => FirstInv'
<1> SUFFICES ASSUME OpenInv, NEW p \in Processes, User(p) \/ Step(p)
             PROVE  FirstShell(proc'[1])
  BY DEF Next, FirstInv
<1>1. CASE p # 1
  <2>1. proc'[1] = proc[1]
    BY <1>1, FirstUntouched
  <2>2. QED
    BY <2>1, Zenon DEF OpenInv, FirstInv
<1>2. CASE p = 1
  <2> DEFINE s == proc[1]
  <2>1. /\ proc = [x \in Processes |-> proc[x]]
        /\ Sound(s) /\ Fit(s) /\ DOMAIN s = Fields /\ s.fd \in Table
        /\ FirstShell(s)
    BY <1>2 DEF OpenInv, TypesInv, FirstInv, Sound, Fit
  <2>2. ASSUME Exit(1), s.at # "none" PROVE FirstShell(proc'[1])
    <3>1. s.parent = 0
      BY <2>1, <2>2 DEF FirstShell
    <3>2. proc'[1] = Nobody
      BY <1>2, <2>2, <3>1 DEF Exit, Gone
    <3>3. QED
      BY <3>2, NobodyFields DEF FirstShell
  <2>3. ASSUME NEW line, proc' = [proc EXCEPT ![1] = Parsed(@, line)],
               s.at = "prompt"
        PROVE  FirstShell(proc'[1])
    <3>1. PICK built : built = pipeline_build(line)
      OBVIOUS
    <3>2. PICK t : t = [s EXCEPT !.at = "read", !.line = line, !.pipeLine = built]
      OBVIOUS
    <3>3. proc'[1] = t
      BY <1>2, <2>1, <2>3, <3>1, <3>2 DEF Parsed
    <3>4. /\ t.at = "read" /\ t.fd = s.fd
          /\ t.flowThru = s.flowThru /\ t.parent = s.parent
      BY <2>1, <3>2 DEF Fields
    <3>5. QED
      BY <2>1, <2>3, <3>3, <3>4 DEF FirstShell
  <2>4. CASE ReadTerminal(1)
    BY <2>2, <2>3, <2>4 DEF ReadTerminal
  <2>5. CASE ReadInput(1)
    BY <2>2, <2>3, <2>5 DEF ReadInput
  <2>6. CASE Check(1)
    <3>1. PICK r : r = [s EXCEPT !.line = <<>>, !.pipeLine = Nobody.pipeLine]
      OBVIOUS
    <3>2. /\ DOMAIN r = Fields /\ r.at = s.at /\ r.parent = s.parent
          /\ r.fd = s.fd /\ r.flowThru = s.flowThru
      BY <2>1, <3>1 DEF Fields
    <3>3. s.at = "read"
      BY <2>6, <3>1, <3>2, Zenon DEF Check
    <3>4. Fit(r) /\ r.fd = Fresh /\ r.parent = 0 /\ r.flowThru = <<3, 4>>
      BY <2>1, <3>2, <3>3 DEF FirstShell, Fit
    <3>5. CASE Exit(1)
      BY <2>2, <3>3, <3>5
    <3>6. CASE proc' = [proc EXCEPT ![1] = [r EXCEPT !.at = "prompt"]]
      <4>1. PICK t : t = [r EXCEPT !.at = "prompt"]
        OBVIOUS
      <4>2. /\ t.at = "prompt" /\ t.fd = r.fd
            /\ t.flowThru = r.flowThru /\ t.parent = r.parent
        BY <3>2, <4>1 DEF Fields
      <4>3. proc'[1] = t
        BY <1>2, <2>1, <3>6, <4>1
      <4>4. QED
        BY <3>4, <4>2, <4>3 DEF FirstShell
    <3>7. CASE proc' = [proc EXCEPT ![1] = Started(r, s.pipeLine.commands)]
      <4>1. proc'[1] = Started(r, s.pipeLine.commands)
        BY <1>2, <2>1, <3>7
      <4>2. QED
        BY <3>4, <4>1, FirstStarted
    <3>8. QED
      BY <2>6, <3>1, <3>5, <3>6, <3>7, Zenon DEF Check
  <2>7. CASE Again(1)
    <3>1. s.at = "prompt" /\ s.fd = Fresh
      BY <2>1, <2>7 DEF Again, FirstShell
    <3>2. QED
      BY <2>7, <3>1, FreshFacts DEF Again, Terminal
  <2>8. CASE Fork(1)
    <3> DEFINE free == {x \in Processes : proc[x].at = "none"}
               k == Lowest(free)
    <3>1. s.at = "loop"
      BY <2>8 DEF Fork
    <3>2. ~(free # {} /\ 1 = k)
      <4>1. free \in SUBSET Nat /\ 1 \notin free
        BY <3>1 DEF Processes
      <4>2. QED
        BY <4>1, LowestOf
    <3>3. PICK t : t = [s EXCEPT !.at = "forked"]
      OBVIOUS
    <3>4. proc'[1] = t
      BY <1>2, <2>8, <3>2, <3>3, Zenon DEF Fork
    <3>5. /\ t.at = "forked" /\ t.fd = s.fd
          /\ t.flowThru = s.flowThru /\ t.parent = s.parent
      BY <2>1, <3>3 DEF Fields
    <3>6. QED
      BY <2>1, <3>1, <3>4, <3>5 DEF FirstShell
  <2>9. CASE CloseWrite(1)
    <3>1. s.at = "forked" /\ s.flowThru = <<3, 4>>
          /\ \A d \in Descriptors \ {3, 4} : s.fd[d] = Fresh[d]
      BY <2>1, <2>9 DEF CloseWrite, FirstShell
    <3>2. PICK fd : fd = IF s.current = Len(s.commands) THEN close(s.fd, 4) ELSE s.fd
      OBVIOUS
    <3>3. PICK t : t = [s EXCEPT !.at = "waiting", !.fd = fd]
      OBVIOUS
    <3>4. proc' = [proc EXCEPT ![1].at = "waiting", ![1].fd = fd]
      BY <2>9, <3>1, <3>2 DEF CloseWrite
    <3>5. proc'[1] = t
      BY <1>2, <2>1, <3>3, <3>4
    <3>6. /\ t.at = "waiting" /\ t.fd = fd
          /\ t.flowThru = s.flowThru /\ t.parent = s.parent
          /\ t.current = s.current /\ t.commands = s.commands
      BY <2>1, <3>3 DEF Fields
    <3>7. Built(s.commands) /\ s.current \in 1 .. Len(s.commands)
      BY <2>1, <3>1 DEF Sound, AtWork
    <3>8. \A d \in Descriptors \ {3, 4} : fd[d] = Fresh[d]
      BY <2>1, <3>1, <3>2, CloseTable
    <3>9. ~(s.current < Len(s.commands)) => fd[4] = Closed
      <4>1. close(s.fd, 4)[4] = Closed
        BY <2>1, CloseTable, FreshFacts
      <4>2. ~(s.current < Len(s.commands)) => s.current = Len(s.commands)
        BY <3>7 DEF Built
      <4>3. QED
        BY <3>2, <4>1, <4>2
    <3>10. s.parent = 0
      BY <2>1, <3>1 DEF FirstShell
    <3>11. QED
      BY <3>1, <3>5, <3>6, <3>8, <3>9, <3>10 DEF FirstShell
  <2>10. CASE Wait(1)
    <3>1. s.at = "waiting"
      BY <2>10 DEF Wait
    <3>2. proc'[1] = Advanced(s)
      <4>1. \A c \in Children(1) : proc[c].at = "zombie" => c # 1
        BY <3>1
      <4>2. QED
        BY <1>2, <2>1, <2>10, <4>1 DEF Wait
    <3>3. QED
      BY <2>1, <3>1, <3>2, FirstAdvanced
  <2>11. s.at \notin {"child", "program"}
    BY <2>1 DEF FirstShell
  <2>12. QED
    BY <1>2, <2>4, <2>5, <2>6, <2>7, <2>8, <2>9, <2>10, <2>11
       DEF User, Step, Child, Write, Read, ReadTyped, Finish
<1>3. QED
  BY <1>1, <1>2

LEMMA FirstInit == Init => FirstInv
<1> SUFFICES ASSUME Init PROVE FirstInv
  OBVIOUS
<1>1. PICK s : s = [Nobody EXCEPT !.at = "prompt", !.fd = Fresh]
  OBVIOUS
<1>2. s.at = "prompt" /\ s.parent = 0 /\ s.fd = Fresh /\ s.flowThru = <<3, 4>>
  BY <1>1 DEF Nobody
<1>3. 1 \in Processes
  BY ShellAssumption DEF Processes
<1>4. proc[1] = s
  BY <1>1, <1>3 DEF Init
<1>5. QED
  BY <1>2, <1>4 DEF FirstInv, FirstShell

(* Back at its prompt the shell that was started has its three standard    *)
(* descriptors and no other: whatever a line was and whatever became of    *)
(* its children, both ends of its pipe have been closed, the write end     *)
(* before the last child was waited for and the read end after it.         *)
THEOREM ShellClosesItsPipe == Spec => []NothingLeftOpen
<1>1. FirstInv => NothingLeftOpen
  BY DEF FirstInv, FirstShell, NothingLeftOpen
<1>2. RunsInv /\ TypesInv /\ FirstInv /\ [Next]_shellVars => FirstInv'
  <2>1. FirstInv /\ UNCHANGED shellVars => FirstInv'
    BY DEF FirstInv, FirstShell, shellVars
  <2>2. QED
    BY <2>1, FirstHeld DEF OpenInv
<1>3. Spec => []TypesInv
  BY TypesAlways
<1>4. QED
  BY <1>1, <1>2, <1>3, FirstInit, RunsAlways, PTL DEF Spec
=============================================================================
