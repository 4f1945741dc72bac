--------------------------- MODULE Linking_proofs ---------------------------
(***************************************************************************)
(* Proofs about the modules that Linking joins: where modules come to be   *)
(* and what they become, and what the last stage of linking makes of the   *)
(* game's functions.  For any number of modules, of sections, of           *)
(* relocations and of names, and any width of a word, the memory that is   *)
(* kept free for modules is what they use, the words that refer to others  *)
(* are right, the replacements of a function are called in the order of    *)
(* the modules, each one once, and linking fails only for a reason.        *)
(***************************************************************************)
EXTENDS Layout, Reloc, Link, SequenceTheorems, FiniteSetTheorems, WellFoundedInduction, TLAPS

-----------------------------------------------------------------------------
(* Induction over the natural numbers, and sums. *)

\* A set of natural numbers that is not empty has a least member.
LEMMA LeastOf ==
    ASSUME NEW T, T \subseteq Nat, T # {}
    PROVE  \E x \in T : \A y \in T : x <= y
  <1> DEFINE Less == OpToRel(<, Nat)
  <1>1. IsWellFoundedOn(Less, Nat)
    BY NatLessThanWellFounded
  <1>2. \A x, y \in Nat : y < x => <<y, x>> \in Less
    BY DEF OpToRel
  <1> HIDE DEF Less
  <1>3. PICK x \in T : \A y \in T : ~(<<y, x>> \in Less)
    BY <1>1, WFMin
  <1>4. ASSUME NEW y \in T PROVE x <= y
    <2>1. x \in Nat /\ y \in Nat
      BY <1>3
    <2>2. ~(y < x)
      BY <1>2, <1>3, <2>1
    <2> QED BY <2>1, <2>2
  <1> QED BY <1>3, <1>4

\* A set with 0 and with the successor of each of its numbers has all numbers.
LEMMA Induction ==
    ASSUME NEW T, 0 \in T, \A n \in Nat : n \in T => n + 1 \in T
    PROVE  Nat \subseteq T
  <1> DEFINE U == {n \in Nat : n \notin T}
  <1> SUFFICES ASSUME U # {} PROVE FALSE
    OBVIOUS
  <1> HIDE DEF U
  <1>1. U \subseteq Nat
    BY DEF U
  <1>2. PICK x \in U : \A y \in U : x <= y
    BY <1>1, LeastOf
  <1>3. x \in Nat /\ x \notin T /\ x # 0
    BY <1>2 DEF U
  <1>4. x - 1 \in Nat /\ (x - 1) + 1 = x /\ ~(x <= x - 1)
    BY <1>3
  <1>5. x - 1 \in T
    BY <1>2, <1>4 DEF U
  <1> QED BY <1>3, <1>4, <1>5

\* s is the sums of the first numbers of f, up to n of them.
IsSums(s, f, n) == s = [i \in 0 .. n |-> IF i = 0 THEN 0 ELSE s[i - 1] + f[i]]

\* The sums exist.
LEMMA SumsExist ==
    ASSUME NEW f
    PROVE  \A n \in Nat : \E s : IsSums(s, f, n)
  <1> DEFINE T == {n \in Nat : \E s : IsSums(s, f, n)}
  <1>1. 0 \in T
    <2>1. IsSums([i \in 0 .. 0 |-> 0], f, 0)
      BY DEF IsSums
    <2> QED BY <2>1
  <1>2. ASSUME NEW n \in Nat, n \in T PROVE n + 1 \in T
    <2>1. PICK s : s = [i \in 0 .. n |-> IF i = 0 THEN 0 ELSE s[i - 1] + f[i]]
      BY <1>2 DEF IsSums
    <2>2. PICK t : t = [i \in 0 .. n + 1 |-> IF i = n + 1 THEN s[n] + f[n + 1] ELSE s[i]]
      OBVIOUS
    <2>3. \A i \in 0 .. n + 1 : t[i] = IF i = 0 THEN 0 ELSE t[i - 1] + f[i]
      <3> TAKE i \in 0 .. n + 1
      <3>1. CASE i = n + 1
        BY <2>2, <3>1
      <3>2. CASE i # n + 1
        <4>1. i \in 0 .. n /\ (i # 0 => i - 1 \in 0 .. n /\ i - 1 \in 0 .. n + 1 /\ i - 1 # n + 1)
          BY <3>2
        <4>2. t[i] = s[i] /\ s[i] = IF i = 0 THEN 0 ELSE s[i - 1] + f[i]
          BY <2>1, <2>2, <3>2, <4>1
        <4> QED BY <2>2, <4>1, <4>2
      <3> QED BY <3>1, <3>2
    <2>4. t = [i \in 0 .. n + 1 |-> t[i]]
      BY <2>2
    <2>5. IsSums(t, f, n + 1)
      BY <2>3, <2>4 DEF IsSums
    <2> QED BY <2>5
  <1> HIDE DEF T
  <1>3. Nat \subseteq T
    BY <1>1, <1>2, Induction
  <1> QED BY <1>3 DEF T

\* The sums up to n are the first of those up to m.
LEMMA SumsAgree ==
    ASSUME NEW f, NEW g, NEW n \in Nat, NEW m \in Nat, n <= m,
           \A i \in 1 .. n : f[i] = g[i],
           NEW s, IsSums(s, f, n), NEW t, IsSums(t, g, m)
    PROVE  \A i \in 0 .. n : s[i] = t[i]
  <1> DEFINE T == {i \in Nat : i <= n => s[i] = t[i]}
  <1>0. /\ \A i \in 0 .. n : s[i] = IF i = 0 THEN 0 ELSE s[i - 1] + f[i]
        /\ \A i \in 0 .. m : t[i] = IF i = 0 THEN 0 ELSE t[i - 1] + g[i]
    BY DEF IsSums
  <1>1. 0 \in T
    BY <1>0
  <1>2. ASSUME NEW i \in Nat, i \in T PROVE i + 1 \in T
    <2> SUFFICES ASSUME i + 1 <= n PROVE s[i + 1] = t[i + 1]
      OBVIOUS
    <2>1. i + 1 \in 0 .. n /\ i + 1 \in 0 .. m /\ i + 1 \in 1 .. n /\ (i + 1) - 1 = i /\ i + 1 # 0
      OBVIOUS
    <2>2. s[i] = t[i]
      BY <1>2
    <2> QED BY <1>0, <2>1, <2>2
  <1> HIDE DEF T
  <1>3. Nat \subseteq T
    BY <1>1, <1>2, Induction
  <1> QED BY <1>3 DEF T

\* A sum is the sum without its last number, and that number.
LEMMA SumStep ==
    ASSUME NEW f
    PROVE  /\ SumTo(f, 0) = 0
           /\ \A n \in Nat : SumTo(f, n + 1) = SumTo(f, n) + f[n + 1]
           /\ \A g : \A n \in Nat : (\A i \in 1 .. n : f[i] = g[i]) => SumTo(f, n) = SumTo(g, n)
  <1>1. ASSUME NEW g, NEW n \in Nat PROVE \E s : IsSums(s, g, n) /\ SumTo(g, n) = s[n]
    <2> DEFINE c == CHOOSE s : IsSums(s, g, n)
    <2>1. IsSums(c, g, n)
      BY SumsExist
    <2>2. SumTo(g, n) = c[n]
      BY DEF SumTo, IsSums
    <2> QED BY <2>1, <2>2
  <1>2. SumTo(f, 0) = 0
    BY <1>1 DEF IsSums
  <1>3. ASSUME NEW n \in Nat PROVE SumTo(f, n + 1) = SumTo(f, n) + f[n + 1]
    <2>1. PICK s : IsSums(s, f, n) /\ SumTo(f, n) = s[n]
      BY <1>1
    <2>2. PICK t : IsSums(t, f, n + 1) /\ SumTo(f, n + 1) = t[n + 1]
      <3>1. n + 1 \in Nat
        OBVIOUS
      <3> QED BY <1>1, <3>1
    <2>3. n + 1 \in Nat /\ n <= n + 1 /\ n \in 0 .. n
      OBVIOUS
    <2>4. s[n] = t[n]
      <3>1. PICK g, m : g = f /\ m = n + 1
        OBVIOUS
      <3>2. /\ n \in Nat /\ m \in Nat /\ n <= m /\ (\A i \in 1 .. n : f[i] = g[i])
            /\ IsSums(s, f, n) /\ IsSums(t, g, m)
        BY <2>1, <2>2, <2>3, <3>1
      <3>3. \A i \in 0 .. n : s[i] = t[i]
        BY ONLY <3>2, SumsAgree
      <3> QED BY <2>3, <3>3
    <2>5. t[n + 1] = t[n] + f[n + 1]
      <3>1. n + 1 \in 0 .. n + 1 /\ n + 1 # 0 /\ (n + 1) - 1 = n
        OBVIOUS
      <3> QED BY <2>2, <3>1 DEF IsSums
    <2> QED BY <2>1, <2>2, <2>4, <2>5
  <1>4. ASSUME NEW g, NEW n \in Nat, \A i \in 1 .. n : f[i] = g[i] PROVE SumTo(f, n) = SumTo(g, n)
    <2>1. PICK s : IsSums(s, f, n) /\ SumTo(f, n) = s[n]
      BY <1>1
    <2>2. PICK t : IsSums(t, g, n) /\ SumTo(g, n) = t[n]
      BY <1>1
    <2>3. n <= n /\ n \in 0 .. n
      OBVIOUS
    <2>4. s[n] = t[n]
      <3>1. /\ n \in Nat /\ n <= n /\ (\A i \in 1 .. n : f[i] = g[i])
            /\ IsSums(s, f, n) /\ IsSums(t, g, n)
        BY <1>4, <2>1, <2>2, <2>3
      <3>2. \A i \in 0 .. n : s[i] = t[i]
        BY ONLY <3>1, SumsAgree
      <3> QED BY <2>3, <3>2
    <2> QED BY <2>1, <2>2, <2>4
  <1> QED BY <1>2, <1>3, <1>4

\* The sum of natural numbers is one, and grows.
LEMMA SumNat ==
    ASSUME NEW f, NEW n \in Nat, \A i \in 1 .. n : f[i] \in Nat
    PROVE  /\ SumTo(f, n) \in Nat
           /\ \A m \in 0 .. n : SumTo(f, m) \in Nat /\ SumTo(f, m) <= SumTo(f, n)
  <1> DEFINE T == {k \in Nat : k <= n => SumTo(f, k) \in Nat /\ \A m \in 0 .. k : SumTo(f, m) \in Nat /\ SumTo(f, m) <= SumTo(f, k)}
  <1>1. 0 \in T
    BY SumStep
  <1>2. ASSUME NEW k \in Nat, k \in T PROVE k + 1 \in T
    <2> SUFFICES ASSUME k + 1 <= n
                 PROVE  SumTo(f, k + 1) \in Nat /\ \A m \in 0 .. k + 1 : SumTo(f, m) \in Nat /\ SumTo(f, m) <= SumTo(f, k + 1)
      OBVIOUS
    <2>1. SumTo(f, k) \in Nat /\ \A m \in 0 .. k : SumTo(f, m) \in Nat /\ SumTo(f, m) <= SumTo(f, k)
      BY <1>2
    <2>2. k + 1 \in 1 .. n
      OBVIOUS
    <2>3. PICK a, b : a = SumTo(f, k) /\ b = f[k + 1] /\ SumTo(f, k + 1) = a + b
      BY SumStep
    <2>4. a \in Nat /\ b \in Nat
      BY <2>1, <2>2, <2>3
    <2>5. \A m \in 0 .. k + 1 : m = k + 1 \/ m \in 0 .. k
      OBVIOUS
    <2> QED BY <2>1, <2>3, <2>4, <2>5
  <1> HIDE DEF T
  <1>3. Nat \subseteq T
    BY <1>1, <1>2, Induction
  <1> QED BY <1>3 DEF T

\* The quotient of natural numbers.
LEMMA DivNat ==
    ASSUME NEW n \in Nat \ {0}, NEW x \in Nat
    PROVE  x \div n \in Nat
  <1>1. PICK p, r : p = x \div n /\ r = x % n
    OBVIOUS
  <1>2. p \in Int /\ r \in 0 .. n - 1 /\ x = n * p + r
    BY <1>1
  <1>3. p \in Nat
    <2> SUFFICES ASSUME p <= -1 PROVE FALSE
      BY <1>2
    <2>1. n * p <= n * (-1)
      BY <1>2
    <2>2. n * p \in Int
      BY <1>2
    <2> QED BY <1>2, <2>1, <2>2
  <1> QED BY <1>1, <1>3

-----------------------------------------------------------------------------
(***************************************************************************)
(* The memory for modules.  When the sections are word aligned, everything *)
(* is counted in words: the estimate is the sum over all sections, and     *)
(* what is linked is the sum over the sections before the current one.     *)
(***************************************************************************)

Sections == Load \cup PlainSections

\* The words that a section takes, with the longest stub for each entry.
Words(sec) == IF sec.type = "load" THEN 3 * sec.entries ELSE (sec.sh_size + 3) \div 4
WordsOf(secs) == [i \in 1 .. Len(secs) |-> Words(secs[i])]
ModuleWords(secs) == SumTo(WordsOf(secs), Len(secs))
ModulesWords(mods) == [m \in 1 .. Len(mods) |-> ModuleWords(mods[m])]

\* The words of the modules before module m, and of its sections before section i.
WordsBefore(m, i) ==
    SumTo(ModulesWords(modules), m - 1)
        + (IF m <= Len(modules) THEN SumTo(WordsOf(modules[m]), i - 1) ELSE 0)

LayoutTyped ==
    /\ phase \in {"load", "link", "replace", "done"}
    /\ modules \in Seq(Seq(Sections)) /\ Len(modules) >= 1
    /\ size \in Nat /\ module_list_size \in Nat /\ module_entries_count \in Nat /\ used \in Nat
    /\ shorter \in BOOLEAN /\ (phase \in {"load", "link"} => ~shorter)

Loading ==
    phase = "load" =>
        /\ current = <<1, 1>> /\ module_entries_count = 0 /\ used = 0
        /\ \A m \in 1 .. Len(modules) - 1 : HasLoad(modules[m])
        /\ WordAligned => /\ size = 4 * ModuleWords(modules[Len(modules)])
                          /\ module_list_size = 4 * SumTo(ModulesWords(modules), Len(modules) - 1)

Placing ==
    phase = "link" =>
        /\ \A m \in 1 .. Len(modules) : HasLoad(modules[m])
        /\ \E m \in 1 .. Len(modules) : \E i \in 1 .. Len(modules[m]) : current = <<m, i>>
        /\ WordAligned => /\ used + 12 * module_entries_count = 4 * WordsBefore(current[1], current[2])
                          /\ 4 * SumTo(ModulesWords(modules), Len(modules)) <= module_list_size

LayoutInv == LayoutTyped /\ Loading /\ Placing /\ WordAlignedFits

\* What a section takes in words, when it is word aligned.
LEMMA WordsFacts ==
    ASSUME NEW sec \in Sections
    PROVE  /\ Words(sec) \in Nat
           /\ sec.type = "load" => sec.entries \in Nat /\ 12 * sec.entries = 4 * Words(sec)
           /\ sec.type # "load" => /\ sec.type = "plain" /\ sec.sh_size \in Nat
                                   /\ \A n \in Nat : RoundUp(n + sec.sh_size, Alignment(sec)) \in Nat
                                   /\ sec.sh_addralign <= 4 => \A n \in Nat :
                                          RoundUp(4 * n + sec.sh_size, Alignment(sec)) = 4 * (n + Words(sec))
  <1>1. CASE sec \in Load
    <2>1. sec.type = "load" /\ sec.entries \in Nat
      BY <1>1, LayoutAssumption DEF Load
    <2> QED BY <2>1 DEF Words
  <1>2. CASE sec \in PlainSections
    <2>1. PICK h, a : h = sec.sh_size /\ a = Alignment(sec)
      OBVIOUS
    <2>2. /\ sec.type = "plain" /\ h \in Nat /\ a \in Nat \ {0}
          /\ sec.sh_addralign <= 4 => a = 4
      BY <1>2, <2>1, LayoutAssumption DEF PlainSections, Alignment
    <2>3. ASSUME NEW n \in Nat PROVE RoundUp(n + h, a) \in Nat
      <3>1. n + h + a - 1 \in Nat
        BY <2>2
      <3>2. (n + h + a - 1) \div a \in Nat
        BY <2>2, <3>1, DivNat
      <3> QED BY <2>2, <3>2 DEF RoundUp
    <2>4. ASSUME NEW n \in Nat, a = 4 PROVE RoundUp(4 * n + h, a) = 4 * (n + (h + 3) \div 4)
      BY <2>2, <2>4 DEF RoundUp
    <2>5. Words(sec) = (h + 3) \div 4
      BY <2>1, <2>2 DEF Words
    <2>6. Words(sec) \in Nat
      BY <2>2, <2>5
    <2> QED BY <2>1, <2>2, <2>3, <2>4, <2>5, <2>6
  <1> QED BY <1>1, <1>2 DEF Sections

\* The words of a module are natural numbers and add up.
LEMMA ModuleWordsFacts ==
    ASSUME NEW secs \in Seq(Sections)
    PROVE  /\ ModuleWords(secs) \in Nat
           /\ \A i \in 1 .. Len(secs) : /\ WordsOf(secs)[i] = Words(secs[i]) /\ secs[i] \in Sections
                                        /\ SumTo(WordsOf(secs), i - 1) \in Nat
                                        /\ SumTo(WordsOf(secs), i) = SumTo(WordsOf(secs), i - 1) + Words(secs[i])
           /\ SumTo(WordsOf(secs), 0) = 0
           /\ \A sec \in Sections : ModuleWords(Append(secs, sec)) = ModuleWords(secs) + Words(sec)
  <1>1. Len(secs) \in Nat /\ \A i \in 1 .. Len(secs) : secs[i] \in Sections
    BY ElementOfSeq, LenProperties
  <1>2. PICK n, f : n = Len(secs) /\ f = WordsOf(secs)
    OBVIOUS
  <1>3. \A i \in 1 .. n : f[i] = Words(secs[i]) /\ f[i] \in Nat
    BY <1>1, <1>2, WordsFacts DEF WordsOf
  <1>4. SumTo(f, n) \in Nat /\ \A m \in 0 .. n : SumTo(f, m) \in Nat
    BY <1>1, <1>2, <1>3, SumNat
  <1>5. ASSUME NEW i \in 1 .. n
        PROVE  SumTo(f, i - 1) \in Nat /\ SumTo(f, i) = SumTo(f, i - 1) + Words(secs[i])
    <2>1. i - 1 \in 0 .. n /\ i - 1 \in Nat /\ (i - 1) + 1 = i
      BY <1>1, <1>2
    <2>2. SumTo(f, (i - 1) + 1) = SumTo(f, i - 1) + f[(i - 1) + 1]
      BY <2>1, SumStep
    <2> QED BY <1>3, <1>4, <2>1, <2>2
  <1>6. ASSUME NEW sec \in Sections
        PROVE  ModuleWords(Append(secs, sec)) = ModuleWords(secs) + Words(sec)
    <2>1. PICK t, g : t = Append(secs, sec) /\ g = WordsOf(t)
      OBVIOUS
    <2>2. /\ Len(t) = n + 1 /\ t[n + 1] = sec /\ \A i \in 1 .. n : t[i] = secs[i]
      BY <1>2, <2>1, AppendProperties
    <2>3. g[n + 1] = Words(sec) /\ \A i \in 1 .. n : f[i] = g[i]
      BY <1>1, <1>2, <1>3, <2>1, <2>2 DEF WordsOf
    <2>4. SumTo(g, n + 1) = SumTo(g, n) + g[n + 1] /\ SumTo(f, n) = SumTo(g, n)
      BY <1>1, <1>2, <2>3, SumStep
    <2> QED BY <1>2, <2>1, <2>2, <2>3, <2>4 DEF ModuleWords
  <1>7. SumTo(f, 0) = 0
    BY SumStep
  <1> QED BY <1>2, <1>3, <1>1, <1>4, <1>5, <1>6, <1>7 DEF ModuleWords

\* So do those of the modules; they depend on no other module.
LEMMA ModulesWordsFacts ==
    ASSUME NEW mods \in Seq(Seq(Sections))
    PROVE  /\ \A m \in 0 .. Len(mods) : SumTo(ModulesWords(mods), m) \in Nat
           /\ \A m \in 1 .. Len(mods) :
                  SumTo(ModulesWords(mods), m) = SumTo(ModulesWords(mods), m - 1) + ModuleWords(mods[m])
           /\ SumTo(ModulesWords(mods), 0) = 0
           /\ \A others \in Seq(Seq(Sections)) : \A m \in 0 .. Len(mods) :
                  m <= Len(others) /\ (\A k \in 1 .. m : others[k] = mods[k])
                      => SumTo(ModulesWords(others), m) = SumTo(ModulesWords(mods), m)
  <1>1. ASSUME NEW t \in Seq(Seq(Sections)) PROVE Len(t) \in Nat /\ \A m \in 1 .. Len(t) : t[m] \in Seq(Sections)
    BY ElementOfSeq, LenProperties
  <1>2. PICK n, f : n = Len(mods) /\ f = ModulesWords(mods)
    OBVIOUS
  <1>3. n \in Nat /\ \A m \in 1 .. n : f[m] = ModuleWords(mods[m]) /\ f[m] \in Nat
    BY <1>1, <1>2, ModuleWordsFacts DEF ModulesWords
  <1>4. \A m \in 0 .. n : SumTo(f, m) \in Nat
    BY <1>3, SumNat
  <1>5. ASSUME NEW m \in 1 .. n
        PROVE  SumTo(f, m) = SumTo(f, m - 1) + ModuleWords(mods[m])
    <2>1. m - 1 \in Nat /\ (m - 1) + 1 = m
      BY <1>3
    <2>2. SumTo(f, (m - 1) + 1) = SumTo(f, m - 1) + f[(m - 1) + 1]
      BY <2>1, SumStep
    <2> QED BY <1>3, <2>1, <2>2
  <1>6. ASSUME NEW others \in Seq(Seq(Sections)), NEW m \in 0 .. n, m <= Len(others),
               \A k \in 1 .. m : others[k] = mods[k]
        PROVE  SumTo(ModulesWords(others), m) = SumTo(f, m)
    <2>1. PICK g : g = ModulesWords(others)
      OBVIOUS
    <2>2. m \in Nat /\ Len(others) \in Nat
      BY <1>1, <1>3
    <2>3. \A k \in 1 .. m : f[k] = g[k]
      BY <1>2, <1>3, <1>6, <2>1, <2>2 DEF ModulesWords
    <2>4. SumTo(f, m) = SumTo(g, m)
      BY <2>2, <2>3, SumStep
    <2> QED BY <2>1, <2>4
  <1>7. SumTo(f, 0) = 0
    BY SumStep
  <1> QED BY <1>2, <1>4, <1>5, <1>6, <1>7

-----------------------------------------------------------------------------
(* Each action. *)

\* An empty module takes no memory.
LEMMA EmptyModule == << >> \in Seq(Sections) /\ Len(<< >>) = 0 /\ ModuleWords(<< >>) = 0
  <1>1. << >> \in Seq(Sections) /\ Len(<< >>) = 0
    BY EmptySeq
  <1> QED BY <1>1, SumStep DEF ModuleWords

\* The first module is empty.
LEMMA LayoutInvInit ==
    ASSUME LayoutInit
    PROVE  LayoutInv
  <1> USE DEF LayoutInit
  <1>1. PICK e : e = << >> /\ e \in Seq(Sections) /\ modules = <<e>>
    BY EmptyModule
  <1>2. modules \in Seq(Seq(Sections)) /\ Len(modules) = 1 /\ modules[1] = << >>
    BY <1>1
  <1>3. LayoutTyped
    <2>1. ~shorter /\ shorter \in BOOLEAN
      BY Zenon
    <2>2. /\ phase = "load" /\ Len(modules) >= 1
          /\ size \in Nat /\ module_list_size \in Nat /\ module_entries_count \in Nat /\ used \in Nat
      BY <1>2
    <2>3. phase \in {"load", "link", "replace", "done"}
      BY <2>2
    <2> HIDE DEF LayoutInit
    <2> QED BY <1>2, <2>1, <2>2, <2>3, Zenon DEF LayoutTyped
  <1>4. Loading
    <2>1. SumTo(ModulesWords(modules), 0) = 0
      BY <1>2, ModulesWordsFacts
    <2>2. Len(modules) - 1 = 0 /\ 1 .. 0 = {} /\ ModuleWords(modules[Len(modules)]) = 0
      BY <1>2, EmptyModule
    <2> QED BY <2>1, <2>2 DEF Loading
  <1> QED BY <1>3, <1>4 DEF LayoutInv, Placing, WordAlignedFits

\* Module_LoadElf: the estimate grows by the words of the section.
LEMMA LoadSectionKeeps ==
    ASSUME LayoutInv, NEW sec \in Sections, LoadSection(sec)
    PROVE  LayoutInv'
  <1> DEFINE n == Len(modules)
  <1>1. /\ modules \in Seq(Seq(Sections)) /\ n \in Nat /\ n >= 1 /\ phase = "load" /\ phase' = "load"
        /\ n \in 1 .. n /\ modules[n] \in Seq(Sections)
    <2>1. /\ modules \in Seq(Seq(Sections)) /\ n >= 1 /\ phase = "load" /\ phase' = "load"
      BY DEF LayoutInv, LayoutTyped, LoadSection
    <2> QED BY <2>1, LenProperties, ElementOfSeq
  <1>2. PICK secs : secs = Append(modules[n], sec) /\ secs \in Seq(Sections)
    BY <1>1, AppendProperties
  <1>3. /\ modules' \in Seq(Seq(Sections)) /\ Len(modules') = n /\ modules'[n] = secs
        /\ \A m \in 1 .. n - 1 : modules'[m] = modules[m]
    <2>1. modules' = [modules EXCEPT ![n] = secs]
      BY <1>2 DEF LoadSection
    <2>2. modules \in Seq(Seq(Sections)) /\ n \in 1 .. Len(modules) /\ secs \in Seq(Sections)
      BY <1>1, <1>2
    <2>3. /\ modules' \in Seq(Seq(Sections)) /\ Len(modules') = n
          /\ \A m \in 1 .. n : modules'[m] = IF m = n THEN secs ELSE modules[m]
      BY <2>1, <2>2, ExceptSeq
    <2> QED BY <1>1, <2>3
  <1>4. size' \in Nat /\ UNCHANGED <<module_list_size, current, module_entries_count, used, shorter>>
    <2>1. size \in Nat
      BY DEF LayoutInv, LayoutTyped
    <2>2. CASE sec.type = "load"
      BY <2>1, <2>2, WordsFacts DEF LoadSection, Estimate
    <2>3. CASE sec.type # "load"
      BY <2>1, <2>3, WordsFacts DEF LoadSection, Estimate
    <2> QED BY <2>2, <2>3 DEF LoadSection
  <1>5. ASSUME WordAligned'
        PROVE  WordAligned /\ size' = 4 * ModuleWords(secs)
    <2>1. \A m \in 1 .. n : \A i \in 1 .. Len(modules'[m]) :
              modules'[m][i].type = "plain" => modules'[m][i].sh_addralign <= 4
      BY <1>3, <1>5 DEF WordAligned
    <2>2. /\ Len(secs) = Len(modules[n]) + 1 /\ secs[Len(modules[n]) + 1] = sec /\ Len(modules[n]) \in Nat
          /\ \A i \in 1 .. Len(modules[n]) : secs[i] = modules[n][i]
      BY <1>1, <1>2, AppendProperties, LenProperties
    <2>3. sec.type = "plain" => sec.sh_addralign <= 4
      BY <1>1, <1>3, <2>1, <2>2
    <2>4. ASSUME NEW m \in 1 .. n, NEW i \in 1 .. Len(modules[m]), modules[m][i].type = "plain"
          PROVE  modules[m][i].sh_addralign <= 4
      <3>1. CASE m = n
        BY <1>1, <1>3, <2>1, <2>2, <2>4, <3>1
      <3>2. CASE m # n
        <4>1. modules'[m] = modules[m]
          BY <1>1, <1>3, <3>2
        <4> QED BY <2>1, <2>4, <4>1
      <3> QED BY <3>1, <3>2
    <2>5. WordAligned
      BY <2>4 DEF WordAligned
    <2>6. size = 4 * ModuleWords(modules[n])
      BY <1>1, <2>5 DEF LayoutInv, Loading
    <2>7. PICK a, w : a = ModuleWords(modules[n]) /\ w = Words(sec) /\ a \in Nat /\ w \in Nat /\ ModuleWords(secs) = a + w
      BY <1>1, <1>2, ModuleWordsFacts, WordsFacts
    <2>8. CASE sec.type = "load"
      <3>1. PICK e : e = sec.entries
        OBVIOUS
      <3>2. size' = size + e * 12 /\ e \in Nat /\ 12 * e = 4 * w
        BY <2>7, <2>8, <3>1, WordsFacts DEF LoadSection, Estimate
      <3>3. size' = 4 * (a + w)
        BY <2>6, <2>7, <3>2
      <3> QED BY <2>5, <2>7, <3>3
    <2>9. CASE sec.type # "load"
      <3>1. sec.type = "plain" /\ size' = RoundUp(4 * a + sec.sh_size, Alignment(sec))
        BY <2>6, <2>7, <2>9, WordsFacts DEF LoadSection, Estimate
      <3>2. size' = 4 * (a + w)
        BY <2>3, <2>7, <2>9, <3>1, WordsFacts
      <3> QED BY <2>5, <2>7, <3>2
    <2> QED BY <2>8, <2>9
  <1>6. LayoutTyped'
    BY <1>1, <1>3, <1>4 DEF LayoutInv, LayoutTyped
  <1>7. Loading'
    <2>1. /\ current' = <<1, 1>> /\ module_entries_count' = 0 /\ used' = 0
          /\ \A m \in 1 .. n - 1 : HasLoad(modules'[m])
      BY <1>1, <1>3, <1>4 DEF LayoutInv, Loading
    <2>2. ASSUME WordAligned'
          PROVE  module_list_size' = 4 * SumTo(ModulesWords(modules'), n - 1)
      <3>1. module_list_size' = 4 * SumTo(ModulesWords(modules), n - 1)
        BY <1>1, <1>4, <1>5, <2>2 DEF LayoutInv, Loading
      <3>2. n - 1 \in 0 .. Len(modules) /\ n - 1 <= Len(modules')
        BY <1>1, <1>3
      <3>3. SumTo(ModulesWords(modules'), n - 1) = SumTo(ModulesWords(modules), n - 1)
        BY <1>1, <1>3, <3>2, ModulesWordsFacts
      <3> QED BY <3>1, <3>3
    <2> QED BY <1>3, <1>5, <2>1, <2>2 DEF Loading
  <1> QED BY <1>1, <1>6, <1>7 DEF LayoutInv, Placing, WordAlignedFits

\* A module is put on the list.
LEMMA ModuleLoadedKeeps ==
    ASSUME LayoutInv, ModuleLoaded
    PROVE  LayoutInv'
  <1> DEFINE n == Len(modules)
             sum == module_list_size + RoundUp(size, 4)
  <1>1. /\ modules \in Seq(Seq(Sections)) /\ n \in Nat /\ n >= 1 /\ phase = "load"
        /\ n \in 1 .. n /\ modules[n] \in Seq(Sections) /\ HasLoad(modules[n])
        /\ size \in Nat /\ module_list_size \in Nat
        /\ UNCHANGED <<current, module_entries_count, used, shorter>> /\ size' = 0 /\ ~shorter
        /\ current = <<1, 1>> /\ module_entries_count = 0 /\ used = 0
        /\ \A m \in 1 .. n : HasLoad(modules[m])
    <2>1. /\ modules \in Seq(Seq(Sections)) /\ n >= 1 /\ phase = "load" /\ HasLoad(modules[n])
          /\ size \in Nat /\ module_list_size \in Nat
          /\ UNCHANGED <<current, module_entries_count, used, shorter>> /\ size' = 0 /\ ~shorter
          /\ current = <<1, 1>> /\ module_entries_count = 0 /\ used = 0
          /\ \A m \in 1 .. n - 1 : HasLoad(modules[m])
      BY DEF LayoutInv, LayoutTyped, ModuleLoaded, Loading
    <2>2. n \in Nat /\ modules[n] \in Seq(Sections)
      BY <2>1, LenProperties, ElementOfSeq
    <2>3. \A m \in 1 .. n : m = n \/ m \in 1 .. n - 1
      BY <2>2
    <2> QED BY <2>1, <2>2, <2>3
  <1>2. sum \in Nat /\ RoundUp(sum, 32) \in Nat /\ sum <= RoundUp(sum, 32)
    <2>1. RoundUp(size, 4) \in Nat
      BY <1>1 DEF RoundUp
    <2>2. sum \in Nat
      BY <1>1, <2>1
    <2> HIDE DEF sum
    <2> QED BY <2>2 DEF RoundUp
  <1>3. PICK t : t = SumTo(ModulesWords(modules), n) /\ t \in Nat /\ (WordAligned => sum = 4 * t)
    <2>1. PICK a, b : /\ a = SumTo(ModulesWords(modules), n - 1) /\ b = ModuleWords(modules[n])
                      /\ a \in Nat /\ b \in Nat /\ SumTo(ModulesWords(modules), n) = a + b
      <3>1. n - 1 \in 0 .. n
        BY <1>1
      <3> QED BY <1>1, <3>1, ModulesWordsFacts, ModuleWordsFacts
    <2>2. WordAligned => size = 4 * b /\ module_list_size = 4 * a
      BY <1>1, <2>1 DEF LayoutInv, Loading
    <2>3. RoundUp(4 * b, 4) = 4 * b
      <3>0. b \in Nat
        BY <2>1
      <3>1. 4 * b + 4 - 1 = 4 * b + 3 /\ (4 * b + 3) \div 4 = b
        BY ONLY <3>0
      <3>2. RoundUp(4 * b, 4) = ((4 * b + 4 - 1) \div 4) * 4
        BY DEF RoundUp
      <3> QED BY <2>1, <3>1, <3>2
    <2>4. WordAligned => sum = 4 * a + 4 * b
      BY <2>2, <2>3
    <2> QED BY <2>1, <2>4
  <1> HIDE DEF sum
  <1>4. \/ n < MaxModules /\ modules' = Append(modules, << >>) /\ module_list_size' = sum /\ phase' = phase
        \/ module_list_size' = RoundUp(sum, 32) /\ phase' = "link" /\ modules' = modules
    BY DEF ModuleLoaded, sum
  <1>5. CASE modules' = Append(modules, << >>) /\ module_list_size' = sum /\ phase' = phase
    <2>1. PICK e : e = << >> /\ e \in Seq(Sections) /\ ModuleWords(e) = 0 /\ Len(e) = 0
      BY EmptyModule
    <2>2. /\ modules' \in Seq(Seq(Sections)) /\ Len(modules') = n + 1 /\ modules'[n + 1] = e
          /\ \A m \in 1 .. n : modules'[m] = modules[m]
      BY <1>1, <1>5, <2>1, AppendProperties
    <2>3. WordAligned' => WordAligned
      BY <1>1, <2>2 DEF WordAligned
    <2>4. SumTo(ModulesWords(modules'), n) = t
      <3>1. n \in 0 .. Len(modules) /\ n <= Len(modules')
        BY <1>1, <2>2
      <3> QED BY <1>1, <1>3, <2>2, <3>1, ModulesWordsFacts
    <2>5. LayoutTyped'
      BY <1>1, <1>2, <1>5, <2>2 DEF LayoutTyped, LayoutInv
    <2>6. Loading'
      <3>1. Len(modules') - 1 = n /\ modules'[Len(modules')] = e
        BY <1>1, <2>2
      <3> QED BY <1>1, <1>3, <1>5, <2>1, <2>2, <2>3, <2>4, <3>1 DEF Loading
    <2> QED BY <1>1, <1>5, <2>5, <2>6 DEF LayoutInv, Placing, WordAlignedFits
  <1>6. CASE module_list_size' = RoundUp(sum, 32) /\ phase' = "link" /\ modules' = modules
    <2>1. WordAligned' <=> WordAligned
      BY <1>6 DEF WordAligned
    <2>2. LayoutTyped'
      BY <1>1, <1>2, <1>6 DEF LayoutTyped, LayoutInv
    <2>3. WordsBefore(1, 1)' = 0
      <3>1. Len(modules) >= 1 /\ modules[1] \in Seq(Sections)
        BY <1>1, ElementOfSeq
      <3>2. SumTo(ModulesWords(modules), 0) = 0 /\ SumTo(WordsOf(modules[1]), 0) = 0
        BY <1>1, <3>1, ModulesWordsFacts, ModuleWordsFacts
      <3> QED BY <1>6, <3>1, <3>2 DEF WordsBefore
    <2>4. WordAligned => 4 * t <= module_list_size'
      BY <1>2, <1>3, <1>6
    <2>5. \E m \in 1 .. n : \E i \in 1 .. Len(modules[m]) : current = <<m, i>>
      <3>1. PICK i : i \in 1 .. Len(modules[1])
        <4>1. 1 \in 1 .. n
          BY <1>1
        <4> QED BY <1>1, <4>1 DEF HasLoad
      <3>2. modules[1] \in Seq(Sections) /\ 1 \in 1 .. n
        BY <1>1, ElementOfSeq
      <3>3. 1 \in 1 .. Len(modules[1])
        BY <3>1, <3>2, LenProperties
      <3> QED BY <1>1, <3>2, <3>3
    <2>6. Placing'
      BY <1>1, <1>3, <1>6, <2>1, <2>3, <2>4, <2>5 DEF Placing
    <2>7. WordAlignedFits'
      <3>1. WordAligned => 0 <= module_list_size'
        BY <1>2, <1>3, <1>6, <2>4
      <3>2. used' + 12 * module_entries_count' = 0 /\ ~shorter'
        BY <1>1
      <3> QED BY <2>1, <3>1, <3>2 DEF WordAlignedFits
    <2> QED BY <1>6, <2>2, <2>6, <2>7 DEF LayoutInv, Loading
  <1> QED BY <1>4, <1>5, <1>6

\* Module_LinkModuleElf: what is used grows by the words of the section.
LEMMA LinkSectionKeeps ==
    ASSUME LayoutInv, LinkSection
    PROVE  LayoutInv'
  <1> DEFINE n == Len(modules)
  <1>1. PICK m \in 1 .. n : \E i \in 1 .. Len(modules[m]) : current = <<m, i>>
    BY DEF LayoutInv, Placing, LinkSection
  <1>2. PICK i \in 1 .. Len(modules[m]) : current = <<m, i>>
    BY <1>1
  <1>3. PICK secs, sec, l : secs = modules[m] /\ sec = modules[m][i] /\ l = Len(secs)
    OBVIOUS
  <1>4. /\ phase = "link" /\ modules \in Seq(Seq(Sections)) /\ n \in Nat /\ m \in Nat /\ i \in Nat
        /\ secs \in Seq(Sections) /\ sec \in Sections /\ l \in Nat
        /\ used \in Nat /\ module_entries_count \in Nat /\ module_list_size \in Nat
        /\ \A k \in 1 .. n : HasLoad(modules[k])
    <2>1. /\ phase = "link" /\ modules \in Seq(Seq(Sections))
          /\ used \in Nat /\ module_entries_count \in Nat /\ module_list_size \in Nat
          /\ \A k \in 1 .. n : HasLoad(modules[k])
      BY DEF LayoutInv, LayoutTyped, Placing, LinkSection
    <2>2. n \in Nat /\ secs \in Seq(Sections)
      BY <1>3, <2>1, LenProperties, ElementOfSeq
    <2>3. l \in Nat /\ sec \in Sections
      BY <1>3, <2>2, LenProperties, ElementOfSeq
    <2> QED BY <2>1, <2>2, <2>3
  <1>5. /\ UNCHANGED <<modules, size, module_list_size>>
        /\ \/ sec.type = "load" /\ module_entries_count' = module_entries_count + sec.entries /\ used' = used
           \/ /\ sec.type = "plain" /\ used' = RoundUp(used + sec.sh_size, Alignment(sec))
              /\ module_entries_count' = module_entries_count
    BY <1>2, <1>3 DEF LinkSection, Place
  <1>6. used' \in Nat /\ module_entries_count' \in Nat
    <2>1. CASE sec.type = "load"
      <3>1. PICK e : e = sec.entries /\ e \in Nat
        BY <1>4, <2>1, WordsFacts
      <3>2. used' = used /\ module_entries_count' = module_entries_count + e
        BY <1>5, <2>1, <3>1
      <3> QED BY <1>4, <3>1, <3>2
    <2>2. CASE sec.type # "load"
      BY <1>4, <1>5, <2>2, WordsFacts
    <2> QED BY <2>1, <2>2
  <1>7. PICK b, w : /\ b = WordsBefore(m, i) /\ b \in Nat /\ w = Words(sec) /\ w \in Nat
                    /\ i < l => WordsBefore(m, i + 1) = b + w
                    /\ i = l => WordsBefore(m + 1, 1) = b + w
    <2>1. PICK f, g : f = ModulesWords(modules) /\ g = WordsOf(secs)
      OBVIOUS
    <2>2. PICK x, y : x = SumTo(f, m - 1) /\ y = SumTo(g, i - 1)
      OBVIOUS
    <2>3. /\ x \in Nat /\ SumTo(f, m) = x + ModuleWords(secs)
      <3>1. m - 1 \in 0 .. n
        BY <1>4
      <3> QED BY <1>3, <1>4, <2>1, <2>2, <3>1, ModulesWordsFacts
    <2>4. y \in Nat /\ SumTo(g, i) = y + Words(sec) /\ Words(sec) \in Nat
      BY <1>3, <1>4, <2>1, <2>2, ModuleWordsFacts, WordsFacts
    <2>5. WordsBefore(m, i) = x + y
      BY <1>3, <1>4, <2>1, <2>2 DEF WordsBefore
    <2>6. WordsBefore(m, i + 1) = x + SumTo(g, i)
      <3>1. (i + 1) - 1 = i
        BY <1>4
      <3> QED BY <1>3, <1>4, <2>1, <2>2, <3>1 DEF WordsBefore
    <2>7. ASSUME i = l PROVE WordsBefore(m + 1, 1) = x + SumTo(g, i)
      <3>1. (m + 1) - 1 = m
        BY <1>4
      <3>2. ModuleWords(secs) = SumTo(g, i)
        BY <1>3, <2>1, <2>7 DEF ModuleWords
      <3>3. WordsBefore(m + 1, 1) = SumTo(f, m) + 0
        <4>1. CASE m + 1 <= n
          <5>1. modules[m + 1] \in Seq(Sections)
            BY <1>4, <4>1, ElementOfSeq
          <5>2. SumTo(WordsOf(modules[m + 1]), 1 - 1) = 0
            BY <5>1, ModuleWordsFacts
          <5> QED BY <2>1, <3>1, <4>1, <5>2 DEF WordsBefore
        <4>2. CASE ~(m + 1 <= n)
          BY <2>1, <3>1, <4>2 DEF WordsBefore
        <4> QED BY <4>1, <4>2
      <3>4. PICK z : z = SumTo(g, i) /\ z \in Nat
        BY <2>4
      <3>5. SumTo(f, m) = x + z /\ x + z \in Nat
        BY <2>3, <3>2, <3>4
      <3> QED BY <3>3, <3>4, <3>5
    <2> QED BY <2>3, <2>4, <2>5, <2>6, <2>7
  <1>8. current' = IF i < l THEN <<m, i + 1>> ELSE <<m + 1, 1>>
    BY <1>2, <1>3 DEF LinkSection, Following
  <1>9. phase' = IF ~(i < l) /\ m + 1 > n THEN "replace" ELSE "link"
    <2>1. Following = IF i < l THEN <<m, i + 1>> ELSE <<m + 1, 1>>
      BY <1>2, <1>3 DEF Following
    <2>2. phase' = IF Following[1] > n THEN "replace" ELSE "link"
      BY DEF LinkSection
    <2>3. CASE i < l
      BY <1>4, <2>1, <2>2, <2>3
    <2>4. CASE ~(i < l)
      BY <1>4, <2>1, <2>2, <2>4
    <2> QED BY <2>3, <2>4
  <1>10. PICK x, y : current' = <<x, y>> /\ <<x, y>> = IF i < l THEN <<m, i + 1>> ELSE <<m + 1, 1>>
    BY <1>8
  <1>11. WordsBefore(x, y)' = b + w
    <2>1. WordsBefore(x, y)' = WordsBefore(x, y)
      BY <1>5 DEF WordsBefore
    <2>2. CASE i < l
      BY <1>7, <1>10, <2>1, <2>2
    <2>3. CASE ~(i < l)
      BY <1>3, <1>4, <1>7, <1>10, <2>1, <2>3
    <2> QED BY <2>2, <2>3
  <1>12. ASSUME WordAligned
         PROVE  /\ used' + 12 * module_entries_count' = 4 * (b + w)
                /\ 4 * SumTo(ModulesWords(modules), n) <= module_list_size
    <2>1. used + 12 * module_entries_count = 4 * b /\ 4 * SumTo(ModulesWords(modules), n) <= module_list_size
      BY <1>2, <1>4, <1>7, <1>12 DEF LayoutInv, Placing
    <2>2. CASE sec.type = "load"
      <3>1. PICK e : e = sec.entries /\ e \in Nat /\ 12 * e = 4 * w
        BY <1>4, <1>7, <2>2, WordsFacts
      <3>2. used' = used /\ module_entries_count' = module_entries_count + e
        BY <1>5, <2>2, <3>1
      <3>3. PICK u, k : u = used /\ k = module_entries_count /\ u \in Nat /\ k \in Nat
        BY <1>4
      <3>4. u + 12 * (k + e) = 4 * (b + w)
        <4>1. u + 12 * k = 4 * b
          BY <2>1, <3>3
        <4>2. b \in Nat /\ w \in Nat /\ e \in Nat /\ 12 * e = 4 * w
          BY <1>7, <3>1
        <4> QED BY ONLY <3>3, <4>1, <4>2
      <3> QED BY <2>1, <3>2, <3>3, <3>4
    <2>3. CASE sec.type # "load"
      <3>1. sec.sh_addralign <= 4 /\ sec.type = "plain"
        BY <1>3, <1>4, <1>12, <2>3, WordsFacts DEF WordAligned
      <3>2. PICK c \in Nat : c = b - 3 * module_entries_count /\ used = 4 * c
        <4>1. PICK u, k : u = used /\ k = module_entries_count /\ u \in Nat /\ k \in Nat
          BY <1>4
        <4>2. u + 12 * k = 4 * b /\ b \in Nat
          BY <1>7, <2>1, <4>1
        <4>3. u = 4 * (b - 3 * k) /\ b - 3 * k \in Nat
          BY ONLY <4>1, <4>2
        <4> QED BY <4>1, <4>3
      <3>3. RoundUp(4 * c + sec.sh_size, Alignment(sec)) = 4 * (c + w)
        BY <1>4, <1>7, <2>3, <3>1, WordsFacts
      <3>4. used' = 4 * (c + w) /\ module_entries_count' = module_entries_count
        BY <1>5, <2>3, <3>2, <3>3
      <3>5. PICK k : k = module_entries_count /\ k \in Nat
        BY <1>4
      <3>6. c = b - 3 * k
        BY <3>2, <3>5
      <3>7. 4 * (c + w) + 12 * k = 4 * (b + w)
        <4>1. b \in Nat /\ w \in Nat /\ k \in Nat /\ c \in Nat
          BY <1>7, <3>2, <3>5
        <4> QED BY ONLY <3>6, <4>1
      <3> QED BY <2>1, <3>4, <3>5, <3>7
    <2> QED BY <2>2, <2>3
  <1>13. WordAligned' <=> WordAligned
    BY <1>5 DEF WordAligned
  <1>14. LayoutTyped' /\ ~shorter'
    <2>1. ~shorter /\ shorter' = shorter
      BY <1>4 DEF LayoutInv, LayoutTyped, LinkSection
    <2> QED BY <1>5, <1>6, <1>9, <2>1 DEF LayoutInv, LayoutTyped
  <1>15. Placing'
    <2> SUFFICES ASSUME phase' = "link" PROVE Placing'
      BY DEF Placing
    <2>1. \E k \in 1 .. n : \E j \in 1 .. Len(modules[k]) : current' = <<k, j>>
      <3>1. CASE i < l
        <4>1. i + 1 \in 1 .. Len(modules[m])
          BY <1>3, <1>4, <3>1
        <4> QED BY <1>8, <3>1, <4>1
      <3>2. CASE ~(i < l)
        <4>1. m + 1 \in 1 .. n
          BY <1>4, <1>9, <3>2
        <4>2. PICK j : j \in 1 .. Len(modules[m + 1])
          BY <1>4, <4>1 DEF HasLoad
        <4>3. modules[m + 1] \in Seq(Sections)
          BY <1>4, <4>1, ElementOfSeq
        <4>4. 1 \in 1 .. Len(modules[m + 1])
          BY <4>2, <4>3, LenProperties
        <4> QED BY <1>8, <3>2, <4>1, <4>4
      <3> QED BY <3>1, <3>2
    <2>2. SumTo(ModulesWords(modules), Len(modules))' = SumTo(ModulesWords(modules), n) /\ module_list_size' = module_list_size
      BY <1>5
    <2>3. WordsBefore(current[1], current[2])' = b + w
      BY <1>10, <1>11
    <2>4. \A k \in 1 .. Len(modules)' : HasLoad(modules'[k])
      BY <1>4, <1>5
    <2> QED BY <1>5, <1>12, <1>13, <2>1, <2>2, <2>3, <2>4 DEF Placing
  <1>16. WordAlignedFits'
    <2> SUFFICES ASSUME WordAligned PROVE used' + 12 * module_entries_count' <= module_list_size'
      BY <1>13, <1>14 DEF WordAlignedFits
    <2>1. PICK q, z : /\ q = SumTo(ModulesWords(modules), m) /\ z = SumTo(ModulesWords(modules), n)
                      /\ q \in Nat /\ z \in Nat /\ q <= z /\ b + w <= q
      <3>1. PICK f : f = ModulesWords(modules) /\ \A k \in 1 .. n : f[k] \in Nat
        <4>1. \A k \in 1 .. n : ModuleWords(modules[k]) \in Nat
          <5> TAKE k \in 1 .. n
          <5>1. modules[k] \in Seq(Sections)
            BY <1>4, ElementOfSeq
          <5> QED BY <5>1, ModuleWordsFacts
        <4>2. ModulesWords(modules) = [k \in 1 .. n |-> ModuleWords(modules[k])]
          BY DEF ModulesWords
        <4> QED BY <4>1, <4>2
      <3>2. m \in 0 .. n
        BY <1>4
      <3>3. SumTo(f, m) \in Nat /\ SumTo(f, n) \in Nat /\ SumTo(f, m) <= SumTo(f, n)
        BY <1>4, <3>1, <3>2, SumNat
      <3>4. b + w <= SumTo(f, m)
        <4>1. PICK g : g = WordsOf(secs)
          OBVIOUS
        <4>2. \A j \in 1 .. l : g[j] \in Nat
          <5> TAKE j \in 1 .. l
          <5>1. secs[j] \in Sections /\ g[j] = Words(secs[j])
            BY <1>3, <1>4, <4>1, ModuleWordsFacts
          <5> QED BY <5>1, WordsFacts
        <4>3. i \in 0 .. l
          BY <1>3, <1>4
        <4>4. SumTo(g, i) \in Nat /\ SumTo(g, l) \in Nat /\ SumTo(g, i) <= SumTo(g, l)
          BY <1>4, <4>2, <4>3, SumNat
        <4>5. SumTo(g, i) = SumTo(g, i - 1) + w /\ SumTo(g, i - 1) \in Nat
          BY <1>3, <1>4, <1>7, <4>1, ModuleWordsFacts
        <4>6. SumTo(f, m) = SumTo(f, m - 1) + SumTo(g, l) /\ SumTo(f, m - 1) \in Nat
          <5>1. m - 1 \in 0 .. n
            BY <1>4
          <5> QED BY <1>3, <1>4, <3>1, <4>1, <5>1, ModulesWordsFacts DEF ModuleWords
        <4>7. b = SumTo(f, m - 1) + SumTo(g, i - 1)
          BY <1>3, <1>4, <1>7, <3>1, <4>1 DEF WordsBefore
        <4>8. PICK u, lo, hi, v : u = SumTo(g, i) /\ lo = SumTo(g, i - 1) /\ hi = SumTo(g, l) /\ v = SumTo(f, m - 1)
          OBVIOUS
        <4>9. /\ u \in Nat /\ lo \in Nat /\ hi \in Nat /\ v \in Nat /\ w \in Nat
              /\ u <= hi /\ u = lo + w /\ b = v + lo /\ SumTo(f, m) = v + hi
          BY <1>7, <4>4, <4>5, <4>6, <4>7, <4>8
        <4> QED BY ONLY <4>9
      <3> QED BY <3>1, <3>3, <3>4
    <2>2. /\ used' \in Nat /\ module_entries_count' \in Nat /\ used' + 12 * module_entries_count' = 4 * (b + w)
          /\ b \in Nat /\ w \in Nat
      BY <1>6, <1>7, <1>12
    <2>3. 4 * z <= module_list_size /\ module_list_size' = module_list_size /\ module_list_size \in Nat
      BY <1>4, <1>5, <2>1 DEF LayoutInv, Placing
    <2>4. PICK t, e, k, k1 : t = used' /\ e = module_entries_count' /\ k = module_list_size /\ k1 = module_list_size'
      OBVIOUS
    <2>5. /\ t + 12 * e = 4 * (b + w) /\ 4 * z <= k /\ k1 = k /\ k \in Nat /\ t \in Nat /\ e \in Nat
          /\ b \in Nat /\ w \in Nat /\ q \in Nat /\ z \in Nat /\ q <= z /\ b + w <= q
      BY <2>1, <2>2, <2>3, <2>4
    <2>6. t + 12 * e <= k1
      BY ONLY <2>5
    <2> QED BY <2>4, <2>6
  <1> QED BY <1>9, <1>14, <1>15, <1>16 DEF LayoutInv, Loading

\* Module_ListLinkFinal: a stub is at most as long as what was kept for it.
LEMMA LinkEntryKeeps ==
    ASSUME LayoutInv, LinkEntry
    PROVE  LayoutInv'
  <1>1. /\ used \in Nat /\ module_entries_count \in Nat /\ module_list_size \in Nat
        /\ phase = "replace" /\ phase' \in {"replace", "done"}
        /\ UNCHANGED <<modules, size, module_list_size>>
    BY DEF LayoutInv, LayoutTyped, LinkEntry
  <1>2. /\ used' \in Nat /\ module_entries_count' \in Nat
        /\ used' + 12 * module_entries_count' <= used + 12 * module_entries_count
        /\ shorter' /\ ~shorter => used' + 12 * module_entries_count' < used + 12 * module_entries_count
    <2>1. CASE /\ module_entries_count > 0 /\ module_entries_count' = module_entries_count - 1
               /\ \E stub \in {0, 4, 8, 12} : used' = used + stub /\ shorter' = (shorter \/ stub < 12)
      <3>1. PICK stub \in {0, 4, 8, 12} : used' = used + stub /\ (shorter' => shorter \/ stub < 12)
        BY <2>1
      <3>2. stub \in Nat /\ stub <= 12 /\ (shorter' /\ ~shorter => stub < 12)
        BY <3>1
      <3> QED BY <1>1, <2>1, <3>1, <3>2
    <2>2. CASE UNCHANGED <<module_entries_count, used, shorter>>
      BY <1>1, <2>2
    <2> QED BY <2>1, <2>2 DEF LinkEntry
  <1>3. WordAligned' <=> WordAligned
    BY <1>1 DEF WordAligned
  <1>4. LayoutTyped'
    <2>1. shorter' \in BOOLEAN
      BY DEF LayoutInv, LayoutTyped, LinkEntry
    <2> QED BY <1>1, <1>2, <2>1 DEF LayoutInv, LayoutTyped
  <1>5. WordAlignedFits'
    <2> SUFFICES ASSUME WordAligned
                 PROVE  /\ used' + 12 * module_entries_count' <= module_list_size'
                        /\ shorter' => used' + 12 * module_entries_count' < module_list_size'
      BY <1>3 DEF WordAlignedFits
    <2>1. /\ used + 12 * module_entries_count <= module_list_size
          /\ shorter => used + 12 * module_entries_count < module_list_size
      BY <1>1 DEF LayoutInv, WordAlignedFits
    <2>2. /\ used + 12 * module_entries_count \in Nat /\ used' + 12 * module_entries_count' \in Nat
          /\ module_list_size' = module_list_size
      <3>1. \A u, k \in Nat : u + 12 * k \in Nat
        OBVIOUS
      <3>2. used \in Nat /\ module_entries_count \in Nat /\ used' \in Nat /\ module_entries_count' \in Nat
        BY <1>1, <1>2
      <3> QED BY <1>1, <3>1, <3>2
    <2>3. PICK x, y, z : /\ x = used + 12 * module_entries_count /\ y = used' + 12 * module_entries_count'
                         /\ z = module_list_size
      OBVIOUS
    <2>4. x \in Nat /\ y \in Nat /\ z \in Nat /\ y <= x /\ x <= z
      BY <1>1, <1>2, <2>1, <2>2, <2>3
    <2>5. shorter' => x < z \/ y < x
      <3>1. CASE shorter
        BY <2>1, <2>3, <3>1
      <3>2. CASE ~shorter
        BY <1>2, <2>3, <3>2
      <3> QED BY <3>1, <3>2
    <2>6. y <= z /\ (x < z \/ y < x => y < z)
      BY <2>4
    <2> QED BY <2>2, <2>3, <2>5, <2>6
  <1> QED BY <1>1, <1>4, <1>5 DEF LayoutInv, Loading, Placing

-----------------------------------------------------------------------------

\* The invariant of the memory for modules.
LEMMA LayoutInvariant == LayoutSpec => []LayoutInv
  <1>1. LayoutInit => LayoutInv
    BY LayoutInvInit
  <1>2. LayoutInv /\ [LayoutNext]_layoutVars => LayoutInv'
    <2> SUFFICES ASSUME LayoutInv, [LayoutNext]_layoutVars PROVE LayoutInv'
      OBVIOUS
    <2>1. CASE UNCHANGED layoutVars
      BY <2>1 DEF layoutVars, LayoutInv, LayoutTyped, Loading, Placing, WordAlignedFits, WordAligned, WordsBefore
    <2>2. CASE \E sec \in Sections : LoadSection(sec)
      BY <2>2, LoadSectionKeeps
    <2>3. CASE ModuleLoaded
      BY <2>3, ModuleLoadedKeeps
    <2>4. CASE LinkSection
      BY <2>4, LinkSectionKeeps
    <2>5. CASE LinkEntry
      BY <2>5, LinkEntryKeeps
    <2> QED BY <2>1, <2>2, <2>3, <2>4, <2>5 DEF LayoutNext, Sections
  <1> QED BY <1>1, <1>2, PTL DEF LayoutSpec

(***************************************************************************)
(* WordAlignedFits, for any number of modules, of sections and of entries: *)
(* the memory that is kept free for word aligned modules is enough.        *)
(***************************************************************************)
THEOREM LayoutFitsTheorem == LayoutSpec => []WordAlignedFits
  <1>1. LayoutInv => WordAlignedFits
    BY DEF LayoutInv
  <1> QED BY <1>1, LayoutInvariant, PTL

-----------------------------------------------------------------------------
(* Powers of two, and the fields of a word. *)

\* A quotient and a remainder are the only ones.
LEMMA DivMod ==
    ASSUME NEW d \in Nat \ {0}
    PROVE  /\ \A a \in Int : \E q \in Int, r \in 0 .. d - 1 : q = a \div d /\ r = a % d /\ a = d * q + r
           /\ \A a, q \in Int, r \in 0 .. d - 1 : a = d * q + r => a \div d = q /\ a % d = r
  <1>1. ASSUME NEW a \in Int
        PROVE  \E q \in Int, r \in 0 .. d - 1 : q = a \div d /\ r = a % d /\ a = d * q + r
    <2>1. PICK p, r : p = a \div d /\ r = a % d
      OBVIOUS
    <2>2. p \in Int /\ r \in 0 .. d - 1 /\ a = d * p + r
      BY <2>1
    <2> QED BY ONLY <2>1, <2>2
  <1>2. ASSUME NEW a \in Int, NEW q \in Int, NEW r \in 0 .. d - 1, a = d * q + r
        PROVE  a \div d = q /\ a % d = r
    <2>1. PICK p \in Int, s \in 0 .. d - 1 : p = a \div d /\ s = a % d /\ a = d * p + s
      BY <1>1
    <2>2. p = q
      <3>1. d * (p - q) = r - s
        BY ONLY <1>2, <2>1, p \in Int, q \in Int, d \in Nat, r \in Nat, s \in Nat
      <3>2. ASSUME NEW k \in Int, k >= 1 PROVE d * k >= d
        BY ONLY <3>2, d \in Nat
      <3>3. ASSUME NEW k \in Int, k <= -1 PROVE d * k <= -d
        BY ONLY <3>3, d \in Nat
      <3>4. p - q \in Int /\ r - s \in Int /\ r - s < d /\ r - s > -d
        BY <2>1
      <3> QED BY <2>1, <3>1, <3>2, <3>3, <3>4
    <2>3. s = r
      BY <1>2, <2>1, <2>2
    <2> QED BY ONLY <2>1, <2>2, <2>3
  <1> QED BY <1>1, <1>2

\* q is the quotient, r the remainder of a and d.
Quotient(a, d, q, r) ==
    a \in Int /\ d \in Nat \ {0} /\ q \in Int /\ r \in 0 .. d - 1 /\ a = d * q + r

\* A number has one quotient and one remainder.
LEMMA Quotients ==
    /\ \A a, d, q, r : Quotient(a, d, q, r) => a \div d = q /\ a % d = r
    /\ \A a \in Int, d \in Nat \ {0} : \E q, r : Quotient(a, d, q, r)
  <1>1. ASSUME NEW a, NEW d, NEW q, NEW r, Quotient(a, d, q, r) PROVE a \div d = q /\ a % d = r
    <2>1. a \in Int /\ d \in Nat \ {0} /\ q \in Int /\ r \in 0 .. d - 1 /\ a = d * q + r
      BY <1>1 DEF Quotient
    <2>2. \A b, p \in Int, s \in 0 .. d - 1 : b = d * p + s => b \div d = p /\ b % d = s
      BY <2>1, DivMod
    <2> QED BY ONLY <2>1, <2>2, Zenon
  <1>2. ASSUME NEW a \in Int, NEW d \in Nat \ {0} PROVE \E q, r : Quotient(a, d, q, r)
    <2>1. \A b \in Int : \E q \in Int, r \in 0 .. d - 1 : q = b \div d /\ r = b % d /\ b = d * q + r
      BY DivMod
    <2>2. PICK q \in Int, r \in 0 .. d - 1 : q = a \div d /\ r = a % d /\ a = d * q + r
      BY <2>1, Zenon
    <2>3. Quotient(a, d, q, r)
      BY <2>2, Zenon DEF Quotient
    <2> QED BY <2>3
  <1> QED BY <1>1, <1>2

\* s is the powers of two up to n.
IsPowers(s, n) == s = [i \in 0 .. n |-> IF i = 0 THEN 1 ELSE 2 * s[i - 1]]

\* They exist, and those up to n are the first of those up to m.
LEMMA PowersExist ==
    /\ \A n \in Nat : \E s : IsPowers(s, n)
    /\ \A n, m \in Nat : n <= m => \A s, t : IsPowers(s, n) /\ IsPowers(t, m) => \A i \in 0 .. n : s[i] = t[i]
  <1> DEFINE T == {n \in Nat : \E s : IsPowers(s, n)}
  <1>1. 0 \in T
    <2>1. IsPowers([i \in 0 .. 0 |-> 1], 0)
      BY DEF IsPowers
    <2> QED BY <2>1
  <1>2. ASSUME NEW n \in Nat, n \in T PROVE n + 1 \in T
    <2>1. PICK s : s = [i \in 0 .. n |-> IF i = 0 THEN 1 ELSE 2 * s[i - 1]]
      BY <1>2 DEF IsPowers
    <2>2. PICK t : t = [i \in 0 .. n + 1 |-> IF i = n + 1 THEN 2 * s[n] ELSE s[i]]
      OBVIOUS
    <2>3. \A i \in 0 .. n + 1 : t[i] = IF i = 0 THEN 1 ELSE 2 * t[i - 1]
      <3> TAKE i \in 0 .. n + 1
      <3>1. CASE i = n + 1
        BY <2>2, <3>1
      <3>2. CASE i # n + 1
        <4>1. i \in 0 .. n /\ (i # 0 => i - 1 \in 0 .. n /\ i - 1 \in 0 .. n + 1 /\ i - 1 # n + 1)
          BY <3>2
        <4>2. t[i] = s[i] /\ s[i] = IF i = 0 THEN 1 ELSE 2 * s[i - 1]
          BY <2>1, <2>2, <3>2, <4>1
        <4> QED BY <2>2, <4>1, <4>2
      <3> QED BY <3>1, <3>2
    <2>4. t = [i \in 0 .. n + 1 |-> t[i]]
      BY <2>2
    <2>5. IsPowers(t, n + 1)
      BY <2>3, <2>4 DEF IsPowers
    <2> QED BY <2>5
  <1> HIDE DEF T
  <1>3. \A n \in Nat : \E s : IsPowers(s, n)
    <2>1. Nat \subseteq T
      BY <1>1, <1>2, Induction
    <2> QED BY <2>1 DEF T
  <1>4. ASSUME NEW n \in Nat, NEW m \in Nat, n <= m, NEW s, NEW t, IsPowers(s, n), IsPowers(t, m)
        PROVE  \A i \in 0 .. n : s[i] = t[i]
    <2> DEFINE U == {i \in Nat : i <= n => s[i] = t[i]}
    <2>0. /\ \A i \in 0 .. n : s[i] = IF i = 0 THEN 1 ELSE 2 * s[i - 1]
          /\ \A i \in 0 .. m : t[i] = IF i = 0 THEN 1 ELSE 2 * t[i - 1]
      BY <1>4 DEF IsPowers
    <2>1. 0 \in U
      BY <1>4, <2>0
    <2>2. ASSUME NEW i \in Nat, i \in U PROVE i + 1 \in U
      <3> SUFFICES ASSUME i + 1 <= n PROVE s[i + 1] = t[i + 1]
        OBVIOUS
      <3>1. i + 1 \in 0 .. n /\ i + 1 \in 0 .. m /\ (i + 1) - 1 = i /\ i + 1 # 0
        BY <1>4
      <3>2. s[i] = t[i]
        BY <2>2
      <3> QED BY <2>0, <3>1, <3>2
    <2> HIDE DEF U
    <2>3. Nat \subseteq U
      BY <2>1, <2>2, Induction
    <2> QED BY <2>3 DEF U
  <1> QED BY <1>3, <1>4

\* The powers of two, one after the other.
LEMMA PowStep == Pow2[0] = 1 /\ \A n \in Nat : Pow2[n + 1] = 2 * Pow2[n]
  <1> DEFINE IsPow(g) == g = [n \in Nat |-> IF n = 0 THEN 1 ELSE 2 * g[n - 1]]
             Up(n) == CHOOSE s : IsPowers(s, n)
             pow == [n \in Nat |-> Up(n)[n]]
  <1>1. \A n \in Nat : IsPowers(Up(n), n)
    BY PowersExist
  <1> HIDE DEF Up
  <1>2. ASSUME NEW n \in Nat PROVE pow[n] = IF n = 0 THEN 1 ELSE 2 * pow[n - 1]
    <2>1. Up(n)[n] = IF n = 0 THEN 1 ELSE 2 * Up(n)[n - 1]
      BY <1>1 DEF IsPowers
    <2>2. CASE n = 0
      BY <2>1, <2>2
    <2>3. CASE n # 0
      <3>1. n - 1 \in Nat /\ n - 1 <= n /\ n - 1 \in 0 .. n - 1
        BY <2>3
      <3>2. Up(n - 1)[n - 1] = Up(n)[n - 1]
        <4>1. IsPowers(Up(n - 1), n - 1) /\ IsPowers(Up(n), n)
          BY <1>1, <3>1
        <4>2. PICK k : k = n - 1
          OBVIOUS
        <4>3. \A i \in 0 .. k : Up(k)[i] = Up(n)[i]
          BY <3>1, <4>1, <4>2, PowersExist
        <4> QED BY <3>1, <4>2, <4>3
      <3> QED BY <2>1, <2>3, <3>1, <3>2
    <2> QED BY <2>2, <2>3
  <1>3. IsPow(pow)
    <2>1. \A n \in Nat : pow[n] = IF n = 0 THEN 1 ELSE 2 * pow[n - 1]
      BY <1>2
    <2>2. pow = [n \in Nat |-> pow[n]]
      OBVIOUS
    <2> HIDE DEF pow
    <2> QED BY <2>1, <2>2
  <1> HIDE DEF pow
  <1>4. Pow2 = CHOOSE g : IsPow(g)
    BY DEF Pow2
  <1>5. IsPow(Pow2)
    <2>1. \E g : IsPow(g)
      BY <1>3
    <2> HIDE DEF IsPow
    <2> QED BY <1>4, <2>1
  <1>6. \A n \in Nat : Pow2[n] = IF n = 0 THEN 1 ELSE 2 * Pow2[n - 1]
    BY <1>5
  <1>7. ASSUME NEW n \in Nat PROVE Pow2[n + 1] = 2 * Pow2[n]
    <2>1. n + 1 \in Nat /\ n + 1 # 0 /\ (n + 1) - 1 = n
      OBVIOUS
    <2> QED BY <1>6, <2>1
  <1> QED BY <1>6, <1>7

\* They are positive numbers that multiply, and do not get smaller.
LEMMA PowFacts ==
    /\ \A n \in Nat : Pow2[n] \in Nat \ {0}
    /\ \A a, b \in Nat : Pow2[a + b] = Pow2[a] * Pow2[b]
    /\ Pow2[0] = 1 /\ Pow2[1] = 2 /\ Pow2[2] = 4
  <1> DEFINE T == {n \in Nat : Pow2[n] \in Nat \ {0}}
  <1>1. \A n \in Nat : Pow2[n] \in Nat \ {0}
    <2>1. 0 \in T
      BY PowStep
    <2>2. ASSUME NEW n \in Nat, n \in T PROVE n + 1 \in T
      <3> SUFFICES Pow2[n + 1] \in Nat \ {0}
        OBVIOUS
      <3>1. PICK p, q : p = Pow2[n] /\ q = Pow2[n + 1] /\ q = 2 * p
        BY PowStep
      <3>2. p \in Nat \ {0}
        BY <2>2, <3>1
      <3>3. q \in Nat \ {0}
        BY <3>1, <3>2
      <3> QED BY <3>1, <3>3
    <2> HIDE DEF T
    <2>3. Nat \subseteq T
      BY <2>1, <2>2, Induction
    <2> QED BY <2>3 DEF T
  <1>2. ASSUME NEW a \in Nat, NEW b \in Nat PROVE Pow2[a + b] = Pow2[a] * Pow2[b]
    <2> DEFINE U == {n \in Nat : Pow2[a + n] = Pow2[a] * Pow2[n]}
    <2>1. 0 \in U
      <3>1. Pow2[a] \in Nat /\ Pow2[0] = 1 /\ a + 0 = a
        BY <1>1, PowStep
      <3> QED BY <3>1
    <2>2. ASSUME NEW n \in Nat, n \in U PROVE n + 1 \in U
      <3>1. PICK p, q, r : p = Pow2[a] /\ q = Pow2[n] /\ r = Pow2[a + n]
        OBVIOUS
      <3>2. p \in Nat /\ q \in Nat /\ r = p * q
        BY <1>1, <2>2, <3>1
      <3>3. Pow2[n + 1] = 2 * q /\ Pow2[(a + n) + 1] = 2 * r /\ (a + n) + 1 = a + (n + 1)
        BY <3>1, PowStep
      <3>4. 2 * r = p * (2 * q)
        BY ONLY <3>2
      <3> QED BY <3>1, <3>3, <3>4
    <2> HIDE DEF U
    <2>3. Nat \subseteq U
      BY <2>1, <2>2, Induction
    <2> QED BY <2>3 DEF U
  <1>3. Pow2[0] = 1 /\ Pow2[1] = 2 /\ Pow2[2] = 4
    <2>1. 0 + 1 = 1 /\ 1 + 1 = 2
      OBVIOUS
    <2>2. Pow2[0 + 1] = 2 /\ Pow2[1 + 1] = 2 * Pow2[1]
      BY PowStep
    <2> QED BY <2>1, <2>2, PowStep
  <1> QED BY <1>1, <1>2, <1>3

\* w is q above b above r, in parts of the sizes M and L below.
MadeOf(w, L, M, q, b, r) ==
    /\ w \in Int /\ L \in Nat \ {0} /\ M \in Nat \ {0}
    /\ q \in Int /\ b \in 0 .. M - 1 /\ r \in 0 .. L - 1
    /\ w = L * (M * q + b) + r

\* The parts that a word is made of are what division finds.
LEMMA MadeOfParts ==
    ASSUME NEW w, NEW L, NEW M, NEW q, NEW b, NEW r
    PROVE  /\ MadeOf(w, L, M, q, b, r) =>
                  (w \div L) % M = b /\ w \div (L * M) = q /\ Quotient(w, L * M, q, L * b + r)
           /\ Quotient(w, L, M * q + b, r) /\ Quotient(M * q + b, M, q, b) => MadeOf(w, L, M, q, b, r)
  <1>1. ASSUME MadeOf(w, L, M, q, b, r)
        PROVE  (w \div L) % M = b /\ w \div (L * M) = q /\ Quotient(w, L * M, q, L * b + r)
    <2>1. /\ w \in Int /\ L \in Nat \ {0} /\ M \in Nat \ {0}
          /\ q \in Int /\ b \in 0 .. M - 1 /\ r \in 0 .. L - 1
          /\ w = L * (M * q + b) + r
      BY <1>1 DEF MadeOf
    <2>2. PICK v \in Int : v = M * q + b
      BY <2>1
    <2>3. Quotient(w, L, v, r) /\ Quotient(v, M, q, b)
      BY <2>1, <2>2 DEF Quotient
    <2>4. PICK N \in Nat \ {0} : N = L * M
      BY <2>1
    <2>5. PICK s : s = L * b + r
      OBVIOUS
    <2>6. s \in 0 .. N - 1
      <3>1. L * b \in Nat /\ L * b <= L * (M - 1)
        BY ONLY <2>1
      <3>2. L * (M - 1) = N - L
        BY ONLY <2>1, <2>4
      <3>3. PICK y : y = L * b
        OBVIOUS
      <3> QED BY ONLY <2>1, <2>4, <2>5, <3>1, <3>2, <3>3
    <2>7. w = N * q + s
      <3>1. L \in Int /\ M \in Int /\ b \in Int /\ r \in Int /\ q \in Int /\ w = L * (M * q + b) + r
        BY <2>1
      <3> QED BY ONLY <3>1, <2>4, <2>5
    <2>8. Quotient(w, N, q, s)
      BY <2>1, <2>4, <2>6, <2>7 DEF Quotient
    <2>9. w \div L = v /\ v % M = b /\ w \div N = q
      BY <2>3, <2>8, Quotients
    <2> QED BY ONLY <2>4, <2>5, <2>8, <2>9
  <1>2. ASSUME Quotient(w, L, M * q + b, r), Quotient(M * q + b, M, q, b) PROVE MadeOf(w, L, M, q, b, r)
    BY <1>2 DEF Quotient, MadeOf
  <1> QED BY <1>1, <1>2

\* Every word is made of an upper part, a field and a lower part.
LEMMA MadeOfExists ==
    ASSUME NEW w \in Int, NEW L \in Nat \ {0}, NEW M \in Nat \ {0}
    PROVE  \E q, b, r : MadeOf(w, L, M, q, b, r)
  <1>1. PICK v, r : Quotient(w, L, v, r)
    BY Quotients
  <1>2. v \in Int
    BY <1>1 DEF Quotient
  <1>3. PICK q, b : Quotient(v, M, q, b)
    BY <1>2, Quotients
  <1>4. v = M * q + b
    BY <1>3 DEF Quotient
  <1>5. MadeOf(w, L, M, q, b, r)
    BY <1>1, <1>3, <1>4, MadeOfParts
  <1> QED BY <1>5

\* The sizes of a field and of what is below it.
LEMMA FieldSizes ==
    ASSUME NEW lo \in Nat, NEW hi \in Nat, lo <= hi
    PROVE  /\ Pow2[lo] \in Nat \ {0} /\ Pow2[hi - lo] \in Nat \ {0} /\ Pow2[hi] \in Nat \ {0}
           /\ Pow2[hi] = Pow2[lo] * Pow2[hi - lo]
  <1>1. PICK n \in Nat : n = hi - lo /\ lo + n = hi
    OBVIOUS
  <1>2. Pow2[lo] \in Nat \ {0} /\ Pow2[n] \in Nat \ {0} /\ Pow2[hi] \in Nat \ {0}
    BY PowFacts
  <1>3. Pow2[lo + n] = Pow2[lo] * Pow2[n]
    BY PowFacts
  <1> QED BY ONLY <1>1, <1>2, <1>3

\* A field of bits is the middle part.
LEMMA FieldMade ==
    ASSUME NEW w, NEW lo \in Nat, NEW hi \in Nat, lo <= hi, NEW q, NEW b, NEW r,
           MadeOf(w, Pow2[lo], Pow2[hi - lo], q, b, r)
    PROVE  BitField(w, lo, hi) = b /\ w \div Pow2[hi] = q
  <1>1. (w \div Pow2[lo]) % Pow2[hi - lo] = b /\ w \div (Pow2[lo] * Pow2[hi - lo]) = q
    BY MadeOfParts
  <1>2. Pow2[hi] = Pow2[lo] * Pow2[hi - lo]
    BY FieldSizes
  <1> QED BY ONLY <1>1, <1>2 DEF BitField

\* WithBits changes the middle one of the parts of a word.
LEMMA WithBitsMade ==
    ASSUME NEW w \in Int, NEW x \in Int, NEW lo \in Nat, NEW hi \in Nat, lo <= hi
    PROVE  \E q, f, g, r :
              /\ MadeOf(w, Pow2[lo], Pow2[hi - lo], q, f, r)
              /\ MadeOf(WithBits(w, lo, hi, x), Pow2[lo], Pow2[hi - lo], q, g, r)
              /\ g = BitField(x, lo, hi)
              /\ WithBits(w, lo, hi, x) = w + (g - f) * Pow2[lo]
  <1>1. PICK L, M : L = Pow2[lo] /\ M = Pow2[hi - lo] /\ L \in Nat \ {0} /\ M \in Nat \ {0}
    BY FieldSizes
  <1>2. PICK q, f, r : MadeOf(w, L, M, q, f, r)
    BY <1>1, MadeOfExists
  <1>3. PICK p, g, s : MadeOf(x, L, M, p, g, s)
    BY <1>1, MadeOfExists
  <1>4. f = BitField(w, lo, hi) /\ g = BitField(x, lo, hi)
    BY <1>1, <1>2, <1>3, FieldMade
  <1>5. PICK z : z = WithBits(w, lo, hi, x)
    OBVIOUS
  <1>6. z = w + (g - f) * L
    BY <1>1, <1>4, <1>5 DEF WithBits
  <1>7. /\ q \in Int /\ f \in 0 .. M - 1 /\ g \in 0 .. M - 1 /\ r \in 0 .. L - 1
        /\ w = L * (M * q + f) + r
    BY <1>2, <1>3 DEF MadeOf
  <1>8. z \in Int /\ z = L * (M * q + g) + r
    <2>1. L \in Int /\ M \in Int /\ q \in Int /\ f \in Int /\ g \in Int /\ r \in Int
      BY <1>1, <1>7
    <2> QED BY ONLY <1>6, <1>7, <2>1
  <1>9. MadeOf(z, L, M, q, g, r)
    BY ONLY <1>1, <1>7, <1>8 DEF MadeOf
  <1> QED BY ONLY <1>1, <1>2, <1>4, <1>5, <1>6, <1>9

\* WithBits takes the field from the other word ...
LEMMA WithBitsField ==
    ASSUME NEW w \in Int, NEW x \in Int, NEW lo \in Nat, NEW hi \in Nat, lo <= hi
    PROVE  WithBits(w, lo, hi, x) \in Int /\ BitField(WithBits(w, lo, hi, x), lo, hi) = BitField(x, lo, hi)
  <1>1. PICK L, M : L = Pow2[lo] /\ M = Pow2[hi - lo] /\ L \in Nat \ {0} /\ M \in Nat \ {0}
    BY FieldSizes
  <1>2. PICK z : z = WithBits(w, lo, hi, x)
    OBVIOUS
  <1>3. PICK q, f, g, r : /\ MadeOf(w, L, M, q, f, r) /\ MadeOf(z, L, M, q, g, r)
                          /\ g = BitField(x, lo, hi) /\ z = w + (g - f) * L
    BY <1>1, <1>2, WithBitsMade
  <1>4. BitField(z, lo, hi) = g
    BY <1>1, <1>3, FieldMade
  <1>5. z \in Int /\ q \in Int /\ f \in Int /\ g \in Int /\ r \in Int
    BY <1>3 DEF MadeOf
  <1> QED BY ONLY <1>2, <1>3, <1>4, <1>5

\* ... and keeps the fields below it ...
LEMMA WithBitsBelow ==
    ASSUME NEW w \in Int, NEW x \in Int, NEW lo \in Nat, NEW hi \in Nat, lo <= hi,
           NEW a \in Nat, NEW b \in Nat, a <= b, b <= lo
    PROVE  BitField(WithBits(w, lo, hi, x), a, b) = BitField(w, a, b)
  <1>1. PICK L, M : L = Pow2[lo] /\ M = Pow2[hi - lo] /\ L \in Nat \ {0} /\ M \in Nat \ {0}
    BY FieldSizes
  <1>2. PICK z : z = WithBits(w, lo, hi, x)
    OBVIOUS
  <1>3. PICK q, f, g, r : /\ MadeOf(w, L, M, q, f, r) /\ MadeOf(z, L, M, q, g, r)
                          /\ g = BitField(x, lo, hi) /\ z = w + (g - f) * L
    BY <1>1, <1>2, WithBitsMade
  <1>5. z \in Int /\ q \in Int /\ f \in Int /\ g \in Int /\ r \in Int
    BY <1>3 DEF MadeOf
  <1>11. PICK A, B : A = Pow2[a] /\ B = Pow2[b - a] /\ A \in Nat \ {0} /\ B \in Nat \ {0} /\ Pow2[b] = A * B
    BY FieldSizes
  <1>12. PICK C : C = Pow2[lo - b] /\ C \in Nat \ {0} /\ L = (A * B) * C
    <2>1. Pow2[lo] = Pow2[b] * Pow2[lo - b] /\ Pow2[lo - b] \in Nat \ {0}
      BY FieldSizes
    <2> QED BY ONLY <1>1, <1>11, <2>1
  <1>13. PICK p, h, s : MadeOf(w, A, B, p, h, s)
    BY <1>11, MadeOfExists
  <1>14. p \in Int /\ h \in 0 .. B - 1 /\ s \in 0 .. A - 1 /\ w = A * (B * p + h) + s
    BY <1>13 DEF MadeOf
  <1>15. PICK n \in Int : n = p + C * (g - f)
    BY <1>5, <1>12, <1>14
  <1>16. z = A * (B * n + h) + s
    <2>1. A \in Int /\ B \in Int /\ C \in Int /\ h \in Int /\ s \in Int /\ p \in Int
      BY <1>11, <1>12, <1>14
    <2> QED BY ONLY <1>3, <1>5, <1>12, <1>14, <1>15, <2>1
  <1>17. MadeOf(z, A, B, n, h, s)
    BY ONLY <1>5, <1>11, <1>14, <1>15, <1>16 DEF MadeOf
  <1> QED BY <1>2, <1>11, <1>13, <1>17, FieldMade

\* ... and those above it.
LEMMA WithBitsAbove ==
    ASSUME NEW w \in Int, NEW x \in Int, NEW lo \in Nat, NEW hi \in Nat, lo <= hi,
           NEW a \in Nat, NEW b \in Nat, a <= b, hi <= a
    PROVE  BitField(WithBits(w, lo, hi, x), a, b) = BitField(w, a, b)
  <1>1. PICK L, M : L = Pow2[lo] /\ M = Pow2[hi - lo] /\ L \in Nat \ {0} /\ M \in Nat \ {0}
    BY FieldSizes
  <1>2. PICK z : z = WithBits(w, lo, hi, x)
    OBVIOUS
  <1>3. PICK q, f, g, r : /\ MadeOf(w, L, M, q, f, r) /\ MadeOf(z, L, M, q, g, r)
                          /\ g = BitField(x, lo, hi) /\ z = w + (g - f) * L
    BY <1>1, <1>2, WithBitsMade
  <1>5. z \in Int /\ q \in Int /\ f \in Int /\ g \in Int /\ r \in Int
    BY <1>3 DEF MadeOf
  <1>11. PICK N : N = L * M /\ N = Pow2[hi] /\ N \in Nat \ {0}
    BY <1>1, FieldSizes
  <1>12. PICK C : C = Pow2[a - hi] /\ C \in Nat \ {0} /\ Pow2[a] = N * C
    BY <1>11, FieldSizes
  <1>13. PICK p, s : Quotient(q, C, p, s)
    BY <1>5, <1>12, Quotients
  <1>14. q = C * p + s
    BY <1>13 DEF Quotient
  <1>15. Quotient(w, N, C * p + s, L * f + r) /\ Quotient(z, N, C * p + s, L * g + r)
    BY <1>3, <1>11, <1>14, MadeOfParts
  <1>16. MadeOf(w, N, C, p, s, L * f + r) /\ MadeOf(z, N, C, p, s, L * g + r)
    BY <1>13, <1>14, <1>15, MadeOfParts
  <1>17. w \div (N * C) = p /\ z \div (N * C) = p
    BY <1>16, MadeOfParts
  <1> QED BY ONLY <1>2, <1>12, <1>17 DEF BitField

-----------------------------------------------------------------------------
(* What ElfLinkOne writes is what code reads. *)

\* The constants of a word.
LEMMA WordSizes ==
    /\ Half \in Nat /\ 2 <= Half /\ OpBits \in 1 .. Half
    /\ Pow2[Half] \in Nat \ {0} /\ Word \in Nat \ {0} /\ Word = Pow2[Half] * Pow2[Half]
    /\ Pow2[Half - 1] \in Nat \ {0} /\ Pow2[Half] = Pow2[Half - 1] * 2
  <1>1. Half \in Nat /\ 2 <= Half /\ OpBits \in 1 .. Half
    BY RelocAssumption
  <1>2. PICK n : n = 2 * Half /\ n \in Nat /\ Half <= n /\ n - Half = Half
    BY <1>1
  <1>3. Pow2[Half] \in Nat \ {0} /\ Pow2[n] \in Nat \ {0} /\ Pow2[n] = Pow2[Half] * Pow2[n - Half]
    BY <1>1, <1>2, FieldSizes
  <1>4. PICK k : k = Half - 1 /\ k \in Nat /\ k <= Half /\ Half - k = 1
    BY <1>1
  <1>5. Pow2[k] \in Nat \ {0} /\ Pow2[Half] = Pow2[k] * Pow2[Half - k]
    BY <1>1, <1>4, FieldSizes
  <1>6. Pow2[1] = 2
    BY PowFacts
  <1> QED BY ONLY <1>1, <1>2, <1>3, <1>4, <1>5, <1>6 DEF Word

\* The lower bits of a number.
LEMMA LowField ==
    ASSUME NEW x \in Int, NEW n \in Nat
    PROVE  BitField(x, 0, n) = x % Pow2[n]
  <1>1. Quotient(x, 1, x, 0)
    BY DEF Quotient
  <1>2. x \div 1 = x
    BY <1>1, Quotients
  <1>3. n - 0 = n /\ Pow2[0] = 1
    BY PowFacts
  <1> QED BY ONLY <1>2, <1>3 DEF BitField

\* A field that leaves out two bits holds the numbers that are multiples of four.
LEMMA QuadField ==
    ASSUME NEW x \in Int, x % 4 = 0, NEW n \in Nat, 2 <= n
    PROVE  BitField(x, 2, n) * 4 = x % Pow2[n]
  <1>1. PICK M : /\ M = Pow2[n - 2] /\ M \in Nat \ {0} /\ Pow2[n] = 4 * M
    <2>1. Pow2[2] = 4
      BY PowFacts
    <2>2. Pow2[n - 2] \in Nat \ {0} /\ Pow2[n] = Pow2[2] * Pow2[n - 2]
      BY FieldSizes
    <2> QED BY ONLY <2>1, <2>2
  <1>2. Pow2[2] = 4
    BY PowFacts
  <1>3. PICK q, b, r : MadeOf(x, 4, M, q, b, r)
    BY <1>1, MadeOfExists
  <1>4. BitField(x, 2, n) = b
    BY <1>1, <1>2, <1>3, FieldMade
  <1>5. x \in Int /\ q \in Int /\ b \in 0 .. M - 1 /\ r \in 0 .. 3 /\ x = 4 * (M * q + b) + r
    BY <1>3 DEF MadeOf
  <1>6. r = 0
    <2>1. PICK v \in Int : v = M * q + b
      BY <1>1, <1>5
    <2> QED BY ONLY <1>5, <2>1, x % 4 = 0
  <1>7. Quotient(x, 4 * M, q, 4 * b + r)
    BY <1>3, MadeOfParts
  <1>8. x % (4 * M) = 4 * b + r
    BY <1>7, Quotients
  <1> QED BY ONLY <1>1, <1>4, <1>5, <1>6, <1>8

\* A number of a word is its own remainder.
LEMMA SmallRemainder ==
    ASSUME NEW n \in Nat \ {0}, NEW x \in 0 .. n - 1
    PROVE  x % n = x /\ x \div n = 0
  <1>1. Quotient(x, n, 0, x)
    BY DEF Quotient
  <1> QED BY <1>1, Quotients

\* The upper half of a number, with the lower half.
LEMMA HighHalf ==
    ASSUME NEW x \in 0 .. Word - 1
    PROVE  \E h, l \in 0 .. Pow2[Half] - 1 :
              x = h * Pow2[Half] + l /\ x \div Pow2[Half] = h /\ x % Pow2[Half] = l
  <1>1. PICK P : P = Pow2[Half] /\ P \in Nat \ {0} /\ Word = P * P
    BY WordSizes
  <1>2. x \in Int
    BY <1>1
  <1>3. PICK h, l : Quotient(x, P, h, l)
    BY <1>1, <1>2, Quotients
  <1>4. h \in Int /\ l \in 0 .. P - 1 /\ x = P * h + l
    BY <1>3 DEF Quotient
  <1>5. h >= 0
    <2> SUFFICES ASSUME h <= -1 PROVE FALSE
      BY <1>4
    <2>1. P * h <= P * (-1)
      BY ONLY <1>1, <1>4, h <= -1
    <2>2. PICK y \in Int : y = P * h
      BY <1>1, <1>4
    <2> QED BY <1>1, <1>4, <2>1, <2>2
  <1>6. h < P
    <2> SUFFICES ASSUME h >= P PROVE FALSE
      BY <1>1, <1>4
    <2>1. P * h >= P * P
      BY ONLY <1>1, <1>4, h >= P
    <2>2. PICK y \in Int, z \in Int : y = P * h /\ z = P * P
      BY <1>1, <1>4
    <2> QED BY <1>1, <1>4, <2>1, <2>2
  <1>7. h \in 0 .. P - 1 /\ x = h * P + l
    BY <1>1, <1>4, <1>5, <1>6
  <1>8. x \div P = h /\ x % P = l
    BY <1>3, Quotients
  <1> QED BY <1>1, <1>4, <1>7, <1>8

\* lis and ori, with the two halves.
LEMMA PairHI ==
    ASSUME NEW x \in 0 .. Word - 1
    PROVE  BitField(x \div Pow2[Half], 0, Half) * Pow2[Half] + (x % Pow2[Half]) = x
  <1>1. PICK P : P = Pow2[Half] /\ P \in Nat \ {0}
    BY WordSizes
  <1>2. PICK h, l \in 0 .. P - 1 : x = h * P + l /\ x \div P = h /\ x % P = l
    BY <1>1, HighHalf
  <1>3. BitField(h, 0, Half) = h
    <2>1. h \in Int /\ Half \in Nat
      BY <1>2, WordSizes
    <2>2. BitField(h, 0, Half) = h % P
      BY <1>1, <2>1, LowField
    <2>3. h % P = h
      BY <1>1, <1>2, SmallRemainder
    <2> QED BY <2>2, <2>3
  <1> QED BY ONLY <1>1, <1>2, <1>3

\* lis and addi: the upper half makes up for the sign of the lower one.
LEMMA PairHA ==
    ASSUME NEW x \in 0 .. Word - 1
    PROVE  /\ x \div Pow2[Half] + BitField(x, Half - 1, Half) \in Int
           /\ (BitField(x \div Pow2[Half] + BitField(x, Half - 1, Half), 0, Half) * Pow2[Half]
                  + Signed(x % Pow2[Half], Half)) % Word = x
  <1>1. PICK P, H : /\ P = Pow2[Half] /\ H = Pow2[Half - 1] /\ P \in Nat \ {0} /\ H \in Nat \ {0}
                    /\ P = H * 2 /\ Word = P * P /\ Word \in Nat \ {0}
    BY WordSizes
  <1>2. PICK h, l \in 0 .. P - 1 : x = h * P + l /\ x \div P = h /\ x % P = l
    BY <1>1, HighHalf
  <1>3. PICK c \in 0 .. 1 : c = BitField(x, Half - 1, Half) /\ \E r \in 0 .. H - 1 : l = H * c + r
    <2>1. PICK k : k = Half - 1 /\ k \in Nat /\ k <= Half /\ Half - k = 1 /\ Half \in Nat
      BY WordSizes
    <2>2. Pow2[1] = 2
      BY PowFacts
    <2>3. x \in Int /\ 2 \in Nat \ {0}
      BY <1>1
    <2>4. PICK q, c, r : MadeOf(x, H, 2, q, c, r)
      BY <1>1, <2>3, MadeOfExists
    <2>5. BitField(x, k, Half) = c
      BY <1>1, <2>1, <2>2, <2>4, FieldMade
    <2>6. Quotient(x, H * 2, q, H * c + r)
      BY <2>4, MadeOfParts
    <2>7. x % P = H * c + r
      BY <1>1, <2>6, Quotients
    <2>8. c \in 0 .. 1 /\ r \in 0 .. H - 1
      BY <2>4 DEF MadeOf
    <2> QED BY ONLY <1>2, <2>1, <2>5, <2>7, <2>8
  <1>4. Signed(l, Half) = l - c * P
    <2>1. PICK r \in 0 .. H - 1 : l = H * c + r
      BY <1>3
    <2>2. CASE c = 0
      BY ONLY <1>1, <1>2, <2>1, <2>2 DEF Signed
    <2>3. CASE c = 1
      BY ONLY <1>1, <1>2, <2>1, <2>3 DEF Signed
    <2> QED BY <1>3, <2>2, <2>3
  <1>5. h + c \in Int
    BY <1>2, <1>3
  <1>6. PICK e \in 0 .. 1 : BitField(h + c, 0, Half) = h + c - e * P
    <2>1. BitField(h + c, 0, Half) = (h + c) % P
      BY <1>1, <1>5, WordSizes, LowField
    <2>2. CASE h + c < P
      <3>1. h + c \in 0 .. P - 1
        BY ONLY <1>1, <2>2, h \in 0 .. P - 1, c \in 0 .. 1
      <3>2. (h + c) % P = h + c
        BY <1>1, <3>1, SmallRemainder
      <3>3. h + c = h + c - 0 * P
        BY ONLY <1>1, <1>5
      <3> QED BY <2>1, <3>2, <3>3
    <2>3. CASE ~(h + c < P)
      <3>1. h + c = P * 1 + 0
        <4>1. h <= P - 1 /\ c <= 1 /\ h \in Int /\ c \in Int /\ P \in Int
          BY ONLY <1>1, h \in 0 .. P - 1, c \in 0 .. 1
        <4> QED BY ONLY <2>3, <4>1
      <3>2. Quotient(h + c, P, 1, 0)
        BY <1>1, <1>5, <3>1 DEF Quotient
      <3>3. (h + c) % P = 0
        BY <3>2, Quotients
      <3>4. h + c - 1 * P = 0
        BY ONLY <1>1, <1>5, <3>1
      <3> QED BY <2>1, <3>3, <3>4
    <2> QED BY <2>2, <2>3
  <1>7. PICK y : y = (h + c - e * P) * P + (l - c * P)
    OBVIOUS
  <1>8. y = Word * (-e) + x /\ y \in Int
    <2>1. h \in Int /\ c \in Int /\ e \in Int /\ P \in Int /\ l \in Int
      BY <1>1, <1>2, <1>3, <1>6
    <2>2. y = (P * P) * (-e) + (h * P + l)
      BY ONLY <1>7, <2>1
    <2>3. y \in Int
      BY ONLY <1>7, <2>1
    <2> QED BY ONLY <1>1, <1>2, <2>2, <2>3
  <1>9. Quotient(y, Word, -e, x)
    BY <1>1, <1>6, <1>8 DEF Quotient
  <1>10. y % Word = x
    BY <1>9, Quotients
  <1> QED BY ONLY <1>1, <1>2, <1>3, <1>4, <1>5, <1>6, <1>7, <1>10

\* The types of relocations with a symbol have these fields.
LEMMA KnownFields ==
    ASSUME NEW type \in Known
    PROVE  type[1] \in {"absolute", "relative", "sectoff", "negative"} /\ type[2] \in Fields
  BY DEF Known, Fields

\* The value of a relocation is a word.
LEMMA ComputedIsWord ==
    ASSUME NEW form \in {"absolute", "relative", "sectoff", "negative"},
           NEW a \in Int, NEW addend \in Int, NEW target \in Int
    PROVE  Computed(form, a, 0, addend, target) \in 0 .. Word - 1
  <1>1. \A x \in Int : x % Word \in 0 .. Word - 1
    <2>1. ASSUME NEW x \in Int PROVE x % Word \in 0 .. Word - 1
      <3>1. PICK q, r : Quotient(x, Word, q, r)
        BY WordSizes, Quotients
      <3>2. x % Word = r
        BY <3>1, Quotients
      <3> QED BY <3>1, <3>2 DEF Quotient
    <2> QED BY <2>1
  <1>2. a + addend \in Int /\ a + addend - target \in Int /\ 0 + addend \in Int /\ addend - a \in Int
    OBVIOUS
  <1> QED BY ONLY <1>1, <1>2, form \in {"absolute", "relative", "sectoff", "negative"} DEF Computed

\* The word w with value x in a field.
Stored(field, w, x) ==
    CASE field = "32" -> x
      [] field = "24" -> WithBits(w, 2, 2 * Half - OpBits, x)
      [] field \in {"16", "HI", "HA", "LO"} -> WithBits(w, 0, Half, Stored16(field, x))
      [] field = "14" -> WithBits(w, 2, Half, x)
      [] field = "14T" -> WithBits(WithBits(w, 2, Half, x), Predicted, Predicted + 1, Word - 1)
      [] field = "14N" -> WithBits(WithBits(w, 2, Half, x), Predicted, Predicted + 1, 0)
      [] field = "30" -> WithBits(w, 2, 2 * Half, x)

\* A value that the field holds is read from it.
LEMMA StoredIsRead ==
    ASSUME NEW field \in Fields, NEW w \in Int, NEW x \in 0 .. Word - 1, Holds(field, x)
    PROVE  ReadBack(field, Stored(field, w, x), x) = x
  <1>1. /\ Half \in Nat /\ 2 <= Half /\ OpBits \in 1 .. Half /\ x \in Int /\ 0 \in Nat /\ 2 \in Nat
        /\ 2 * Half \in Nat /\ 2 <= 2 * Half /\ 2 * Half - OpBits \in Nat /\ 2 <= 2 * Half - OpBits
        /\ Predicted \in Nat /\ Predicted + 1 \in Nat /\ Half <= Predicted /\ Predicted <= Predicted + 1
        /\ Word - 1 \in Int /\ 0 \in Int
    BY WordSizes DEF Predicted
  <1>2. CASE field = "32"
    BY <1>2 DEF ReadBack, Stored
  <1>3. CASE field = "24"
    <2>1. PICK N : N = 2 * Half - OpBits /\ N \in Nat /\ 2 <= N
      BY <1>1
    <2>2. x % 4 = 0 /\ Signed(x % Pow2[N], N) % Word = x
      BY <1>3, <2>1 DEF Holds
    <2>3. BitField(WithBits(w, 2, N, x), 2, N) = BitField(x, 2, N)
      BY <1>1, <2>1, WithBitsField
    <2>4. BitField(x, 2, N) * 4 = x % Pow2[N]
      BY <1>1, <2>1, <2>2, QuadField
    <2>5. ReadBack(field, Stored(field, w, x), x) = Signed(BitField(WithBits(w, 2, N, x), 2, N) * 4, N) % Word
      BY ONLY <1>3, <2>1 DEF ReadBack, Stored
    <2> QED BY ONLY <2>2, <2>3, <2>4, <2>5
  <1>4. CASE field \in {"14", "14T", "14N"}
    <2>1. x % 4 = 0 /\ Signed(x % Pow2[Half], Half) % Word = x
      BY <1>4 DEF Holds
    <2>2. PICK y : y = WithBits(w, 2, Half, x) /\ y \in Int /\ BitField(y, 2, Half) = BitField(x, 2, Half)
      <3>1. WithBits(w, 2, Half, x) \in Int /\ BitField(WithBits(w, 2, Half, x), 2, Half) = BitField(x, 2, Half)
        <4>1. PICK K \in Nat, two \in Nat : K = Half /\ two = 2 /\ two <= K
          BY <1>1
        <4>2. WithBits(w, two, K, x) \in Int /\ BitField(WithBits(w, two, K, x), two, K) = BitField(x, two, K)
          <5>1. x \in Int
            BY <1>1
          <5>2. WithBits(w, two, K, x) \in Int
            BY <4>1, <5>1, WithBitsField
          <5>3. BitField(WithBits(w, two, K, x), two, K) = BitField(x, two, K)
            BY <4>1, <5>1, WithBitsField
          <5> QED BY <5>2, <5>3
        <4> QED BY ONLY <4>1, <4>2
      <3> QED BY ONLY <3>1
    <2>3. BitField(x, 2, Half) * 4 = x % Pow2[Half]
      BY <1>1, <2>1, QuadField
    <2>4. /\ BitField(WithBits(y, Predicted, Predicted + 1, Word - 1), 2, Half) = BitField(y, 2, Half)
          /\ BitField(WithBits(y, Predicted, Predicted + 1, 0), 2, Half) = BitField(y, 2, Half)
      <3>1. PICK p, e \in Nat : p = Predicted /\ e = Predicted + 1 /\ Half <= p /\ p <= e
        BY <1>1
      <3>2. ASSUME NEW v \in Int PROVE BitField(WithBits(y, p, e, v), 2, Half) = BitField(y, 2, Half)
        BY <1>1, <2>2, <3>1, WithBitsBelow
      <3> QED BY ONLY <1>1, <3>1, <3>2
    <2>5. BitField(Stored(field, w, x), 2, Half) = BitField(x, 2, Half)
      BY ONLY <1>4, <2>2, <2>4 DEF Stored
    <2>6. ReadBack(field, Stored(field, w, x), x) = Signed(BitField(Stored(field, w, x), 2, Half) * 4, Half) % Word
      BY ONLY <1>4 DEF ReadBack
    <2> QED BY ONLY <2>1, <2>3, <2>5, <2>6
  <1>5. CASE field \in {"16", "LO"}
    <2>1. Signed(x % Pow2[Half], Half) % Word = x
      BY <1>5 DEF Holds
    <2>2. BitField(WithBits(w, 0, Half, x), 0, Half) = BitField(x, 0, Half)
      BY <1>1, WithBitsField
    <2>3. BitField(x, 0, Half) = x % Pow2[Half]
      BY <1>1, LowField
    <2>4. ReadBack(field, Stored(field, w, x), x) = Signed(BitField(WithBits(w, 0, Half, x), 0, Half), Half) % Word
      BY ONLY <1>5 DEF ReadBack, Stored, Stored16
    <2> QED BY ONLY <2>1, <2>2, <2>3, <2>4
  <1>6. CASE field = "HI"
    <2>1. PICK h : h = x \div Pow2[Half] /\ h \in Int
      BY HighHalf
    <2>2. BitField(WithBits(w, 0, Half, h), 0, Half) = BitField(h, 0, Half)
      BY <1>1, <2>1, WithBitsField
    <2>3. BitField(h, 0, Half) * Pow2[Half] + (x % Pow2[Half]) = x
      BY <2>1, PairHI
    <2>4. ReadBack(field, Stored(field, w, x), x)
              = BitField(WithBits(w, 0, Half, h), 0, Half) * Pow2[Half] + (x % Pow2[Half])
      BY ONLY <1>6, <2>1 DEF ReadBack, Stored, Stored16
    <2> QED BY ONLY <2>2, <2>3, <2>4
  <1>7. CASE field = "HA"
    <2>1. PICK h : h = x \div Pow2[Half] + BitField(x, Half - 1, Half) /\ h \in Int
      BY PairHA
    <2>2. BitField(WithBits(w, 0, Half, h), 0, Half) = BitField(h, 0, Half)
      BY <1>1, <2>1, WithBitsField
    <2>3. (BitField(h, 0, Half) * Pow2[Half] + Signed(x % Pow2[Half], Half)) % Word = x
      BY <2>1, PairHA
    <2>4. ReadBack(field, Stored(field, w, x), x)
              = (BitField(WithBits(w, 0, Half, h), 0, Half) * Pow2[Half] + Signed(x % Pow2[Half], Half)) % Word
      BY ONLY <1>7, <2>1 DEF ReadBack, Stored, Stored16
    <2> QED BY ONLY <2>2, <2>3, <2>4
  <1>8. CASE field = "30"
    <2>1. x % 4 = 0
      BY <1>8 DEF Holds
    <2>2. BitField(WithBits(w, 2, 2 * Half, x), 2, 2 * Half) = BitField(x, 2, 2 * Half)
      BY <1>1, WithBitsField
    <2>3. BitField(x, 2, 2 * Half) * 4 = x % Word
      BY <1>1, <2>1, QuadField DEF Word
    <2>4. x % Word = x
      BY WordSizes, SmallRemainder
    <2>5. ReadBack(field, Stored(field, w, x), x) = BitField(WithBits(w, 2, 2 * Half, x), 2, 2 * Half) * 4
      BY ONLY <1>8 DEF ReadBack, Stored
    <2> QED BY ONLY <2>2, <2>3, <2>4, <2>5
  <1> QED BY <1>2, <1>3, <1>4, <1>5, <1>6, <1>7, <1>8 DEF Fields

\* A branch keeps its opcode.
LEMMA StoredKeepsOpcode ==
    ASSUME NEW field \in {"24", "14"}, NEW w \in Int, NEW x \in 0 .. Word - 1
    PROVE  BitField(Stored(field, w, x), 2 * Half - OpBits, 2 * Half) = BitField(w, 2 * Half - OpBits, 2 * Half)
  <1>1. PICK N, E : /\ N = 2 * Half - OpBits /\ E = 2 * Half /\ N \in Nat /\ E \in Nat /\ 2 <= N /\ N <= E
                    /\ Half <= N /\ Half \in Nat /\ 2 <= Half /\ 2 \in Nat /\ x \in Int
    BY WordSizes
  <1>2. CASE field = "24"
    <2>1. BitField(WithBits(w, 2, N, x), N, E) = BitField(w, N, E)
      <3>1. N <= N
        BY <1>1
      <3> QED BY <1>1, <3>1, WithBitsAbove
    <2>2. Stored(field, w, x) = WithBits(w, 2, N, x)
      BY ONLY <1>1, <1>2 DEF Stored
    <2> QED BY ONLY <1>1, <2>1, <2>2
  <1>3. CASE field = "14"
    <2>1. BitField(WithBits(w, 2, Half, x), N, E) = BitField(w, N, E)
      BY <1>1, WithBitsAbove
    <2>2. Stored(field, w, x) = WithBits(w, 2, Half, x)
      BY ONLY <1>3 DEF Stored
    <2> QED BY ONLY <1>1, <2>1, <2>2
  <1> QED BY <1>2, <1>3

(***************************************************************************)
(* A relocation that is applied to the word of the file: what is read is   *)
(* its value.                                                              *)
(***************************************************************************)
LEMMA LinkOneRight ==
    ASSUME NEW type \in Known, NEW w \in Int, NEW a \in Int, NEW addend \in Int, NEW target \in Int,
           NEW x, x = Computed(type[1], a, 0, addend, target)
    PROVE  LET z == ElfLinkOne(type, w, a, 0, addend, target)
           IN  /\ Holds(type[2], x) => ReadBack(type[2], z, x) = x
               /\ type[2] \in {"24", "14"} =>
                      BitField(z, 2 * Half - OpBits, 2 * Half) = BitField(w, 2 * Half - OpBits, 2 * Half)
  <1>1. type[1] \in {"absolute", "relative", "sectoff", "negative"} /\ type[2] \in Fields
    BY KnownFields
  <1>2. x \in 0 .. Word - 1
    BY <1>1, ComputedIsWord
  <1>3. ElfLinkOne(type, w, a, 0, addend, target) = Stored(type[2], w, x)
    BY ONLY x = Computed(type[1], a, 0, addend, target) DEF ElfLinkOne, Stored
  <1> QED BY <1>1, <1>2, <1>3, StoredIsRead, StoredKeepsOpcode

\* The word stays a number.
LEMMA StoredIsInt ==
    ASSUME NEW field \in Fields, NEW w \in Int, NEW x \in 0 .. Word - 1
    PROVE  Stored(field, w, x) \in Int
  <1>1. PICK K \in Nat, two \in Nat, N \in Nat, E \in Nat :
           K = Half /\ two = 2 /\ N = 2 * Half - OpBits /\ E = 2 * Half /\ two <= K /\ two <= N /\ two <= E
    <2>1. /\ Half \in Nat /\ 2 \in Nat /\ 2 * Half - OpBits \in Nat /\ 2 * Half \in Nat
          /\ 2 <= Half /\ 2 <= 2 * Half - OpBits /\ 2 <= 2 * Half
      BY WordSizes
    <2> QED BY ONLY <2>1
  <1>2. PICK p \in Nat, e \in Nat : p = Predicted /\ e = Predicted + 1 /\ p <= e
    BY WordSizes DEF Predicted
  <1>3. x \in Int /\ Word - 1 \in Int /\ 0 \in Int /\ 0 \in Nat /\ 0 <= K
    BY <1>1, WordSizes
  <1>4. WithBits(w, two, N, x) \in Int /\ WithBits(w, two, E, x) \in Int /\ WithBits(w, two, K, x) \in Int
    <2>1. WithBits(w, two, N, x) \in Int
      BY <1>1, <1>3, WithBitsField
    <2>2. WithBits(w, two, E, x) \in Int
      BY <1>1, <1>3, WithBitsField
    <2>3. WithBits(w, two, K, x) \in Int
      BY <1>1, <1>3, WithBitsField
    <2> QED BY <2>1, <2>2, <2>3
  <1>5. ASSUME NEW v \in Int PROVE WithBits(w, 0, K, v) \in Int /\ WithBits(WithBits(w, two, K, x), p, e, v) \in Int
    <2>1. WithBits(w, 0, K, v) \in Int
      BY <1>3, WithBitsField
    <2>2. WithBits(WithBits(w, two, K, x), p, e, v) \in Int
      BY <1>2, <1>4, WithBitsField
    <2> QED BY <2>1, <2>2
  <1>6. x \div Pow2[Half] \in Int /\ x \div Pow2[Half] + BitField(x, Half - 1, Half) \in Int
    BY HighHalf, PairHA
  <1>7. field \in {"16", "LO", "HI", "HA"} => Stored16(field, x) \in Int
    BY ONLY <1>3, <1>6 DEF Stored16
  <1>8. CASE field \in {"16", "HI", "HA", "LO"}
    <2>1. Stored(field, w, x) = WithBits(w, 0, K, Stored16(field, x))
      BY ONLY <1>1, <1>8 DEF Stored
    <2> QED BY <1>5, <1>7, <1>8, <2>1
  <1>9. CASE field \in {"14T", "14N"}
    <2>1. \/ Stored(field, w, x) = WithBits(WithBits(w, two, K, x), p, e, Word - 1)
          \/ Stored(field, w, x) = WithBits(WithBits(w, two, K, x), p, e, 0)
      BY ONLY <1>1, <1>2, <1>9 DEF Stored
    <2> QED BY <1>3, <1>5, <2>1
  <1>10. CASE field \in {"32", "24", "14", "30"}
    <2>1. Stored(field, w, x) \in {x, WithBits(w, two, N, x), WithBits(w, two, E, x), WithBits(w, two, K, x)}
      BY ONLY <1>1, <1>10 DEF Stored
    <2> QED BY <1>3, <1>4, <2>1
  <1> QED BY <1>8, <1>9, <1>10 DEF Fields

\* What Module_ElfLinkOne leaves in a word is a number.
LEMMA LinkOneIsInt ==
    ASSUME NEW type \in Known, NEW w \in Int, NEW a \in Int, NEW addend \in Int, NEW target \in Int
    PROVE  ElfLinkOne(type, w, a, 0, addend, target) \in Int
  <1>1. type[1] \in {"absolute", "relative", "sectoff", "negative"} /\ type[2] \in Fields
    BY KnownFields
  <1>2. PICK x \in 0 .. Word - 1 : x = Computed(type[1], a, 0, addend, target)
    BY <1>1, ComputedIsWord
  <1>3. ElfLinkOne(type, w, a, 0, addend, target) = Stored(type[2], w, x)
    BY ONLY <1>2 DEF ElfLinkOne, Stored
  <1> QED BY <1>1, <1>3, StoredIsInt

-----------------------------------------------------------------------------
(***************************************************************************)
(* Linking.  Up to linkStage "final" the modules before linking are        *)
(* linked, those behind it have no place yet.                              *)
(***************************************************************************)

CodeSections == {"text", "load"}
Going == linkStage \in {"place", "relocate", "final", "done"}
Small == module_entries.count <= MODULE_ENTRIES_CAPACITY_DEFAULT

QueueEntries ==
    [module : 1 .. MaxFiles, section : CodeSections, block : Nat, address : Int, type : RelocTypes,
     offset : {0}, addend : Int, found : Int]

RelocTyped ==
    /\ linkStage \in {"load", "place", "relocate", "final", "done", "failed", "hung"}
    /\ module_list \in Seq(ModuleFiles) /\ Len(module_list) <= MaxFiles
    /\ linking \in Nat \ {0} /\ relocated \in Nat
    /\ destinations \in [1 .. MaxFiles -> [CodeSections -> Int]]
    /\ memory \in [1 .. MaxFiles -> [CodeSections -> Int]]
    /\ room \in Int /\ room % 4 = 0
    /\ module_entries.block \in Nat /\ module_entries.count \in Nat
    /\ module_entries.base \in Nat \cup {NotFound}
    /\ module_relocations \in Seq(QueueEntries)

\* How far each stage has got.
Stages ==
    /\ linkStage = "load" => /\ linking = 1 /\ relocated = 0 /\ module_relocations = << >>
                             /\ module_entries.count = 0
    /\ linkStage \in {"place", "relocate"} => linking <= Len(module_list)
    /\ linkStage = "place" => relocated = 0
    /\ linkStage = "relocate" => relocated <= Len(Linked.relocs)
    /\ linkStage \in {"final", "done"} => linking = Len(module_list) + 1
    /\ linkStage = "done" => module_relocations = << >>

\* The sections of module m have their places.
Ready(m) == m < linking \/ (m = linking /\ linkStage = "relocate")

Destinations ==
    \A m \in 1 .. MaxFiles :
        /\ m > linking \/ linkStage = "load" => destinations[m] = Nowhere
        /\ Going /\ Ready(m) => destinations[m].text # NotFound /\ destinations[m].load # NotFound

\* The entries on the list are those of the modules that have a place for them.
Counts == [m \in 1 .. Len(module_list) |-> EntriesCount(module_list[m])]
Counted ==
    Going => module_entries.count =
                 SumTo(Counts, linking - 1)
                     + (IF linking <= Len(module_list) /\ destinations[linking].load # NotFound
                        THEN Counts[linking] ELSE 0)

\* The list of entries is allocated for the first of them, and is not moved until it is full.
Unmoved ==
    /\ module_entries.base = NotFound =>
           /\ module_entries.capacity = 0 /\ module_entries.count = 0 /\ module_entries.block = 0
           /\ \A m \in 1 .. MaxFiles : destinations[m].load = NotFound
    /\ module_entries.base # NotFound /\ Small =>
           module_entries.capacity = MODULE_ENTRIES_CAPACITY_DEFAULT /\ module_entries.block = 1

\* Relocation i of module m was applied or queued.
Handled(m, i) == m < linking \/ (m = linking /\ linkStage = "relocate" /\ i <= relocated)

\* What is queued is a relocation of a linked module.
QueuedOne(q) ==
    /\ q.module \in 1 .. Len(module_list)
    /\ \E i \in DOMAIN module_list[q.module].relocs :
           Handled(q.module, i) /\ module_list[q.module].relocs[i].section = q.section
    /\ q.section = "load" /\ Small => q.block = module_entries.block

Queued == Going => \A j \in DOMAIN module_relocations : QueuedOne(module_relocations[j])

\* q waits for section s of module m.
WaitsFor(q, m, s) == q.module = m /\ q.section = s

\* No relocation, or no other than that at j, is queued for section s of module m.
NoneFor(m, s) == \A j \in DOMAIN module_relocations : ~WaitsFor(module_relocations[j], m, s)
OnlyFor(j, m, s) == \A k \in DOMAIN module_relocations : WaitsFor(module_relocations[k], m, s) => k = j

AddendIn(m, r) == IF r.rela THEN r.addend ELSE module_list[m].word

\* The word that relocation r of module m is to become.
Result(m, r) ==
    ElfLinkOne(r.type, module_list[m].word, FinalAddress(m, r), 0, AddendIn(m, r), destinations[m][r.section])

Resolved(m, r) == r.type \in Known /\ memory[m][r.section] = Result(m, r) /\ NoneFor(m, r.section)

\* Relocation r of module m is the one that q keeps.
Keeps(q, m, r) ==
    /\ WaitsFor(q, m, r.section) /\ q.address = destinations[m][r.section] /\ q.type = r.type
    /\ q.addend = AddendIn(m, r) /\ q.found = FinalAddress(m, r)

Pending(m, r) ==
    /\ memory[m][r.section] = module_list[m].word
    /\ \E j \in DOMAIN module_relocations :
          Keeps(module_relocations[j], m, r) /\ OnlyFor(j, m, r.section)

\* The word of a relocation that the linker promises to get right.
WordRight(m, i, r) ==
    IF Handled(m, i)
    THEN Resolved(m, r) \/ Pending(m, r)
    ELSE destinations[m][r.section] # NotFound => memory[m][r.section] = module_list[m].word

WordsRight ==
    Going /\ Small =>
        \A m \in 1 .. Len(module_list) : \A i \in DOMAIN module_list[m].relocs :
            Promised(m, i) => WordRight(m, i, module_list[m].relocs[i])

RelocInv ==
    RelocTyped /\ Stages /\ Destinations /\ Counted /\ Unmoved /\ Queued /\ WordsRight

\* The capacity of a list that is not full stays the default.
LEMMA CapacityDefault ==
    ASSUME NEW list, NEW num \in Nat, list.count \in Nat, list.count + num <= MODULE_ENTRIES_CAPACITY_DEFAULT,
           list.capacity = MODULE_ENTRIES_CAPACITY_DEFAULT
               \/ (list.capacity = 0 /\ list.count = 0 /\ num # 0)
    PROVE  CapacityFor(list, num) = MODULE_ENTRIES_CAPACITY_DEFAULT
  <1>1. PICK D : D = MODULE_ENTRIES_CAPACITY_DEFAULT /\ D \in Nat \ {0}
    BY RelocAssumption
  <1> DEFINE Enough(c) == c >= list.count + num /\ (c = D \/ c \div 2 < list.count + num)
             C == {D * Pow2[k] : k \in 0 .. num}
  <1>2. (IF list.count = 0 /\ list.capacity < num THEN D ELSE list.capacity) = D
    BY <1>1
  <1>3. CapacityFor(list, num) = CHOOSE c \in C : Enough(c)
    BY ONLY <1>1, <1>2 DEF CapacityFor
  <1>4. D \in C /\ Enough(D)
    <2>1. D * Pow2[0] = D /\ 0 \in 0 .. num
      BY <1>1, PowFacts
    <2> QED BY <1>1, <2>1
  <1>5. ASSUME NEW c \in C, Enough(c) PROVE c = D
    <2>1. PICK k \in 0 .. num : c = D * Pow2[k]
      OBVIOUS
    <2>2. CASE k = 0
      BY <1>1, <2>1, <2>2, PowFacts
    <2>3. CASE k # 0
      <3>1. PICK n \in Nat : k = n + 1
        <4>1. k - 1 \in Nat /\ k = (k - 1) + 1
          BY <2>3
        <4> QED BY <4>1
      <3>2. PICK p \in Nat \ {0} : p = Pow2[n] /\ Pow2[k] = 2 * p
        BY <3>1, PowStep, PowFacts
      <3>3. PICK h \in Nat : h = D * p /\ h >= D
        BY ONLY <1>1, <3>2
      <3>4. c = 2 * h
        BY ONLY <1>1, <2>1, <3>2, <3>3
      <3>5. c \div 2 = h
        BY ONLY <3>3, <3>4
      <3>6. c = D
        BY <1>1, <1>5, <3>3, <3>5
      <3> QED BY <3>6
    <2> QED BY <2>2, <2>3
  <1> HIDE DEF Enough, C
  <1>6. \E c \in C : Enough(c)
    BY <1>4
  <1>7. Enough(CapacityFor(list, num)) /\ CapacityFor(list, num) \in C
    BY <1>3, <1>6
  <1> QED BY <1>1, <1>5, <1>7

\* The invariant holds before modules are loaded.
LEMMA RelocInvInit == RelocInit => RelocInv
  <1> SUFFICES ASSUME RelocInit PROVE RelocInv
    OBVIOUS
  <1>1. [m \in 1 .. MaxFiles |-> Nowhere] \in [1 .. MaxFiles -> [CodeSections -> Int]]
    BY DEF Nowhere, NotFound, CodeSections
  <1>2. [m \in 1 .. MaxFiles |-> [text |-> 0, load |-> 0]] \in [1 .. MaxFiles -> [CodeSections -> Int]]
    BY DEF CodeSections
  <1>3. RelocTyped
    BY <1>1, <1>2, RelocAssumption DEF RelocInit, RelocTyped, NotFound
  <1>4. Stages /\ Destinations /\ Counted /\ Unmoved /\ Queued /\ WordsRight
    BY DEF RelocInit, Stages, Destinations, Counted, Unmoved, Queued, WordsRight, Going, Ready, Nowhere
  <1> QED BY <1>3, <1>4 DEF RelocInv

\* What a step leaves as it was.
LEMMA WordRightSame ==
    ASSUME NEW m, NEW i, NEW r,
           module_list' = module_list, destinations'[m] = destinations[m], memory'[m] = memory[m],
           module_relocations' = module_relocations, Handled(m, i)' <=> Handled(m, i)
    PROVE  WordRight(m, i, r)' <=> WordRight(m, i, r)
  <1>1. FinalAddress(m, r)' = FinalAddress(m, r)
    BY DEF FinalAddress
  <1>2. Result(m, r)' = Result(m, r) /\ AddendIn(m, r)' = AddendIn(m, r)
    BY <1>1 DEF Result, AddendIn
  <1>3. Resolved(m, r)' <=> Resolved(m, r)
    BY <1>2 DEF Resolved, NoneFor
  <1>4. Pending(m, r)' <=> Pending(m, r)
    BY <1>1, <1>2 DEF Pending, Keeps, OnlyFor, WaitsFor
  <1> QED BY <1>3, <1>4 DEF WordRight

\* What module_list holds.
LEMMA ModuleFacts ==
    ASSUME RelocTyped, NEW m \in 1 .. Len(module_list)
    PROVE  /\ module_list[m] \in ModuleFiles /\ m \in 1 .. MaxFiles
           /\ EntriesCount(module_list[m]) \in Nat /\ module_list[m].word \in Int
           /\ Len(module_list[m].relocs) \in Nat
           /\ DOMAIN module_list[m].relocs = 1 .. Len(module_list[m].relocs)
           /\ \A i \in DOMAIN module_list[m].relocs : module_list[m].relocs[i] \in Relocations
  <1>1. module_list[m] \in ModuleFiles /\ m \in 1 .. MaxFiles
    BY RelocAssumption DEF RelocTyped
  <1>2. EntriesCount(module_list[m]) \in Nat /\ module_list[m].word \in Int
    BY <1>1, WordSizes DEF ModuleFiles, EntriesCount
  <1>3. module_list[m].relocs \in Seq(Relocations)
    BY <1>1 DEF ModuleFiles
  <1> QED BY <1>1, <1>2, <1>3

\* A failure of linking changes the stage only.
LEMMA LinkFailedKeeps ==
    ASSUME RelocInv, LinkFailed
    PROVE  RelocInv'
  BY DEF RelocInv, LinkFailed, RelocTyped, Stages, Destinations, Counted, Unmoved, Queued, WordsRight, Going,
         Small, Linked, Ready

\* A file becomes a module or is refused; nothing is relocated yet.
LEMMA LoadFileKeeps ==
    ASSUME RelocInv, linkStage = "load", NEW f \in Files, LoadFile(f)
    PROVE  RelocInv'
  <1>1. f \in ModuleFiles
    BY RelocAssumption
  <1>2. module_list' \in Seq(ModuleFiles) /\ Len(module_list') <= MaxFiles
    <2>1. /\ module_list \in Seq(ModuleFiles) /\ Len(module_list) < MaxFiles /\ MaxFiles \in Nat
          /\ module_list' = Append(module_list, f) \/ module_list' = module_list
      BY RelocAssumption DEF LoadFile, RelocInv, RelocTyped
    <2>2. Append(module_list, f) \in Seq(ModuleFiles) /\ Len(Append(module_list, f)) = Len(module_list) + 1
      BY ONLY <1>1, <2>1
    <2>3. Len(module_list) \in Nat
      BY ONLY <2>1
    <2> QED BY ONLY <2>1, <2>2, <2>3
  <1> QED BY <1>2 DEF LoadFile, RelocInv, RelocTyped, Stages, Destinations, Counted, Unmoved, Queued, WordsRight, Going,
         Small, Linked, Ready

\* All files are loaded, and the first module is linked.
LEMMA AllLoadedKeeps ==
    ASSUME RelocInv, AllLoaded
    PROVE  RelocInv'
  <1>1. /\ linkStage = "load" /\ linkStage' = "place" /\ Len(module_list) > 0 /\ linking = 1 /\ relocated = 0
        /\ module_relocations = << >> /\ module_entries.count = 0 /\ linking - 1 = 0
        /\ UNCHANGED <<module_list, linking, relocated, destinations, room, module_entries, memory,
                       module_relocations>>
    BY DEF RelocInv, Stages, AllLoaded
  <1>2. RelocTyped'
    BY <1>1 DEF RelocInv, RelocTyped
  <1>3. Stages'
    BY <1>1 DEF RelocInv, RelocTyped, Stages
  <1>4. \A m \in 1 .. MaxFiles : destinations[m] = Nowhere /\ Nowhere.load = NotFound
    BY <1>1 DEF RelocInv, Destinations, Nowhere
  <1>5. \A m \in 1 .. MaxFiles, s \in CodeSections : destinations[m][s] = NotFound
    BY <1>4 DEF Nowhere, CodeSections
  <1>6. Destinations'
    BY <1>1, <1>4 DEF Destinations, Ready
  <1>7. Counted'
    <2>1. 1 \in 1 .. MaxFiles
      BY <1>1, RelocAssumption DEF RelocInv, RelocTyped
    <2>2. destinations[linking].load = NotFound
      BY <1>1, <1>4, <2>1
    <2>3. SumTo(Counts, 0) = 0
      BY SumStep
    <2>4. SumTo(Counts', linking' - 1) = 0
      BY <1>1, <2>3 DEF Counts
    <2> QED BY <1>1, <2>2, <2>4 DEF Counted
  <1>8. Unmoved'
    BY <1>1 DEF RelocInv, Unmoved, Small
  <1>9. Queued'
    BY <1>1 DEF Queued
  <1>10. WordsRight'
    <2> SUFFICES ASSUME NEW m \in 1 .. Len(module_list), NEW i \in DOMAIN module_list[m].relocs, Promised(m, i)
                 PROVE  WordRight(m, i, module_list[m].relocs[i])'
      BY <1>1 DEF WordsRight, Promised
    <2>1. PICK r : r = module_list[m].relocs[i] /\ r \in Relocations /\ r.section # "meta" /\ m \in 1 .. MaxFiles
      BY ModuleFacts DEF RelocInv, Promised
    <2>2. r.section \in CodeSections
      BY <2>1 DEF Relocations, CodeSections
    <2>3. destinations'[m][r.section] = NotFound
      BY <1>1, <1>5, <2>1, <2>2
    <2>4. ~Handled(m, i)'
      BY <1>1 DEF Handled
    <2>5. WordRight(m, i, r)'
      BY <2>3, <2>4 DEF WordRight
    <2> QED BY <1>1, <2>1, <2>5
  <1> QED BY <1>2, <1>3, <1>6, <1>7, <1>8, <1>9, <1>10 DEF RelocInv

\* A step that leaves the modules, their places and the relocations alone, where a module is not
\* handled other than before.
LEMMA WordsRightSame ==
    ASSUME RelocInv, Going,
           UNCHANGED <<module_list, destinations, module_entries, memory, module_relocations>>,
           \A m \in 1 .. Len(module_list), i \in Nat \ {0} :
               i <= Len(module_list[m].relocs) => (Handled(m, i)' <=> Handled(m, i))
    PROVE  WordsRight'
  <1> SUFFICES ASSUME Small, NEW m \in 1 .. Len(module_list), NEW i \in DOMAIN module_list[m].relocs, Promised(m, i)
               PROVE  WordRight(m, i, module_list[m].relocs[i])'
    BY DEF WordsRight, Promised, Small
  <1>1. PICK r : r = module_list[m].relocs[i]
    OBVIOUS
  <1>2. i \in Nat \ {0} /\ i <= Len(module_list[m].relocs)
    BY ModuleFacts DEF RelocInv
  <1>3. WordRight(m, i, r)
    BY <1>1 DEF RelocInv, WordsRight
  <1>4. WordRight(m, i, r)'
    BY <1>2, <1>3, WordRightSame
  <1> QED BY <1>1, <1>4

\* The queue stays right when nothing it speaks of changes.
LEMMA QueuedSame ==
    ASSUME RelocInv, Going, UNCHANGED <<module_list, module_entries, module_relocations>>,
           \A m \in 1 .. Len(module_list), i \in Nat \ {0} :
               i <= Len(module_list[m].relocs) => (Handled(m, i) => Handled(m, i)')
    PROVE  Queued'
  <1> SUFFICES ASSUME NEW j \in DOMAIN module_relocations PROVE QueuedOne(module_relocations[j])'
    BY DEF Queued
  <1>1. PICK q : q = module_relocations[j] /\ QueuedOne(q)
    BY DEF RelocInv, Queued
  <1>2. QueuedOne(q)'
    <2>1. q.module \in 1 .. Len(module_list)
      BY <1>1 DEF QueuedOne
    <2>2. PICK i \in DOMAIN module_list[q.module].relocs :
             Handled(q.module, i) /\ module_list[q.module].relocs[i].section = q.section
      BY <1>1 DEF QueuedOne
    <2>3. i \in Nat \ {0} /\ i <= Len(module_list[q.module].relocs)
      BY <2>1, ModuleFacts DEF RelocInv
    <2>4. Handled(q.module, i)'
      BY <2>1, <2>2, <2>3
    <2> QED BY <1>1, <2>2, <2>4 DEF QueuedOne, Small
  <1> QED BY <1>1, <1>2

\* All relocations of a module had their turn, and the next module is linked.
LEMMA ModuleLinkedKeeps ==
    ASSUME RelocInv, ModuleLinked
    PROVE  RelocInv'
  <1>1. /\ linkStage = "relocate" /\ relocated = Len(Linked.relocs) /\ relocated' = 0 /\ linking' = linking + 1
        /\ linkStage' = IF linking < Len(module_list) THEN "place" ELSE "final"
        /\ UNCHANGED <<module_list, destinations, room, module_entries, memory, module_relocations>>
        /\ linking \in 1 .. Len(module_list) /\ Len(module_list) \in Nat /\ Going
    BY DEF RelocInv, Stages, ModuleLinked, RelocTyped, Going
  <1>2. RelocTyped'
    BY <1>1 DEF RelocInv, RelocTyped
  <1>3. Stages'
    BY <1>1 DEF RelocInv, RelocTyped, Stages
  <1>4. linking \in 1 .. MaxFiles /\ destinations[linking].load # NotFound
    BY <1>1, ModuleFacts DEF RelocInv, Destinations, Ready, Going
  <1>5. Destinations'
    BY <1>1 DEF RelocInv, Destinations, Ready, Going
  <1>6. Counted'
    <2>1. Counts' = Counts
      BY <1>1 DEF Counts
    <2>2. module_entries.count = SumTo(Counts, linking - 1) + Counts[linking]
      BY <1>1, <1>4 DEF RelocInv, Counted
    <2>3. PICK k \in Nat : k = linking - 1 /\ k + 1 = linking
      BY <1>1
    <2>4. SumTo(Counts, k + 1) = SumTo(Counts, k) + Counts[k + 1]
      BY SumStep
    <2>5. module_entries.count = SumTo(Counts, linking)
      BY <2>2, <2>3, <2>4
    <2>6. linking' - 1 = linking
      BY <1>1
    <2>7. linking' <= Len(module_list) => destinations[linking'].load = NotFound
      <3> SUFFICES ASSUME linking' <= Len(module_list) PROVE destinations[linking'].load = NotFound
        OBVIOUS
      <3>1. linking' \in 1 .. MaxFiles /\ linking' > linking
        BY <1>1, RelocAssumption DEF RelocInv, RelocTyped
      <3>2. destinations[linking'] = Nowhere
        BY <3>1 DEF RelocInv, Destinations
      <3> QED BY <3>2 DEF Nowhere
    <2>8. SumTo(Counts, linking) \in Nat
      BY <2>5 DEF RelocInv, RelocTyped
    <2>9. SumTo(Counts, linking) + 0 = module_entries.count
      BY <2>5, <2>8
    <2> QED BY <1>1, <2>1, <2>6, <2>7, <2>9 DEF Counted
  <1>7. Unmoved'
    BY <1>1 DEF RelocInv, Unmoved, Small
  <1>8. ASSUME NEW m \in 1 .. Len(module_list), NEW i \in Nat \ {0}, i <= Len(module_list[m].relocs)
        PROVE  Handled(m, i)' <=> Handled(m, i)
    <2>1. linkStage' # "relocate" /\ m \in Nat
      BY <1>1
    <2>2. m = linking => i <= relocated
      BY <1>1, <1>8 DEF Linked
    <2> QED BY <1>1, <2>1, <2>2 DEF Handled
  <1>9. Queued' /\ WordsRight'
    BY <1>1, <1>8, QueuedSame, WordsRightSame
  <1> QED BY <1>2, <1>3, <1>5, <1>6, <1>7, <1>9 DEF RelocInv

\* The queue is empty at the end.
LEMMA AllResolvedKeeps ==
    ASSUME RelocInv, AllResolved
    PROVE  RelocInv'
  <1>1. /\ linkStage = "final" /\ module_relocations = << >> /\ linkStage' = "done" /\ Going
        /\ UNCHANGED <<module_list, linking, relocated, destinations, room, module_entries, memory,
                       module_relocations>>
    BY DEF AllResolved, Going
  <1>2. RelocTyped' /\ Stages' /\ Unmoved'
    BY <1>1 DEF RelocInv, RelocTyped, Stages, Unmoved, Small
  <1>3. Destinations'
    BY <1>1 DEF RelocInv, Destinations, Ready, Going
  <1>4. Counted'
    BY <1>1 DEF RelocInv, Counted, Counts, Going
  <1>5. \A m, i : Handled(m, i)' <=> Handled(m, i)
    BY <1>1 DEF Handled
  <1>6. Queued' /\ WordsRight'
    BY <1>1, <1>5, QueuedSame, WordsRightSame
  <1> QED BY <1>2, <1>3, <1>4, <1>6 DEF RelocInv

\* What is known of the module that is linked.
LEMMA LinkedFacts ==
    ASSUME RelocInv, linkStage \in {"place", "relocate"}
    PROVE  /\ linking \in 1 .. Len(module_list) /\ linking \in 1 .. MaxFiles /\ Going
           /\ Linked = module_list[linking] /\ Linked \in ModuleFiles /\ Linked.word \in Int
           /\ destinations[linking] \in [CodeSections -> Int] /\ memory[linking] \in [CodeSections -> Int]
  <1>1. linking \in 1 .. Len(module_list)
    BY DEF RelocInv, RelocTyped, Stages
  <1> QED BY <1>1, ModuleFacts DEF RelocInv, RelocTyped, Going, Linked

\* All sections of a module have their places.
LEMMA PlacedKeeps ==
    ASSUME RelocInv, linkStage = "place", SectionToPlace = {}, ~NoEntries, linkStage' = "relocate",
           UNCHANGED <<module_list, linking, relocated, destinations, room, module_entries, memory,
                       module_relocations>>
    PROVE  RelocInv'
  <1>1. linking \in 1 .. Len(module_list) /\ linking \in 1 .. MaxFiles /\ Going /\ relocated = 0
    BY LinkedFacts DEF RelocInv, Stages
  <1>2. RelocTyped' /\ Unmoved'
    BY DEF RelocInv, RelocTyped, Unmoved, Small
  <1>3. Stages'
    BY <1>1, ModuleFacts DEF RelocInv, Stages, Linked
  <1>4. destinations[linking].text # NotFound /\ destinations[linking].load # NotFound
    BY DEF SectionToPlace, NoEntries
  <1>5. Destinations'
    BY <1>1, <1>4 DEF RelocInv, Destinations, Ready, Going
  <1>6. Counted'
    BY <1>1 DEF RelocInv, Counted, Counts, Going
  <1>7. ASSUME NEW m \in 1 .. Len(module_list), NEW i \in Nat \ {0}
        PROVE  Handled(m, i)' <=> Handled(m, i)
    BY <1>1 DEF Handled
  <1>8. Queued' /\ WordsRight'
    BY <1>1, <1>7, QueuedSame, WordsRightSame
  <1> QED BY <1>2, <1>3, <1>5, <1>6, <1>8 DEF RelocInv

\* Section s of the module that is linked is copied to its place.
LEMMA WordsRightPlaced ==
    ASSUME RelocInv, linkStage = "place", NEW s \in CodeSections,
           UNCHANGED <<linkStage, module_list, linking, relocated, module_relocations>>,
           Small' => Small, NEW v,
           destinations' = [destinations EXCEPT ![linking][s] = v],
           memory' = [memory EXCEPT ![linking][s] = Linked.word]
    PROVE  WordsRight'
  <1>1. /\ linking \in 1 .. Len(module_list) /\ linking \in 1 .. MaxFiles /\ Going /\ Linked = module_list[linking]
        /\ destinations[linking] \in [CodeSections -> Int] /\ memory[linking] \in [CodeSections -> Int]
    BY LinkedFacts
  <1>2. destinations \in [1 .. MaxFiles -> [CodeSections -> Int]] /\ memory \in [1 .. MaxFiles -> [CodeSections -> Int]]
    BY DEF RelocInv, RelocTyped
  <1> SUFFICES ASSUME Small, NEW m \in 1 .. Len(module_list), NEW i \in DOMAIN module_list[m].relocs, Promised(m, i)
               PROVE  WordRight(m, i, module_list[m].relocs[i])'
    BY <1>1 DEF WordsRight, Promised, Going
  <1>3. PICK r : r = module_list[m].relocs[i] /\ r \in Relocations /\ r.section # "meta" /\ m \in 1 .. MaxFiles
    BY ModuleFacts DEF RelocInv, Promised
  <1>4. r.section \in CodeSections
    BY <1>3 DEF Relocations, CodeSections
  <1>5. WordRight(m, i, r)
    BY <1>1, <1>3 DEF RelocInv, WordsRight
  <1>6. Handled(m, i)' <=> Handled(m, i)
    BY DEF Handled
  <1>7. CASE m # linking
    <2>1. destinations'[m] = destinations[m] /\ memory'[m] = memory[m]
      BY <1>2, <1>3, <1>7
    <2>2. WordRight(m, i, r)'
      BY <1>5, <1>6, <2>1, WordRightSame
    <2> QED BY <1>3, <2>2
  <1>8. CASE m = linking
    <2>1. ~Handled(m, i)'
      BY <1>1, <1>8 DEF Handled
    <2>2. destinations[m][r.section] # NotFound => memory[m][r.section] = module_list[m].word
      BY <1>5, <1>6, <2>1 DEF WordRight
    <2>3. destinations'[m][r.section] # NotFound => memory'[m][r.section] = module_list[m].word
      <3>1. CASE r.section = s
        BY <1>1, <1>2, <1>3, <1>8, <3>1
      <3>2. CASE r.section # s
        <4>1. destinations'[m][r.section] = destinations[m][r.section] /\ memory'[m][r.section] = memory[m][r.section]
          BY <1>1, <1>2, <1>3, <1>4, <1>8, <3>2
        <4> QED BY <2>2, <4>1
      <3> QED BY <3>1, <3>2
    <2>4. WordRight(m, i, r)'
      BY <2>1, <2>3 DEF WordRight
    <2> QED BY <1>3, <2>4
  <1> QED BY <1>7, <1>8

\* Module_LinkModuleElf places the code of a module.
LEMMA PlaceTextKeeps ==
    ASSUME RelocInv, linkStage = "place", PlaceText
    PROVE  RelocInv'
  <1>1. /\ linking \in 1 .. Len(module_list) /\ linking \in 1 .. MaxFiles /\ Going /\ Linked = module_list[linking]
        /\ Linked.word \in Int
        /\ destinations[linking] \in [CodeSections -> Int] /\ memory[linking] \in [CodeSections -> Int]
    BY LinkedFacts
  <1>2. destinations \in [1 .. MaxFiles -> [CodeSections -> Int]] /\ memory \in [1 .. MaxFiles -> [CodeSections -> Int]]
    BY DEF RelocInv, RelocTyped
  <1>3. /\ UNCHANGED <<linkStage, module_list, linking, relocated, module_entries, module_relocations>>
        /\ room' = room - 4 /\ destinations' = [destinations EXCEPT ![linking].text = room - 4]
        /\ memory' = [memory EXCEPT ![linking].text = Linked.word]
    BY DEF PlaceText
  <1>4. room \in Int /\ room % 4 = 0 /\ room - 4 \in Int /\ (room - 4) % 4 = 0 /\ room - 4 # NotFound
    <2>1. room \in Int /\ room % 4 = 0
      BY DEF RelocInv, RelocTyped
    <2> QED BY ONLY <2>1 DEF NotFound
  <1>5. /\ destinations' \in [1 .. MaxFiles -> [CodeSections -> Int]]
        /\ memory' \in [1 .. MaxFiles -> [CodeSections -> Int]]
        /\ \A m \in 1 .. MaxFiles : destinations'[m].load = destinations[m].load
        /\ \A m \in 1 .. MaxFiles : m # linking => destinations'[m] = destinations[m]
    BY ONLY <1>1, <1>2, <1>3, <1>4 DEF CodeSections
  <1>6. RelocTyped'
    BY <1>3, <1>4, <1>5 DEF RelocInv, RelocTyped
  <1>7. Stages' /\ Unmoved'
    BY <1>3, <1>5 DEF RelocInv, Stages, Unmoved, Small, Linked
  <1>8. Destinations'
    BY <1>1, <1>3, <1>5 DEF RelocInv, Destinations, Ready, Going
  <1>9. Counted'
    BY <1>1, <1>3, <1>5 DEF RelocInv, Counted, Counts, Going
  <1>10. Queued'
    BY <1>1, <1>3, QueuedSame DEF Handled
  <1>11. WordsRight'
    <2>1. PICK s, v : s = "text" /\ v = room - 4 /\ s \in CodeSections
      BY DEF CodeSections
    <2>2. /\ destinations' = [destinations EXCEPT ![linking][s] = v]
          /\ memory' = [memory EXCEPT ![linking][s] = Linked.word]
      BY <1>3, <2>1
    <2>3. Small' => Small
      BY <1>3 DEF Small
    <2> QED BY <1>3, <2>1, <2>2, <2>3, WordsRightPlaced
  <1> QED BY <1>6, <1>7, <1>8, <1>9, <1>10, <1>11 DEF RelocInv

\* Memory for the entries of a module.
LEMMA PlaceLoadKeeps ==
    ASSUME RelocInv, linkStage = "place", SectionToPlace = {"load"}, PlaceLoad
    PROVE  RelocInv'
  <1>1. /\ linking \in 1 .. Len(module_list) /\ linking \in 1 .. MaxFiles /\ Going /\ Linked = module_list[linking]
        /\ Linked.word \in Int /\ Linked \in ModuleFiles
        /\ destinations[linking] \in [CodeSections -> Int] /\ memory[linking] \in [CodeSections -> Int]
    BY LinkedFacts
  <1>2. /\ destinations \in [1 .. MaxFiles -> [CodeSections -> Int]]
        /\ memory \in [1 .. MaxFiles -> [CodeSections -> Int]]
        /\ module_entries.block \in Nat /\ module_entries.count \in Nat
        /\ module_entries.base \in Nat \cup {NotFound}
    BY DEF RelocInv, RelocTyped
  <1>3. "load" \in {s \in (IF Linked.entries # NoSection /\ Linked.allocated THEN {"text", "load"} ELSE {"text"}) :
                        destinations[linking][s] = NotFound}
    BY DEF SectionToPlace
  <1>4. Linked.entries # NoSection /\ destinations[linking].load = NotFound
    BY <1>3
  <1>5. PICK num \in Nat : num = Linked.entries /\ EntriesCount(module_list[linking]) = num
    BY <1>1, <1>4 DEF ModuleFiles, EntriesCount
  <1>6. CASE linkStage' = "hung" /\ UNCHANGED <<module_list, linking, relocated, destinations, room,
                                                module_entries, memory, module_relocations>>
    BY <1>6 DEF RelocInv, RelocTyped, Stages, Destinations, Counted, Unmoved, Queued, WordsRight, Going, Small,
         Linked, Ready
  <1>7. CASE LinkFailed
    BY <1>7, LinkFailedKeeps
  <1>8. ASSUME NEW base \in Blocks, ~Endless(module_entries, num), module_entries.capacity + num > 0,
               module_entries' = Allocated(module_entries, num, base),
               destinations' = [destinations EXCEPT ![linking].load = module_entries'.base + 4 * module_entries.count],
               memory' = [memory EXCEPT ![linking].load = Linked.word],
               UNCHANGED <<linkStage, module_list, linking, relocated, room, module_relocations>>
        PROVE  RelocInv'
    <2>1. PICK D \in Nat \ {0} : D = MODULE_ENTRIES_CAPACITY_DEFAULT
      BY RelocAssumption
    <2>2. base \in Nat /\ base # NotFound
      BY RelocAssumption DEF NotFound
    <2>3. PICK grown \in BOOLEAN : /\ grown <=> CapacityFor(module_entries, num) # module_entries.capacity
                                   /\ module_entries'.block = IF grown THEN module_entries.block + 1 ELSE module_entries.block
                                   /\ module_entries'.base = IF grown THEN base ELSE module_entries.base
                                   /\ module_entries'.capacity = CapacityFor(module_entries, num)
                                   /\ module_entries'.count = module_entries.count + num
      BY <1>8 DEF Allocated
    <2>4. ASSUME module_entries.base = NotFound
          PROVE  module_entries'.block = 1 /\ module_entries'.base = base /\ module_entries'.capacity = D
      <3>1. /\ module_entries.capacity = 0 /\ module_entries.count = 0 /\ module_entries.block = 0
            /\ \A m \in 1 .. MaxFiles : destinations[m].load = NotFound
        BY <2>4 DEF RelocInv, Unmoved
      <3>2. num # 0 /\ num <= D
        BY <1>8, <2>1, <3>1 DEF Endless
      <3>3. CapacityFor(module_entries, num) = D
        BY <2>1, <3>1, <3>2, CapacityDefault
      <3>4. grown
        BY <2>1, <2>3, <3>1, <3>3
      <3>5. module_entries'.block = 1 /\ module_entries'.base = base /\ module_entries'.capacity = D
        BY <2>3, <3>1, <3>3, <3>4
      <3> QED BY <3>5
    <2>5. /\ module_entries'.block \in Nat /\ module_entries'.count \in Nat /\ module_entries'.base \in Nat
          /\ module_entries'.base # NotFound
      <3>1. module_entries'.count \in Nat
        BY <1>2, <2>3
      <3>2. CASE module_entries.base = NotFound
        BY <2>2, <2>4, <3>1, <3>2
      <3>3. CASE module_entries.base # NotFound
        BY <1>2, <2>2, <2>3, <3>1, <3>3
      <3> QED BY <3>2, <3>3
    <2>6. Small' => Small
      BY <1>2, <2>1, <2>3 DEF Small
    <2>7. Small' => module_entries'.capacity = D /\ module_entries'.block = 1
      <3> SUFFICES ASSUME Small' PROVE module_entries'.capacity = D /\ module_entries'.block = 1
        OBVIOUS
      <3>1. CASE module_entries.base = NotFound
        BY <2>4, <3>1
      <3>2. CASE module_entries.base # NotFound
        <4>1. module_entries.capacity = D /\ module_entries.block = 1
          BY <2>1, <2>6, <3>2 DEF RelocInv, Unmoved
        <4>2. module_entries.count + num <= D
          BY <2>1, <2>3 DEF Small
        <4>3. CapacityFor(module_entries, num) = D
          BY <1>2, <2>1, <4>1, <4>2, CapacityDefault
        <4> QED BY <2>3, <4>1, <4>3
      <3> QED BY <3>1, <3>2
    <2>8. Small' /\ module_entries.base # NotFound => module_entries'.block = module_entries.block
      BY <2>1, <2>6, <2>7 DEF RelocInv, Unmoved
    <2>9. PICK place \in Int : place = module_entries'.base + 4 * module_entries.count /\ place # NotFound
      BY <1>2, <2>5 DEF NotFound
    <2>10. /\ destinations' \in [1 .. MaxFiles -> [CodeSections -> Int]]
           /\ memory' \in [1 .. MaxFiles -> [CodeSections -> Int]]
           /\ \A m \in 1 .. MaxFiles : destinations'[m].text = destinations[m].text
           /\ \A m \in 1 .. MaxFiles : m # linking => destinations'[m] = destinations[m]
           /\ destinations'[linking].load = place
      BY ONLY <1>1, <1>2, <1>8, <2>9 DEF CodeSections
    <2>11. RelocTyped'
      BY <1>8, <2>5, <2>10 DEF RelocInv, RelocTyped
    <2>12. Stages'
      BY <1>8 DEF RelocInv, Stages, Linked
    <2>13. Destinations'
      BY <1>1, <1>8, <2>10 DEF RelocInv, Destinations, Ready, Going
    <2>14. Counted'
      <3>1. Counts' = Counts /\ Counts[linking] = num
        BY <1>1, <1>5, <1>8 DEF Counts
      <3>2. module_entries.count = SumTo(Counts, linking - 1) + 0
        BY <1>1, <1>4 DEF RelocInv, Counted
      <3>3. SumTo(Counts, linking - 1) \in Nat
        <4>1. linking - 1 \in Nat /\ \A i \in 1 .. linking - 1 : i \in 1 .. Len(module_list)
          BY <1>1
        <4>2. \A i \in 1 .. linking - 1 : Counts[i] \in Nat
          BY <4>1, ModuleFacts DEF Counts, RelocInv
        <4> QED BY <4>1, <4>2, SumNat
      <3>4. module_entries'.count = SumTo(Counts, linking - 1) + num
        BY <2>3, <3>2, <3>3
      <3> QED BY <1>1, <1>8, <2>9, <2>10, <3>1, <3>4 DEF Counted
    <2>15. Unmoved'
      BY <2>1, <2>5, <2>7 DEF Unmoved
    <2>16. Queued'
      <3> SUFFICES ASSUME NEW j \in DOMAIN module_relocations PROVE QueuedOne(module_relocations[j])'
        BY <1>8 DEF Queued
      <3>1. PICK q : q = module_relocations[j] /\ QueuedOne(q)
        BY <1>1 DEF RelocInv, Queued
      <3>2. q.module \in 1 .. Len(module_list)
        BY <3>1 DEF QueuedOne
      <3>3. PICK i \in DOMAIN module_list[q.module].relocs :
               Handled(q.module, i) /\ module_list[q.module].relocs[i].section = q.section
        BY <3>1 DEF QueuedOne
      <3>4. Handled(q.module, i)'
        BY <1>8, <3>3 DEF Handled
      <3>5. ASSUME q.section = "load", Small' PROVE q.block = module_entries'.block
        <4>1. Ready(q.module) /\ q.module \in 1 .. MaxFiles
          BY <3>2, <3>3, ModuleFacts DEF Handled, Ready, RelocInv
        <4>2. destinations[q.module].load # NotFound
          BY <1>1, <4>1 DEF RelocInv, Destinations
        <4>3. module_entries.base # NotFound
          BY <4>1, <4>2 DEF RelocInv, Unmoved
        <4> QED BY <2>6, <2>8, <3>1, <3>5, <4>3 DEF QueuedOne
      <3>6. QueuedOne(q)'
        BY <1>8, <3>2, <3>3, <3>4, <3>5 DEF QueuedOne
      <3> QED BY <1>8, <3>1, <3>6
    <2>17. WordsRight'
      <3>1. PICK s : s = "load" /\ s \in CodeSections
        BY DEF CodeSections
      <3>2. /\ destinations' = [destinations EXCEPT ![linking][s] = place]
            /\ memory' = [memory EXCEPT ![linking][s] = Linked.word]
        BY <1>8, <2>9, <3>1
      <3> QED BY <1>8, <2>6, <3>1, <3>2, WordsRightPlaced
    <2> QED BY <2>11, <2>12, <2>13, <2>14, <2>15, <2>16, <2>17 DEF RelocInv
  <1> QED BY <1>5, <1>6, <1>7, <1>8 DEF PlaceLoad

\* Module_LinkModuleElf places a section, of either kind.
LEMMA PlaceSectionKeeps ==
    ASSUME RelocInv, PlaceSection
    PROVE  RelocInv'
  <1>1. linkStage = "place"
    BY DEF PlaceSection
  <1>2. CASE SectionToPlace = {"text"} /\ PlaceText
    BY <1>1, <1>2, PlaceTextKeeps
  <1>3. CASE SectionToPlace = {"load"} /\ PlaceLoad
    BY <1>1, <1>3, PlaceLoadKeeps
  <1>4. CASE LinkFailed
    BY <1>4, LinkFailedKeeps
  <1>5. CASE /\ SectionToPlace = {} /\ ~NoEntries /\ linkStage' = "relocate"
             /\ UNCHANGED <<module_list, linking, relocated, destinations, room, module_entries, memory,
                            module_relocations>>
    BY <1>1, <1>5, PlacedKeeps
  <1> QED BY <1>2, <1>3, <1>4, <1>5 DEF PlaceSection

\* Nothing but the relocations of handled modules is queued.
LEMMA NotQueuedYet ==
    ASSUME RelocInv, Going, NEW m, NEW i, ~Handled(m, i), NEW s,
           \A k \in DOMAIN module_list[m].relocs \ {i} : module_list[m].relocs[k].section # s
    PROVE  NoneFor(m, s)
  <1> SUFFICES ASSUME NEW j \in DOMAIN module_relocations, WaitsFor(module_relocations[j], m, s) PROVE FALSE
    BY DEF NoneFor
  <1>1. PICK q : q = module_relocations[j] /\ QueuedOne(q) /\ q.module = m /\ q.section = s
    BY DEF RelocInv, Queued, WaitsFor
  <1>2. PICK k \in DOMAIN module_list[m].relocs : Handled(m, k) /\ module_list[m].relocs[k].section = s
    BY <1>1 DEF QueuedOne
  <1> QED BY <1>2

\* A step of Relocate that is no error: the queue may get longer, a word may be changed.
LEMMA RelocatedKeeps ==
    ASSUME RelocInv, linkStage = "relocate", relocated < Len(Linked.relocs), relocated' = relocated + 1,
           UNCHANGED <<linkStage, module_list, linking, destinations, room, module_entries>>,
           memory' \in [1 .. MaxFiles -> [CodeSections -> Int]], module_relocations' \in Seq(QueueEntries),
           Queued', WordsRight'
    PROVE  RelocInv'
  <1>1. linking \in 1 .. Len(module_list) /\ Linked = module_list[linking] /\ Len(Linked.relocs) \in Nat
    BY LinkedFacts, ModuleFacts DEF RelocInv
  <1>2. RelocTyped'
    BY DEF RelocInv, RelocTyped
  <1>3. Stages'
    BY <1>1 DEF RelocInv, RelocTyped, Stages, Linked
  <1>4. Destinations' /\ Unmoved'
    BY DEF RelocInv, Destinations, Ready, Going, Unmoved, Small
  <1>5. Counted'
    BY DEF RelocInv, Counted, Counts, Going
  <1> QED BY <1>2, <1>3, <1>4, <1>5 DEF RelocInv

\* The relocations before the one that is looked at are handled.
LEMMA HandledNext ==
    ASSUME RelocInv, linkStage = "relocate", relocated' = relocated + 1, UNCHANGED <<linkStage, linking>>
    PROVE  /\ \A m, i : m = linking /\ i = relocated + 1 => ~Handled(m, i) /\ Handled(m, i)'
           /\ \A m, i : Handled(m, i) /\ (m = linking => i \in Nat) => Handled(m, i)'
           /\ \A m, i : (m = linking => i \in Nat /\ i # relocated + 1) => (Handled(m, i)' <=> Handled(m, i))
  <1>1. relocated \in Nat /\ linking \in Nat
    BY DEF RelocInv, RelocTyped
  <1>2. ASSUME NEW m, NEW i, m = linking, i = relocated + 1 PROVE ~Handled(m, i) /\ Handled(m, i)'
    <2>1. m = linking' /\ ~(m < linking) /\ ~(i <= relocated) /\ i <= relocated'
      BY <1>1, <1>2
    <2>2. ~Handled(m, i)
      BY ONLY <2>1 DEF Handled
    <2>3. Handled(m, i)'
      BY <2>1 DEF Handled
    <2> QED BY <2>2, <2>3
  <1>3. ASSUME NEW m, NEW i, m = linking => i \in Nat
        PROVE  /\ Handled(m, i) => Handled(m, i)'
               /\ i # relocated + 1 => (Handled(m, i)' <=> Handled(m, i))
    <2>1. CASE m = linking
      BY <1>1, <1>3, <2>1 DEF Handled
    <2>2. CASE m # linking
      BY <2>2 DEF Handled
    <2> QED BY <2>1, <2>2
  <1>4. ASSUME NEW m, NEW i, m = linking => i \in Nat /\ i # relocated + 1
        PROVE  Handled(m, i)' <=> Handled(m, i)
    <2>1. CASE m = linking
      BY <1>3, <1>4, <2>1
    <2>2. CASE m # linking
      BY <2>2 DEF Handled
    <2> QED BY <2>1, <2>2
  <1> QED BY <1>2, <1>3, <1>4

\* A relocation of .bslug.meta is passed over.
LEMMA MetaKeeps ==
    ASSUME RelocInv, linkStage = "relocate", relocated < Len(Linked.relocs), relocated' = relocated + 1,
           Linked.relocs[relocated + 1].section = "meta",
           UNCHANGED <<linkStage, module_list, linking, destinations, room, module_entries, memory,
                       module_relocations>>
    PROVE  RelocInv'
  <1>1. /\ linking \in 1 .. Len(module_list) /\ Going /\ Linked = module_list[linking]
        /\ Len(Linked.relocs) \in Nat /\ relocated \in Nat /\ relocated + 1 \in DOMAIN Linked.relocs
    BY LinkedFacts, ModuleFacts DEF RelocInv, RelocTyped
  <1>2. Queued'
    BY <1>1, HandledNext, QueuedSame
  <1>3. WordsRight'
    <2> SUFFICES ASSUME Small, NEW m \in 1 .. Len(module_list), NEW i \in DOMAIN module_list[m].relocs, Promised(m, i)
                 PROVE  WordRight(m, i, module_list[m].relocs[i])'
      BY DEF WordsRight, Promised, Small
    <2>1. PICK r : r = module_list[m].relocs[i] /\ r.section # "meta" /\ i \in Nat
      BY ModuleFacts DEF RelocInv, Promised
    <2>2. Handled(m, i)' <=> Handled(m, i)
      BY <1>1, <2>1, HandledNext
    <2>3. WordRight(m, i, r)
      BY <1>1, <2>1 DEF RelocInv, WordsRight
    <2>4. WordRight(m, i, r)'
      BY <2>2, <2>3, WordRightSame
    <2> QED BY <2>1, <2>4
  <1>4. memory' \in [1 .. MaxFiles -> [CodeSections -> Int]] /\ module_relocations' \in Seq(QueueEntries)
    BY DEF RelocInv, RelocTyped
  <1> QED BY <1>2, <1>3, <1>4, RelocatedKeeps

\* What is known of the relocation that is looked at.
LEMMA RelocateFacts ==
    ASSUME RelocInv, linkStage = "relocate", relocated < Len(Linked.relocs)
    PROVE  /\ linking \in 1 .. Len(module_list) /\ linking \in 1 .. MaxFiles /\ Going /\ Linked = module_list[linking]
           /\ relocated + 1 \in DOMAIN Linked.relocs /\ relocated + 1 \in Nat
           /\ Linked.relocs[relocated + 1] \in Relocations /\ Linked.word \in Int
           /\ memory \in [1 .. MaxFiles -> [CodeSections -> Int]]
           /\ destinations \in [1 .. MaxFiles -> [CodeSections -> Int]]
           /\ destinations[linking].text # NotFound /\ destinations[linking].load # NotFound
  <1>1. /\ linking \in 1 .. Len(module_list) /\ linking \in 1 .. MaxFiles /\ Going /\ Linked = module_list[linking]
        /\ Len(Linked.relocs) \in Nat /\ relocated \in Nat /\ relocated + 1 \in DOMAIN Linked.relocs
        /\ Linked.word \in Int
    BY LinkedFacts, ModuleFacts DEF RelocInv, RelocTyped
  <1>2. Linked.relocs[relocated + 1] \in Relocations
    BY <1>1, ModuleFacts DEF RelocInv
  <1>3. destinations[linking].text # NotFound /\ destinations[linking].load # NotFound
    BY <1>1 DEF RelocInv, Destinations, Ready
  <1> QED BY <1>1, <1>2, <1>3 DEF RelocInv, RelocTyped

\* The symbol of a relocation.
LEMMA SymbolFacts ==
    ASSUME NEW r \in Relocations, NEW s \in SymbolsOf(r)
    PROVE  s.st_shndx \in Indices /\ s.st_value \in Int /\ (r.index = "in" => s = r.symbol)
  <1>1. s \in ElfSymbols
    <2>1. CASE r.index = "in"
      BY <2>1 DEF SymbolsOf, Relocations
    <2>2. CASE r.index = "at"
      <3>1. PICK f \in Files : \E x \in Range(f.relocs) : s = x.symbol
        BY <2>2 DEF SymbolsOf
      <3>2. f.relocs \in Seq(Relocations)
        BY RelocAssumption DEF ModuleFiles
      <3>3. \A x \in Range(f.relocs) : x \in Relocations
        BY <3>1, <3>2 DEF Range
      <3> QED BY <3>1, <3>3 DEF Relocations
    <2>3. CASE r.index = "beyond"
      BY <2>3 DEF SymbolsOf
    <2> QED BY <2>1, <2>2, <2>3 DEF Relocations
  <1>2. s.st_value \in Int
    BY <1>1, WordSizes DEF ElfSymbols, NotFound
  <1> QED BY <1>1, <1>2 DEF ElfSymbols, SymbolsOf

\* A word that a step does not change, when nothing else is queued for it.
LEMMA WordRightKept ==
    ASSUME NEW m, NEW i, NEW r, WordRight(m, i, r),
           module_list' = module_list, destinations'[m] = destinations[m],
           memory'[m][r.section] = memory[m][r.section], Handled(m, i)' <=> Handled(m, i),
           NoneFor(m, r.section) => NoneFor(m, r.section)',
           \A j \in DOMAIN module_relocations :
               OnlyFor(j, m, r.section) /\ WaitsFor(module_relocations[j], m, r.section) =>
                   \E k \in DOMAIN module_relocations' :
                       module_relocations'[k] = module_relocations[j] /\ OnlyFor(k, m, r.section)'
    PROVE  WordRight(m, i, r)'
  <1>1. FinalAddress(m, r)' = FinalAddress(m, r)
    BY DEF FinalAddress
  <1>2. Result(m, r)' = Result(m, r) /\ AddendIn(m, r)' = AddendIn(m, r)
    BY <1>1 DEF Result, AddendIn
  <1>3. Resolved(m, r) => Resolved(m, r)'
    BY <1>2 DEF Resolved
  <1>4. ASSUME Pending(m, r) PROVE Pending(m, r)'
    <2>1. PICK j \in DOMAIN module_relocations : Keeps(module_relocations[j], m, r) /\ OnlyFor(j, m, r.section)
      BY <1>4 DEF Pending
    <2>2. PICK q : q = module_relocations[j] /\ WaitsFor(q, m, r.section)
      BY <2>1 DEF Keeps
    <2>3. PICK k \in DOMAIN module_relocations' : module_relocations'[k] = q /\ OnlyFor(k, m, r.section)'
      BY <2>1, <2>2
    <2>4. Keeps(q, m, r)'
      BY <1>1, <1>2, <2>1, <2>2 DEF Keeps, WaitsFor
    <2> QED BY <1>4, <2>3, <2>4 DEF Pending
  <1> QED BY <1>3, <1>4 DEF WordRight

\* The queue with one more entry.
LEMMA QueueLonger ==
    ASSUME module_relocations \in Seq(QueueEntries), NEW q, module_relocations' = Append(module_relocations, q)
    PROVE  /\ DOMAIN module_relocations = 1 .. Len(module_relocations) /\ Len(module_relocations) \in Nat
           /\ DOMAIN module_relocations' = 1 .. Len(module_relocations) + 1
           /\ module_relocations'[Len(module_relocations) + 1] = q
           /\ \A j \in DOMAIN module_relocations : module_relocations'[j] = module_relocations[j]
  OBVIOUS

\* A relocation that is queued for another place changes nothing for this one.
LEMMA QueueLongerFor ==
    ASSUME module_relocations \in Seq(QueueEntries), NEW q, module_relocations' = Append(module_relocations, q),
           NEW m, NEW s, ~WaitsFor(q, m, s)
    PROVE  /\ NoneFor(m, s) => NoneFor(m, s)'
           /\ \A j \in DOMAIN module_relocations :
                  OnlyFor(j, m, s) =>
                      \E k \in DOMAIN module_relocations' :
                          module_relocations'[k] = module_relocations[j] /\ OnlyFor(k, m, s)'
  <1>1. /\ DOMAIN module_relocations = 1 .. Len(module_relocations) /\ Len(module_relocations) \in Nat
        /\ DOMAIN module_relocations' = 1 .. Len(module_relocations) + 1
        /\ module_relocations'[Len(module_relocations) + 1] = q
        /\ \A j \in DOMAIN module_relocations : module_relocations'[j] = module_relocations[j]
    BY QueueLonger
  <1>2. ASSUME NEW k \in DOMAIN module_relocations', WaitsFor(module_relocations'[k], m, s)
        PROVE  k \in DOMAIN module_relocations /\ WaitsFor(module_relocations[k], m, s)
    <2>1. k # Len(module_relocations) + 1
      BY <1>1, <1>2
    <2>2. k \in DOMAIN module_relocations
      BY <1>1, <2>1
    <2> QED BY <1>1, <1>2, <2>2
  <1>3. NoneFor(m, s) => NoneFor(m, s)'
    BY <1>2 DEF NoneFor, WaitsFor
  <1>4. ASSUME NEW j \in DOMAIN module_relocations, OnlyFor(j, m, s) PROVE OnlyFor(j, m, s)'
    BY <1>2, <1>4 DEF OnlyFor, WaitsFor
  <1>5. \A j \in DOMAIN module_relocations : j \in DOMAIN module_relocations'
    BY <1>1
  <1> QED BY <1>1, <1>3, <1>4, <1>5

\* A relocation of an undefined symbol is queued.
LEMMA QueueKeeps ==
    ASSUME RelocInv, linkStage = "relocate", relocated < Len(Linked.relocs), relocated' = relocated + 1,
           UNCHANGED <<linkStage, module_list, linking, destinations, room, module_entries>>,
           NEW r, r = Linked.relocs[relocated + 1], r.section # "meta",
           NEW s \in SymbolsOf(r), s.st_shndx = "UNDEF", Queue(r, s)
    PROVE  RelocInv'
  <1>1. PICK n, k : /\ n = linking /\ k = relocated + 1
                    /\ n \in 1 .. Len(module_list) /\ n \in 1 .. MaxFiles /\ Going /\ Linked = module_list[n]
                    /\ k \in DOMAIN module_list[n].relocs /\ k \in Nat /\ r = module_list[n].relocs[k]
                    /\ r \in Relocations /\ module_list[n].word \in Int
                    /\ memory \in [1 .. MaxFiles -> [CodeSections -> Int]]
                    /\ destinations \in [1 .. MaxFiles -> [CodeSections -> Int]]
                    /\ destinations[n].text # NotFound /\ destinations[n].load # NotFound
    BY RelocateFacts
  <1>2. r.section \in CodeSections /\ r.addend \in Int /\ r.type \in RelocTypes
    BY <1>1 DEF Relocations, CodeSections
  <1>3. s.st_value \in Int /\ (r.index = "in" => s = r.symbol)
    BY <1>1, SymbolFacts
  <1>4. PICK q : /\ q.module = n /\ q.section = r.section /\ q.block = module_entries.block
                 /\ q.address = destinations[n][r.section] /\ q.type = r.type /\ q.offset = 0
                 /\ q.addend = AddendOf(r, memory[n][r.section]) /\ q.found = s.st_value
                 /\ q \in QueueEntries /\ module_relocations' = Append(module_relocations, q)
    <2> DEFINE e == [module |-> n, section |-> r.section, block |-> module_entries.block,
                     address |-> destinations[n][r.section], type |-> r.type, offset |-> 0,
                     addend |-> AddendOf(r, memory[n][r.section]), found |-> s.st_value]
    <2>1. AddendOf(r, memory[n][r.section]) \in Int /\ destinations[n][r.section] \in Int
      BY <1>1, <1>2 DEF AddendOf
    <2>2. module_entries.block \in Nat
      BY DEF RelocInv, RelocTyped
    <2>3. e \in QueueEntries
      BY <1>1, <1>2, <1>3, <2>1, <2>2 DEF QueueEntries
    <2>4. module_relocations' = Append(module_relocations, e)
      BY <1>1 DEF Queue
    <2> QED BY <2>3, <2>4
  <1>5. memory' = memory
    BY DEF Queue
  <1>6. module_relocations \in Seq(QueueEntries) /\ module_relocations' \in Seq(QueueEntries)
    BY <1>4 DEF RelocInv, RelocTyped
  <1>7. /\ DOMAIN module_relocations = 1 .. Len(module_relocations) /\ Len(module_relocations) \in Nat
        /\ DOMAIN module_relocations' = 1 .. Len(module_relocations) + 1
        /\ module_relocations'[Len(module_relocations) + 1] = q
        /\ \A j \in DOMAIN module_relocations : module_relocations'[j] = module_relocations[j]
    BY <1>4, <1>6, QueueLonger
  <1>8. Queued'
    <2> SUFFICES ASSUME NEW j \in DOMAIN module_relocations' PROVE QueuedOne(module_relocations[j])'
      BY DEF Queued
    <2>1. CASE j \in DOMAIN module_relocations
      <3>1. PICK p : p = module_relocations[j] /\ QueuedOne(p)
        BY <1>1, <2>1 DEF RelocInv, Queued
      <3>2. p.module \in 1 .. Len(module_list)
        BY <3>1 DEF QueuedOne
      <3>3. PICK i \in DOMAIN module_list[p.module].relocs :
               Handled(p.module, i) /\ module_list[p.module].relocs[i].section = p.section
        BY <3>1 DEF QueuedOne
      <3>4. i \in Nat
        BY <3>2, ModuleFacts DEF RelocInv
      <3>5. Handled(p.module, i)'
        BY <3>3, <3>4, HandledNext
      <3>6. QueuedOne(p)'
        BY <3>1, <3>2, <3>3, <3>5 DEF QueuedOne, Small
      <3> QED BY <1>7, <2>1, <3>1, <3>6
    <2>2. CASE j = Len(module_relocations) + 1
      <3>1. Handled(n, k)'
        BY <1>1, HandledNext
      <3>2. QueuedOne(q)'
        BY <1>1, <1>4, <3>1 DEF QueuedOne
      <3> QED BY <1>7, <2>2, <3>2
    <2> QED BY <1>7, <2>1, <2>2
  <1>9. WordsRight'
    <2> SUFFICES ASSUME Small, NEW m \in 1 .. Len(module_list), NEW i \in DOMAIN module_list[m].relocs, Promised(m, i)
                 PROVE  WordRight(m, i, module_list[m].relocs[i])'
      BY DEF WordsRight, Promised, Small
    <2>1. PICK x : x = module_list[m].relocs[i] /\ x.section # "meta" /\ i \in Nat /\ WordRight(m, i, x)
      <3>1. PICK x : x = module_list[m].relocs[i]
        OBVIOUS
      <3>2. i \in Nat
        BY ModuleFacts DEF RelocInv
      <3>3. x.section # "meta"
        BY <3>1 DEF Promised
      <3>4. WordRight(m, i, x)
        BY <1>1, <3>1 DEF RelocInv, WordsRight
      <3> QED BY <3>1, <3>2, <3>3, <3>4
    <2>2. CASE m = n /\ i = k
      <3>1. x = r /\ r.index = "in" /\ s = r.symbol
        BY <1>1, <1>3, <2>1, <2>2 DEF Promised
      <3>2. ~Handled(m, i) /\ Handled(m, i)'
        BY <1>1, <2>2, HandledNext
      <3>3. NoneFor(m, x.section)
        BY <1>1, <2>1, <3>2, NotQueuedYet DEF Promised
      <3>4. destinations[m][x.section] # NotFound
        BY <1>1, <1>2, <2>2, <3>1 DEF CodeSections
      <3>5. memory[m][x.section] = module_list[m].word
        BY <2>1, <3>2, <3>4 DEF WordRight
      <3>6. FinalAddress(m, x) = s.st_value /\ FinalAddress(m, x)' = FinalAddress(m, x)
        BY <3>1 DEF FinalAddress
      <3>7. Keeps(q, m, x)'
        BY <1>4, <2>2, <3>1, <3>5, <3>6 DEF Keeps, WaitsFor, AddendIn, AddendOf
      <3>8. ASSUME NEW l, l = Len(module_relocations) + 1 PROVE OnlyFor(l, m, x.section)'
        BY <1>7, <3>3, <3>8 DEF OnlyFor, NoneFor, WaitsFor
      <3>9. Pending(m, x)'
        <4>1. PICK l : l = Len(module_relocations) + 1
          OBVIOUS
        <4>2. l \in DOMAIN module_relocations' /\ module_relocations'[l] = q /\ OnlyFor(l, m, x.section)'
          BY <1>7, <3>8, <4>1
        <4> QED BY <1>5, <3>5, <3>7, <4>2 DEF Pending
      <3>10. WordRight(m, i, x)'
        BY <3>2, <3>9 DEF WordRight
      <3> QED BY <2>1, <3>10
    <2>3. CASE ~(m = n /\ i = k)
      <3>1. ~WaitsFor(q, m, x.section)
        BY <1>1, <1>4, <2>1, <2>3 DEF Promised, WaitsFor
      <3>2. Handled(m, i)' <=> Handled(m, i)
        BY <1>1, <2>1, <2>3, HandledNext
      <3>3. /\ NoneFor(m, x.section) => NoneFor(m, x.section)'
            /\ \A j \in DOMAIN module_relocations :
                  OnlyFor(j, m, x.section) =>
                      \E l \in DOMAIN module_relocations' :
                          module_relocations'[l] = module_relocations[j] /\ OnlyFor(l, m, x.section)'
        BY <1>4, <1>6, <3>1, QueueLongerFor
      <3>4. WordRight(m, i, x)'
        BY <1>5, <2>1, <3>2, <3>3, WordRightKept
      <3> QED BY <2>1, <3>4
    <2> QED BY <2>2, <2>3
  <1> QED BY <1>1, <1>5, <1>6, <1>8, <1>9, RelocatedKeeps

\* A relocation of a defined symbol changes its word.
LEMMA ApplyKeeps ==
    ASSUME RelocInv, linkStage = "relocate", relocated < Len(Linked.relocs), relocated' = relocated + 1,
           UNCHANGED <<linkStage, module_list, linking, destinations, room, module_entries>>,
           NEW r, r = Linked.relocs[relocated + 1], r.section # "meta",
           NEW s \in SymbolsOf(r), s.st_shndx \in {"text", "load", "ABS"}, r.type \in Known, Apply(r, s)
    PROVE  RelocInv'
  <1>1. PICK n, k : /\ n = linking /\ k = relocated + 1
                    /\ n \in 1 .. Len(module_list) /\ n \in 1 .. MaxFiles /\ Going /\ Linked = module_list[n]
                    /\ k \in DOMAIN module_list[n].relocs /\ k \in Nat /\ r = module_list[n].relocs[k]
                    /\ r \in Relocations /\ module_list[n].word \in Int
                    /\ memory \in [1 .. MaxFiles -> [CodeSections -> Int]]
                    /\ destinations \in [1 .. MaxFiles -> [CodeSections -> Int]]
                    /\ destinations[n].text # NotFound /\ destinations[n].load # NotFound
    BY RelocateFacts
  <1>2. r.section \in CodeSections /\ r.addend \in Int
    BY <1>1 DEF Relocations, CodeSections
  <1>3. s.st_value \in Int /\ (r.index = "in" => s = r.symbol)
    BY <1>1, SymbolFacts
  <1>4. PICK w, v : /\ w = memory[n][r.section] /\ w \in Int
                    /\ v = ElfLinkOne(r.type, w, SymbolAddress(s), 0, AddendOf(r, w), destinations[n][r.section])
                    /\ memory' = [memory EXCEPT ![n][r.section] = v]
    BY <1>1, <1>2 DEF Apply
  <1>5. module_relocations' = module_relocations
    BY DEF Apply
  <1>6. v \in Int
    <2>1. SymbolAddress(s) \in Int
      BY <1>1, <1>3 DEF SymbolAddress, CodeSections
    <2>2. AddendOf(r, w) \in Int /\ destinations[n][r.section] \in Int
      BY <1>1, <1>2, <1>4 DEF AddendOf
    <2> QED BY <1>4, <2>1, <2>2, LinkOneIsInt
  <1>7. /\ memory' \in [1 .. MaxFiles -> [CodeSections -> Int]]
        /\ memory'[n][r.section] = v
        /\ \A m \in 1 .. MaxFiles, c \in CodeSections : m # n \/ c # r.section => memory'[m][c] = memory[m][c]
    BY <1>1, <1>2, <1>4, <1>6
  <1>8. module_relocations' \in Seq(QueueEntries)
    BY <1>5 DEF RelocInv, RelocTyped
  <1>9. Queued'
    BY <1>1, <1>5, HandledNext, QueuedSame
  <1>10. WordsRight'
    <2> SUFFICES ASSUME Small, NEW m \in 1 .. Len(module_list), NEW i \in DOMAIN module_list[m].relocs, Promised(m, i)
                 PROVE  WordRight(m, i, module_list[m].relocs[i])'
      BY DEF WordsRight, Promised, Small
    <2>1. PICK x : /\ x = module_list[m].relocs[i] /\ x \in Relocations /\ x.section # "meta" /\ i \in Nat
                   /\ WordRight(m, i, x) /\ m \in 1 .. MaxFiles
      <3>1. PICK x : x = module_list[m].relocs[i]
        OBVIOUS
      <3>2. x \in Relocations /\ i \in Nat /\ m \in 1 .. MaxFiles
        BY <3>1, ModuleFacts DEF RelocInv
      <3>3. x.section # "meta"
        BY <3>1 DEF Promised
      <3>4. WordRight(m, i, x)
        BY <1>1, <3>1 DEF RelocInv, WordsRight
      <3> QED BY <3>1, <3>2, <3>3, <3>4
    <2>2. CASE m = n /\ i = k
      <3>1. x = r /\ r.index = "in" /\ s = r.symbol
        BY <1>1, <1>3, <2>1, <2>2 DEF Promised
      <3>2. ~Handled(m, i) /\ Handled(m, i)'
        BY <1>1, <2>2, HandledNext
      <3>3. NoneFor(m, x.section)
        BY <1>1, <2>1, <3>2, NotQueuedYet DEF Promised
      <3>4. destinations[m][x.section] # NotFound
        BY <1>1, <1>2, <2>2, <3>1 DEF CodeSections
      <3>5. w = module_list[m].word
        BY <1>4, <2>1, <2>2, <3>1, <3>2, <3>4 DEF WordRight
      <3>6. SymbolAddress(s) = FinalAddress(m, x)
        BY <1>1, <2>2, <3>1 DEF SymbolAddress, FinalAddress
      <3>7. AddendOf(r, w) = AddendIn(m, x)
        BY <3>1, <3>5 DEF AddendOf, AddendIn
      <3>8. v = Result(m, x)
        BY <1>4, <2>2, <3>1, <3>5, <3>6, <3>7 DEF Result
      <3>9. Result(m, x)' = Result(m, x)
        BY DEF Result, FinalAddress, AddendIn
      <3>10. Resolved(m, x)'
        BY <1>5, <1>7, <2>2, <3>1, <3>3, <3>8, <3>9 DEF Resolved, NoneFor
      <3>11. WordRight(m, i, x)'
        BY <3>2, <3>10 DEF WordRight
      <3> QED BY <2>1, <3>11
    <2>3. CASE ~(m = n /\ i = k)
      <3>1. m # n \/ x.section # r.section
        BY <1>1, <2>1, <2>3 DEF Promised
      <3>2. memory'[m][x.section] = memory[m][x.section]
        BY <1>7, <2>1, <3>1 DEF Relocations, CodeSections
      <3>3. Handled(m, i)' <=> Handled(m, i)
        BY <1>1, <2>1, <2>3, HandledNext
      <3>4. WordRight(m, i, x)'
        BY <1>5, <2>1, <3>2, <3>3, WordRightKept DEF NoneFor, OnlyFor
      <3> QED BY <2>1, <3>4
    <2> QED BY <2>2, <2>3
  <1> QED BY <1>1, <1>7, <1>8, <1>9, <1>10, RelocatedKeeps

\* The turn of a relocation, in all its cases.
LEMMA RelocateKeeps ==
    ASSUME RelocInv, Relocate
    PROVE  RelocInv'
  <1>1. PICK r : r = Linked.relocs[relocated + 1] /\ linkStage = "relocate" /\ relocated < Len(Linked.relocs)
    BY DEF Relocate
  <1>2. CASE LinkFailed
    BY <1>2, LinkFailedKeeps
  <1>3. CASE /\ r.section = "meta" /\ relocated' = relocated + 1
             /\ UNCHANGED <<linkStage, module_list, linking, destinations, room, module_entries, memory,
                            module_relocations>>
    BY <1>1, <1>3, MetaKeeps
  <1>4. ASSUME r.section # "meta", NEW s \in SymbolsOf(r), relocated' = relocated + 1,
               UNCHANGED <<linkStage, module_list, linking, destinations, room, module_entries>>,
               \/ s.st_shndx = "UNDEF" /\ Queue(r, s)
               \/ s.st_shndx \in {"text", "load", "ABS"} /\ r.type \in Known /\ Apply(r, s)
        PROVE  RelocInv'
    <2>1. CASE s.st_shndx = "UNDEF" /\ Queue(r, s)
      BY <1>1, <1>4, <2>1, QueueKeeps
    <2>2. CASE s.st_shndx \in {"text", "load", "ABS"} /\ r.type \in Known /\ Apply(r, s)
      BY <1>1, <1>4, <2>2, ApplyKeeps
    <2> QED BY <1>4, <2>1, <2>2
  <1> QED BY <1>1, <1>2, <1>3, <1>4 DEF Relocate, ElfLink

\* The queue without its first entry.
LEMMA QueueShorter ==
    ASSUME module_relocations \in Seq(QueueEntries), module_relocations # << >>,
           module_relocations' = Tail(module_relocations)
    PROVE  /\ module_relocations' \in Seq(QueueEntries) /\ Head(module_relocations) \in QueueEntries
           /\ 1 \in DOMAIN module_relocations /\ Head(module_relocations) = module_relocations[1]
           /\ \A j \in DOMAIN module_relocations' :
                  /\ j \in Nat \ {0} /\ j + 1 \in DOMAIN module_relocations
                  /\ module_relocations'[j] = module_relocations[j + 1]
           /\ \A j \in DOMAIN module_relocations : j \in Nat /\ (j = 1 \/ j - 1 \in DOMAIN module_relocations')
  OBVIOUS

\* A queued relocation is done once its symbol has an address, and leaves the queue.
LEMMA ResolveKeeps ==
    ASSUME RelocInv, Resolve
    PROVE  RelocInv'
  <1>1. PICK q : /\ q = Head(module_relocations) /\ linkStage = "final" /\ module_relocations # << >> /\ Going
                 /\ linking = Len(module_list) + 1 /\ Len(module_list) \in Nat
    BY DEF Resolve, Going, RelocInv, Stages, RelocTyped
  <1>2. CASE q.found = NotFound \/ q.type \notin Known
    BY <1>1, <1>2, LinkFailedKeeps DEF Resolve
  <1>3. CASE q.found # NotFound /\ q.type \in Known
    <2>1. PICK live : live <=> (q.section = "text" \/ q.block = module_entries.block)
      OBVIOUS
    <2>2. PICK v : v = ElfLinkOne(q.type, memory[q.module][q.section], q.found, q.offset, q.addend, q.address)
      OBVIOUS
    <2>3. /\ memory' = (IF live THEN [memory EXCEPT ![q.module][q.section] = v] ELSE memory)
          /\ module_relocations' = Tail(module_relocations)
          /\ UNCHANGED <<linkStage, module_list, linking, relocated, destinations, room, module_entries>>
      <3>1. memory' = IF live
                      THEN [memory EXCEPT ![q.module][q.section] =
                               ElfLinkOne(q.type, @, q.found, q.offset, q.addend, q.address)]
                      ELSE memory
        BY <1>1, <1>3, <2>1 DEF Resolve
      <3>2. memory' = IF live THEN [memory EXCEPT ![q.module][q.section] = v] ELSE memory
        BY <2>2, <3>1
      <3> QED BY <1>1, <1>3, <3>2 DEF Resolve
    <2>4. module_relocations \in Seq(QueueEntries) /\ memory \in [1 .. MaxFiles -> [CodeSections -> Int]]
      BY DEF RelocInv, RelocTyped
    <2>5. /\ module_relocations' \in Seq(QueueEntries) /\ q \in QueueEntries
          /\ 1 \in DOMAIN module_relocations /\ q = module_relocations[1]
          /\ \A j \in DOMAIN module_relocations' :
                /\ j \in Nat \ {0} /\ j + 1 \in DOMAIN module_relocations
                /\ module_relocations'[j] = module_relocations[j + 1]
          /\ \A j \in DOMAIN module_relocations : j \in Nat /\ (j = 1 \/ j - 1 \in DOMAIN module_relocations')
      BY <1>1, <2>3, <2>4, QueueShorter
    <2>6. /\ q.module \in 1 .. MaxFiles /\ q.section \in CodeSections /\ q.offset = 0
          /\ q.addend \in Int /\ q.address \in Int /\ q.found \in Int
      BY <2>5 DEF QueueEntries
    <2>7. v \in Int
      <3>1. memory[q.module][q.section] \in Int
        BY <2>4, <2>6
      <3> QED BY <1>3, <2>2, <2>6, <3>1, LinkOneIsInt
    <2>8. /\ memory' \in [1 .. MaxFiles -> [CodeSections -> Int]]
          /\ live => memory'[q.module][q.section] = v
          /\ \A m \in 1 .. MaxFiles, c \in CodeSections : m # q.module \/ c # q.section => memory'[m][c] = memory[m][c]
      BY <2>3, <2>4, <2>6, <2>7
    <2>9. RelocTyped' /\ Stages' /\ Unmoved'
      BY <1>1, <2>3, <2>5, <2>8 DEF RelocInv, RelocTyped, Stages, Unmoved, Small
    <2>10. Destinations'
      BY <1>1, <2>3 DEF RelocInv, Destinations, Ready, Going
    <2>11. Counted'
      BY <1>1, <2>3 DEF RelocInv, Counted, Counts, Going
    <2>12. Queued'
      <3> SUFFICES ASSUME NEW j \in DOMAIN module_relocations' PROVE QueuedOne(module_relocations[j])'
        BY DEF Queued
      <3>1. PICK p : p = module_relocations[j + 1] /\ p = module_relocations'[j] /\ QueuedOne(p)
        BY <1>1, <2>5 DEF RelocInv, Queued
      <3>2. QueuedOne(p)'
        BY <2>3, <3>1 DEF QueuedOne, Handled, Small
      <3> QED BY <3>1, <3>2
    <2>13. WordsRight'
      <3> SUFFICES ASSUME Small, NEW m \in 1 .. Len(module_list), NEW i \in DOMAIN module_list[m].relocs, Promised(m, i)
                   PROVE  WordRight(m, i, module_list[m].relocs[i])'
        BY <2>3 DEF WordsRight, Promised, Small
      <3>1. PICK x : x = module_list[m].relocs[i]
        OBVIOUS
      <3>2. x \in Relocations /\ i \in Nat /\ m \in 1 .. MaxFiles
        BY <3>1, ModuleFacts DEF RelocInv
      <3>3. x.section \in CodeSections
        BY <3>1, <3>2 DEF Promised, Relocations, CodeSections
      <3>4. WordRight(m, i, x)
        BY <1>1, <3>1 DEF RelocInv, WordsRight
      <3>5. Handled(m, i) /\ Handled(m, i)'
        BY <1>1, <2>3 DEF Handled
      <3>6. ASSUME ~WaitsFor(q, m, x.section) PROVE WordRight(m, i, x)'
        <4>1. memory'[m][x.section] = memory[m][x.section]
          BY <2>8, <3>2, <3>3, <3>6 DEF WaitsFor
        <4>2. NoneFor(m, x.section) => NoneFor(m, x.section)'
          BY <2>5 DEF NoneFor, WaitsFor
        <4>3. ASSUME NEW j \in DOMAIN module_relocations, OnlyFor(j, m, x.section),
                     WaitsFor(module_relocations[j], m, x.section)
              PROVE  \E k \in DOMAIN module_relocations' :
                        module_relocations'[k] = module_relocations[j] /\ OnlyFor(k, m, x.section)'
          <5>1. j # 1 /\ j \in Nat
            BY <2>5, <3>6, <4>3
          <5>2. PICK k : k = j - 1 /\ k \in DOMAIN module_relocations' /\ k + 1 = j
            BY <2>5, <5>1
          <5>3. module_relocations'[k] = module_relocations[j]
            BY <2>5, <5>2
          <5>4. ASSUME NEW l \in DOMAIN module_relocations', WaitsFor(module_relocations'[l], m, x.section)
                PROVE  l = k
            <6>1. l \in Nat /\ k \in Nat /\ l + 1 = j
              BY <2>5, <4>3, <5>2, <5>4 DEF OnlyFor
            <6> QED BY <5>2, <6>1
          <5>5. OnlyFor(k, m, x.section)'
            BY <5>4 DEF OnlyFor, WaitsFor
          <5> QED BY <5>2, <5>3, <5>5
        <4> QED BY <2>3, <3>4, <3>5, <4>1, <4>2, <4>3, WordRightKept
      <3>7. ASSUME WaitsFor(q, m, x.section) PROVE WordRight(m, i, x)'
        <4>1. ~NoneFor(m, x.section)
          BY <2>5, <3>7 DEF NoneFor
        <4>2. Pending(m, x)
          BY <3>4, <3>5, <4>1 DEF WordRight, Resolved
        <4>3. PICK j \in DOMAIN module_relocations : Keeps(module_relocations[j], m, x) /\ OnlyFor(j, m, x.section)
          BY <4>2 DEF Pending
        <4>4. j = 1
          BY <2>5, <3>7, <4>3 DEF OnlyFor
        <4>5. Keeps(q, m, x)
          BY <2>5, <4>3, <4>4
        <4>6. live
          <5>1. QueuedOne(q)
            BY <1>1, <2>5 DEF RelocInv, Queued
          <5> QED BY <2>1, <2>6, <5>1 DEF QueuedOne, CodeSections
        <4>7. v = Result(m, x)
          BY <2>2, <2>6, <4>2, <4>5 DEF Keeps, WaitsFor, Pending, Result
        <4>8. Result(m, x)' = Result(m, x)
          BY <2>3 DEF Result, FinalAddress, AddendIn
        <4>9. memory'[m][x.section] = v
          BY <2>8, <3>7, <4>6 DEF WaitsFor
        <4>10. x.type \in Known
          BY <1>3, <4>5 DEF Keeps
        <4>11. ASSUME NEW l \in DOMAIN module_relocations', WaitsFor(module_relocations'[l], m, x.section)
               PROVE  FALSE
          BY <2>5, <4>3, <4>4, <4>11 DEF OnlyFor
        <4>12. NoneFor(m, x.section)'
          BY <4>11 DEF NoneFor, WaitsFor
        <4>13. Resolved(m, x)'
          BY <4>7, <4>8, <4>9, <4>10, <4>12 DEF Resolved
        <4> QED BY <3>5, <4>13 DEF WordRight
      <3>8. WordRight(m, i, x)'
        BY <3>6, <3>7
      <3> QED BY <2>3, <3>1, <3>8
    <2> QED BY <2>9, <2>10, <2>11, <2>12, <2>13 DEF RelocInv
  <1> QED BY <1>2, <1>3

-----------------------------------------------------------------------------

\* The invariant of loading and linking.
LEMMA RelocInvariant == RelocSpec => []RelocInv
  <1>1. RelocInit => RelocInv
    BY RelocInvInit
  <1>2. RelocInv /\ [RelocNext]_relocVars => RelocInv'
    <2> SUFFICES ASSUME RelocInv, [RelocNext]_relocVars PROVE RelocInv'
      OBVIOUS
    <2>1. CASE UNCHANGED relocVars
      <3>1. /\ UNCHANGED <<linkStage, module_list, linking, relocated, destinations, room, module_entries, memory,
                          module_relocations>>
            /\ \A m, i : Handled(m, i)' <=> Handled(m, i)
            /\ Going' <=> Going
        BY <2>1 DEF relocVars, Handled, Going
      <3>2. RelocTyped' /\ Stages' /\ Unmoved'
        BY <3>1 DEF RelocInv, RelocTyped, Stages, Unmoved, Small, Linked
      <3>3. Destinations' /\ Counted'
        BY <3>1 DEF RelocInv, Destinations, Ready, Counted, Counts
      <3>4. Queued' /\ WordsRight'
        <4>1. CASE Going
          BY <3>1, <4>1, QueuedSame, WordsRightSame
        <4>2. CASE ~Going
          BY <3>1, <4>2 DEF Queued, WordsRight
        <4> QED BY <4>1, <4>2
      <3> QED BY <3>2, <3>3, <3>4 DEF RelocInv
    <2>2. ASSUME linkStage = "load", NEW f \in Files, LoadFile(f) PROVE RelocInv'
      BY <2>2, LoadFileKeeps
    <2>3. CASE AllLoaded
      BY <2>3, AllLoadedKeeps
    <2>4. CASE PlaceSection
      BY <2>4, PlaceSectionKeeps
    <2>5. CASE Relocate
      BY <2>5, RelocateKeeps
    <2>6. CASE ModuleLinked
      BY <2>6, ModuleLinkedKeeps
    <2>7. CASE Resolve
      BY <2>7, ResolveKeeps
    <2>8. CASE AllResolved
      BY <2>8, AllResolvedKeeps
    <2> QED BY <2>1, <2>2, <2>3, <2>4, <2>5, <2>6, <2>7, <2>8 DEF RelocNext
  <1> QED BY <1>1, <1>2, PTL DEF RelocSpec

(***************************************************************************)
(* EntriesDelimited, for any files and any number of modules: when all are *)
(* linked, the list has the entries that their metadata declares, and no   *)
(* others.                                                                 *)
(***************************************************************************)
THEOREM EntriesDelimitedTheorem == RelocSpec => []EntriesDelimited
  <1>1. RelocInv => EntriesDelimited
    <2> SUFFICES ASSUME RelocInv, linkStage \in {"final", "done"}
                 PROVE  module_entries.count = SumTo(Counts, Len(module_list))
      BY DEF EntriesDelimited, Counts
    <2>1. linking = Len(module_list) + 1 /\ Len(module_list) \in Nat /\ module_entries.count \in Nat
      BY DEF RelocInv, Stages, RelocTyped
    <2>2. linking - 1 = Len(module_list) /\ ~(linking <= Len(module_list))
      BY <2>1
    <2>3. module_entries.count = SumTo(Counts, Len(module_list)) + 0
      BY <2>2 DEF RelocInv, Counted, Going
    <2>4. SumTo(Counts, Len(module_list)) \in Nat
      <3>1. \A i \in 1 .. Len(module_list) : Counts[i] \in Nat
        BY ModuleFacts DEF RelocInv, Counts
      <3> QED BY <2>1, <3>1, SumNat
    <2> QED BY <2>3, <2>4
  <1> QED BY <1>1, RelocInvariant, PTL

(***************************************************************************)
(* RelocationsRight, for words of any width, any files and any number of   *)
(* modules and relocations: what code reads from a relocated field is the  *)
(* address that was meant, and a branch keeps its opcode.                  *)
(***************************************************************************)
THEOREM RelocationsRightTheorem == RelocSpec => []RelocationsRight
  <1>1. RelocInv => RelocationsRight
    <2> SUFFICES ASSUME RelocInv, linkStage = "done", Small,
                        NEW m \in 1 .. Len(module_list), NEW i \in DOMAIN module_list[m].relocs, Promised(m, i),
                        NEW r, r = module_list[m].relocs[i]
                 PROVE  /\ Holds(r.type[2], Meant(m, r))
                               => ReadBack(r.type[2], memory[m][r.section], Meant(m, r)) = Meant(m, r)
                        /\ r.type[2] \in {"24", "14"}
                               => BitField(memory[m][r.section], 2 * Half - OpBits, 2 * Half)
                                      = BitField(module_list[m].word, 2 * Half - OpBits, 2 * Half)
      BY DEF RelocationsRight, Small
    <2>1. Going /\ module_relocations = << >> /\ linking = Len(module_list) + 1 /\ Len(module_list) \in Nat
      BY DEF RelocInv, Stages, RelocTyped, Going
    <2>2. r \in Relocations /\ m \in 1 .. MaxFiles /\ module_list[m].word \in Int
      BY ModuleFacts DEF RelocInv
    <2>3. r.section \in CodeSections /\ r.type[1] # "sectoff"
      BY <2>2 DEF Promised, Relocations, CodeSections
    <2>4. WordRight(m, i, r) /\ Handled(m, i)
      BY <2>1 DEF RelocInv, WordsRight, Handled
    <2>5. r.type \in Known /\ memory[m][r.section] = Result(m, r)
      BY <2>1, <2>4 DEF WordRight, Resolved, Pending
    <2>6. PICK a \in Int, b \in Int, d \in Int :
             a = FinalAddress(m, r) /\ b = AddendIn(m, r) /\ d = destinations[m][r.section]
      <3>1. destinations[m] \in [CodeSections -> Int]
        BY <2>2 DEF RelocInv, RelocTyped
      <3>2. r.symbol.st_value \in Int
        BY <2>2, WordSizes DEF Relocations, ElfSymbols, NotFound
      <3>3. FinalAddress(m, r) \in Int
        BY <3>1, <3>2 DEF FinalAddress, CodeSections
      <3>4. AddendIn(m, r) \in Int
        BY <2>2 DEF AddendIn, Relocations
      <3> QED BY <2>3, <3>1, <3>3, <3>4
    <2>7. r.type[1] \in {"absolute", "relative", "negative"}
      BY <2>3, <2>5, KnownFields
    <2>8. Meant(m, r) = Computed(r.type[1], a, 0, b, d)
      BY ONLY <2>6, <2>7 DEF Meant, Computed, AddendIn
    <2>9. memory[m][r.section] = ElfLinkOne(r.type, module_list[m].word, a, 0, b, d)
      BY ONLY <2>5, <2>6 DEF Result
    <2> QED BY <2>2, <2>5, <2>8, <2>9, LinkOneRight
  <1> QED BY <1>1, RelocInvariant, PTL

-----------------------------------------------------------------------------
(* The invariant. *)

\* The variables are what Init and the steps make of them.
Typed ==
    /\ kind \in [Names -> Kinds] /\ entry \in [Modules -> [Names -> Types]] /\ refs \in [Modules -> SUBSET Names]
    /\ DOMAIN address = Names /\ DOMAIN first = Places /\ DOMAIN behind = Places
    /\ DOMAIN link = Modules
    /\ module_index \in Nat /\ (module_index = 0 => search_module_symbols = {} /\ replaced = {})
    /\ result = "success" => module_index > 0 /\ module_index \notin Modules

\* The modules whose replacement of n is done.
Done(n) == {k \in Replacing(n) : k < module_index \/ (k = module_index /\ n \in replaced)}

\* Where the code is that replacement l made room for; 0 stands for the game.
Tip(l, n) == IF l = 0 THEN Game(n) ELSE Stub(l, n)

\* Of the replacements D: l is the last, or the game if there is none; k comes after l.
LastDone(l, D) == l \in D \cup {0} /\ \A j \in D : j <= l
Follows(l, k, D) == l \in D \cup {0} /\ k \in D /\ l < k /\ \A j \in D : l < j => k <= j

\* An added symbol of n: a module exports it, or a module has made it up.
Provides(n, p, D) ==
    \/ \E k \in Exporting(n) : p = Export(k, n)
    \/ kind[n] # "found" /\ \E k \in D : p = Stub(k, n)

Added(n, p) == <<n, p>> \in search_module_symbols

Symbols ==
    /\ \A n \in Names, p \in Places : Added(n, p) => Provides(n, p, Done(n))
    /\ module_index > 0 => \A n \in Names : \A k \in Exporting(n) : Added(n, Export(k, n))

Addresses ==
    \A n \in Names : IF kind[n] = "found" THEN address[n] \in Places /\ address[n].name = n ELSE address[n] = Null

\* The game has the function, and no module provides another one.
Own(n) == kind[n] = "found" /\ Exporting(n) = {}

(***************************************************************************)
(* The replacements D of n are chained: each branches to the next one, the *)
(* code behind the last is the game's, and the symbol refers to the last.  *)
(***************************************************************************)
Chained(n, D) ==
    /\ \E l : LastDone(l, D) /\ address[n] = Tip(l, n) /\ first[Tip(l, n)] = Plain /\ behind[Tip(l, n)] = Game(n)
    /\ \A l, k : Follows(l, k, D) => first[Tip(l, n)] = Hook(k, n)

Chains == \A n \in Names : Own(n) => Chained(n, Done(n))

\* What module j calls n is the last replacement up to its own.
Bound(j, n, D) ==
    \E l \in D \cup {0} : l <= j /\ (\A k \in D : k <= j => k <= l) /\ link[j][n] = Tip(l, n)

Bounds ==
    \A j \in Modules : \A n \in refs[j] : j < module_index /\ Own(n) => Bound(j, n, Done(n))

\* A function that is replaced is known from then on.
KnownName(n) == address[n] # Null \/ \E p \in Places : Added(n, p)
Replaced == result = "running" => \A n \in Names : Done(n) # {} => KnownName(n)

\* A missing function is one that no module up to the caller replaces.
Unresolved(n) == Missing(n) /\ \E m \in Modules : n \in refs[m] /\ \A k \in 1 .. m : k \notin Replacing(n)
ErrorSeen == has_error => \E n \in Names : Unresolved(n)

\* Every error has one of the three reasons.
ErrorReason ==
    result = "error" =>
        \E n \in Names :
            \/ Missing(n) /\ \E m \in Modules : entry[m][n] = "MUST"
            \/ Unresolved(n)
            \/ ProvidedTwice(n)

LinkInv ==
    /\ Typed /\ Symbols /\ Addresses /\ Chains /\ Bounds /\ Replaced /\ ErrorSeen
    /\ ErrorReason

-----------------------------------------------------------------------------
(* Places. *)

\* The places of a name are places, of that name, and differ from each other.
LEMMA PlaceFacts ==
    ASSUME NEW n \in Names
    PROVE  /\ Game(n) \in Places /\ Game(n).name = n
           /\ \A m \in Modules : /\ Stub(m, n) \in Places /\ Stub(m, n).name = n
                                 /\ Hook(m, n) \in Places /\ Hook(m, n).name = n
                                 /\ Export(m, n) \in Places /\ Export(m, n).name = n
                                 /\ Hook(m, n) # Plain
           /\ Null \notin Places /\ Plain \notin Places
  BY DEF Places, Game, Stub, Hook, Export, Null, Plain

\* The code that a replacement made room for.
LEMMA TipFacts ==
    ASSUME NEW n \in Names, NEW l \in Modules \cup {0}
    PROVE  /\ Tip(l, n) \in Places /\ Tip(l, n).name = n
           /\ \A k \in Modules \cup {0} : Tip(k, n) = Tip(l, n) => k = l
  <1>0. 0 \notin Modules
    BY LinkAssumption DEF Modules
  <1>1. Tip(l, n) \in Places /\ Tip(l, n).name = n
    BY PlaceFacts DEF Tip
  <1>2. Game(n).place = "game" /\ \A k \in Modules : Stub(k, n).place = "stub" /\ Stub(k, n).module = k
    BY DEF Game, Stub
  <1>3. \A k \in Modules \cup {0} : Tip(k, n) = Tip(l, n) => k = l
    <2> TAKE k \in Modules \cup {0}
    <2>1. CASE k = 0 /\ l = 0
      BY <2>1
    <2>2. CASE k = 0 /\ l # 0
      BY <1>2, <2>2 DEF Tip
    <2>3. CASE k # 0 /\ l = 0
      BY <1>2, <2>3 DEF Tip
    <2>4. CASE k # 0 /\ l # 0
      BY <1>2, <2>4 DEF Tip
    <2> QED BY <2>1, <2>2, <2>3, <2>4
  <1> QED BY <1>1, <1>3

\* The replacements that are done are modules, up to the current one.
LEMMA DoneFacts ==
    ASSUME Typed, NEW n \in Names
    PROVE  /\ Done(n) \subseteq Modules /\ Done(n) \subseteq Replacing(n) /\ Modules \subseteq Nat \ {0}
           /\ \A k \in Done(n) : k <= module_index
           /\ n \notin replaced => \A k \in Done(n) : k < module_index
  <1>1. Done(n) \subseteq Replacing(n) /\ Replacing(n) \subseteq Modules
    BY DEF Done, Replacing
  <1>2. Modules \subseteq Nat \ {0} /\ module_index \in Nat
    BY LinkAssumption DEF Modules, Typed
  <1>3. ASSUME NEW k \in Done(n) PROVE k <= module_index /\ (n \notin replaced => k < module_index)
    <2>1. k \in Nat /\ (k < module_index \/ (k = module_index /\ n \in replaced))
      BY <1>1, <1>2 DEF Done
    <2> QED BY <1>2, <2>1
  <1> QED BY <1>1, <1>2, <1>3

\* Where the search finds a function.
LEMMA LookupFacts ==
    ASSUME LinkInv, NEW n \in Names
    PROVE  /\ \A p \in Search_SymbolLookup(n) : p \in Places /\ p.name = n /\ (p = address[n] \/ Added(n, p))
           /\ Search_SymbolLookup(n) = {} => ~KnownName(n)
           /\ Own(n) => Search_SymbolLookup(n) = {address[n]}
  <1> USE DEF LinkInv
  <1>1. PICK A : A = {p \in Places : Added(n, p)} /\ Search_SymbolLookup(n) = IF A # {} THEN A ELSE {address[n]} \ {Null}
    BY DEF Search_SymbolLookup, Added
  <1>2. ASSUME NEW p \in A PROVE p \in Places /\ p.name = n /\ Added(n, p)
    <2>1. p \in Places /\ Added(n, p)
      BY <1>1
    <2>2. Provides(n, p, Done(n))
      BY <2>1 DEF Symbols
    <2>3. Exporting(n) \subseteq Modules /\ Done(n) \subseteq Modules
      BY DoneFacts DEF Exporting
    <2>4. p.name = n
      BY <2>2, <2>3, PlaceFacts DEF Provides
    <2> QED BY <2>1, <2>4
  <1>3. address[n] # Null => address[n] \in Places /\ address[n].name = n
    BY DEF Addresses
  <1>4. \A p \in Search_SymbolLookup(n) : p \in Places /\ p.name = n /\ (p = address[n] \/ Added(n, p))
    BY <1>1, <1>2, <1>3
  <1>5. Search_SymbolLookup(n) = {} => ~KnownName(n)
    BY <1>1 DEF KnownName
  <1>6. ASSUME Own(n) PROVE Search_SymbolLookup(n) = {address[n]}
    <2>1. A = {}
      BY <1>1, <1>6 DEF Symbols, Provides, Own
    <2>2. address[n] # Null
      BY <1>6, PlaceFacts DEF Own, Addresses
    <2> QED BY <1>1, <2>1, <2>2
  <1> QED BY <1>4, <1>5, <1>6

\* A function that is not found is missing.
LEMMA NothingFound ==
    ASSUME LinkInv, NEW n \in Names, Search_SymbolLookup(n) = {}, module_index > 0
    PROVE  Missing(n)
  <1> USE DEF LinkInv
  <1>1. ~KnownName(n)
    BY LookupFacts
  <1>2. kind[n] # "found"
    BY <1>1, PlaceFacts DEF Addresses, KnownName
  <1>3. Exporting(n) = {}
    <2> SUFFICES ASSUME NEW k \in Exporting(n) PROVE FALSE
      OBVIOUS
    <2>1. k \in Modules
      BY DEF Exporting
    <2>2. Added(n, Export(k, n)) /\ Export(k, n) \in Places
      BY <2>1, PlaceFacts DEF Symbols
    <2> QED BY <1>1, <2>2 DEF KnownName
  <1> QED BY <1>2, <1>3 DEF Missing

\* What depends on the modules and on the game's functions alone does not change.
LEMMA InputsCalm ==
    ASSUME UNCHANGED inputs
    PROVE  /\ \A n : Replacing(n)' = Replacing(n) /\ Exporting(n)' = Exporting(n) /\ (Own(n)' <=> Own(n))
           /\ \A n : (Missing(n)' <=> Missing(n)) /\ (Unresolved(n)' <=> Unresolved(n))
           /\ \A m : Replacements(m)' = Replacements(m)
  <1>1. UNCHANGED <<kind, entry, refs>>
    BY DEF inputs
  <1>2. \A m : Replacements(m)' = Replacements(m)
    BY <1>1 DEF Replacements
  <1>3. \A n : Replacing(n)' = Replacing(n) /\ Exporting(n)' = Exporting(n)
    BY <1>1, <1>2 DEF Replacing, Exporting
  <1>4. \A n : (Own(n)' <=> Own(n)) /\ (Missing(n)' <=> Missing(n))
    BY <1>1, <1>3 DEF Own, Missing
  <1>5. \A n : Unresolved(n)' <=> Unresolved(n)
    BY <1>1, <1>3, <1>4 DEF Unresolved
  <1> QED BY <1>2, <1>3, <1>4, <1>5

\* The reasons for an error stay the same.
LEMMA ReasonsCalm ==
    ASSUME ErrorReason, ErrorSeen, UNCHANGED <<inputs, has_error>>, result' = result \/ result' # "error"
    PROVE  ErrorReason' /\ ErrorSeen'
  <1>1. /\ \A n : Replacing(n)' = Replacing(n) /\ Exporting(n)' = Exporting(n)
        /\ \A n : (Missing(n)' <=> Missing(n)) /\ (Unresolved(n)' <=> Unresolved(n))
    BY InputsCalm
  <1>2. ErrorSeen'
    BY <1>1 DEF ErrorSeen
  <1>3. UNCHANGED <<kind, entry, refs>>
    BY DEF inputs
  <1>4. ErrorReason'
    BY <1>1, <1>3 DEF ErrorReason, Unresolved, ProvidedTwice
  <1> QED BY <1>2, <1>4

-----------------------------------------------------------------------------
(* Steps that replace no function. *)

\* Nothing that the chains consist of changes.
LEMMA ChainsCalm ==
    ASSUME LinkInv, UNCHANGED <<inputs, address, first, behind>>, \A n \in Names : Done(n)' = Done(n)
    PROVE  Chains' /\ Addresses'
  <1>1. \A n : Own(n)' <=> Own(n)
    BY InputsCalm
  <1>2. ASSUME NEW n \in Names, Own(n) PROVE Chained(n, Done(n))'
    <2>1. PICK D : D = Done(n) /\ D = Done(n)'
      OBVIOUS
    <2>2. Chained(n, D)
      BY <1>2, <2>1 DEF LinkInv, Chains
    <2>3. Chained(n, D)'
      BY <2>2 DEF Chained
    <2> QED BY <2>1, <2>3
  <1>3. Chains'
    BY <1>1, <1>2 DEF Chains
  <1>4. Addresses'
    BY DEF LinkInv, Addresses, inputs
  <1> QED BY <1>3, <1>4

\* The modules' exports become symbols.
LEMMA LoadKeeps ==
    ASSUME LinkInv, Module_ListLoadSymbols
    PROVE  LinkInv'
  <1> USE DEF LinkInv
  <1>1. /\ result = "running" /\ module_index = 0 /\ module_index' = 1 /\ replaced = {}
        /\ UNCHANGED <<inputs, replaced, address, first, behind, link, has_error, result>>
    BY DEF Module_ListLoadSymbols, Typed
  <1>2. /\ \A n : Replacing(n)' = Replacing(n) /\ Exporting(n)' = Exporting(n) /\ (Own(n)' <=> Own(n))
    BY <1>1, InputsCalm
  <1>3. \A n \in Names : Done(n) = {} /\ Done(n)' = {}
    <2>1. \A k \in Modules : ~(k < 0) /\ ~(k < 1) /\ k # 0
      BY LinkAssumption DEF Modules
    <2>2. \A n : Replacing(n) \subseteq Modules
      BY DEF Replacing
    <2> QED BY <1>1, <1>2, <2>1, <2>2 DEF Done
  <1>4. Typed'
    BY <1>1 DEF Typed, inputs
  <1>5. Chains' /\ Addresses'
    BY <1>1, <1>3, ChainsCalm
  <1>6. ASSUME NEW n \in Names, NEW p
        PROVE  Added(n, p)' <=> p \in Places /\ \E m \in Modules : entry[m][n] = "EXPORT" /\ p = Export(m, n)
    BY DEF Module_ListLoadSymbols, Added
  <1>7. Symbols'
    <2>1. ASSUME NEW n \in Names, NEW p \in Places, Added(n, p)' PROVE Provides(n, p, Done(n))'
      <3>1. PICK m \in Modules : entry[m][n] = "EXPORT" /\ p = Export(m, n)
        BY <1>6, <2>1
      <3>2. m \in Exporting(n)
        BY <3>1 DEF Exporting
      <3> QED BY <1>2, <3>1, <3>2 DEF Provides
    <2>2. ASSUME NEW n \in Names, NEW k \in Exporting(n) PROVE Added(n, Export(k, n))'
      <3>1. k \in Modules /\ entry[k][n] = "EXPORT"
        BY DEF Exporting
      <3>2. Export(k, n) \in Places
        BY <3>1, PlaceFacts
      <3> QED BY <1>6, <3>1, <3>2
    <2> QED BY <1>2, <2>1, <2>2 DEF Symbols
  <1>8. Bounds'
    <2>1. \A j \in Modules : ~(j < 1)
      BY LinkAssumption DEF Modules
    <2> QED BY <1>1, <2>1 DEF Bounds
  <1>9. Replaced'
    BY <1>3 DEF Replaced
  <1>10. ErrorReason' /\ ErrorSeen'
    BY <1>1, ReasonsCalm
  <1> QED BY <1>4, <1>5, <1>7, <1>8, <1>9, <1>10

\* The end of linking.
LEMMA FinishKeeps ==
    ASSUME LinkInv, Finish
    PROVE  LinkInv'
  <1> USE DEF LinkInv
  <1>1. /\ result = "running" /\ module_index > 0 /\ module_index \notin Modules
        /\ result' = IF has_error THEN "error" ELSE "success"
        /\ UNCHANGED <<inputs, module_index, replaced, search_module_symbols, address, first, behind, link, has_error>>
    BY DEF Finish
  <1>2. /\ \A n : Replacing(n)' = Replacing(n) /\ Exporting(n)' = Exporting(n) /\ (Own(n)' <=> Own(n))
        /\ \A n : (Missing(n)' <=> Missing(n)) /\ (Unresolved(n)' <=> Unresolved(n))
    BY <1>1, InputsCalm
  <1>3. \A n \in Names : Done(n)' = Done(n)
    BY <1>1, <1>2 DEF Done
  <1>4. UNCHANGED <<kind, entry, refs>>
    BY <1>1 DEF inputs
  <1>5. Typed'
    <2>1. module_index' > 0 /\ module_index' \notin Modules
      BY <1>1
    <2> QED BY <1>1, <1>4, <2>1 DEF Typed
  <1>6. Chains' /\ Addresses'
    BY <1>1, <1>3, ChainsCalm
  <1>7. Symbols'
    <2>1. \A n \in Names : \A p : (Added(n, p)' <=> Added(n, p)) /\ (Provides(n, p, Done(n)) => Provides(n, p, Done(n))')
      BY <1>1, <1>2, <1>3, <1>4 DEF Added, Provides
    <2> QED BY <1>1, <1>2, <2>1 DEF Symbols
  <1>8. Bounds'
    <2>1. \A j \in Modules : refs[j] \subseteq Names
      BY DEF Typed
    <2>2. ASSUME NEW j \in Modules, NEW n \in refs[j], Bound(j, n, Done(n)) PROVE Bound(j, n, Done(n))'
      <3>1. PICK D : D = Done(n) /\ D = Done(n)'
        BY <1>3, <2>1
      <3>2. Bound(j, n, D)'
        BY <1>1, <2>2, <3>1 DEF Bound
      <3> QED BY <3>1, <3>2
    <2> QED BY <1>1, <1>2, <1>4, <2>2 DEF Bounds
  <1>9. Replaced'
    BY <1>1 DEF Replaced
  <1>10. ErrorSeen'
    BY <1>1, <1>2 DEF ErrorSeen
  <1>11. ErrorReason'
    <2>1. ASSUME has_error PROVE ErrorReason'
      <3>1. PICK n \in Names : Unresolved(n)
        BY <2>1 DEF ErrorSeen
      <3>2. PICK m \in Modules : Missing(n) /\ n \in refs[m] /\ \A k \in 1 .. m : k \notin Replacing(n)
        BY <3>1 DEF Unresolved
      <3>3. Missing(n)' /\ n \in refs'[m] /\ \A k \in 1 .. m : k \notin Replacing(n)'
        BY <1>2, <1>4, <3>2
      <3> QED BY <3>3 DEF ErrorReason, Unresolved, ProvidedTwice
    <2>2. ASSUME ~has_error PROVE ErrorReason'
      BY <1>1, <2>2 DEF ErrorReason, Unresolved, ProvidedTwice
    <2> QED BY <2>1, <2>2
  <1> QED BY <1>5, <1>6, <1>7, <1>8, <1>9, <1>10, <1>11

\* The relocations of a module are resolved.
LEMMA ResolvingKeeps ==
    ASSUME LinkInv, ResolveRelocations
    PROVE  LinkInv'
  <1> USE DEF LinkInv
  <1> DEFINE m == module_index
             missing == {n \in refs[m] : Search_SymbolLookup(n) = {}}
  <1>1. m = module_index /\ missing = {n \in refs[m] : Search_SymbolLookup(n) = {}}
    OBVIOUS
  <1>2. /\ result = "running" /\ m \in Modules /\ replaced = Replacements(m)
        /\ has_error' = (has_error \/ missing # {}) /\ module_index' = m + 1 /\ replaced' = {}
        /\ UNCHANGED <<inputs, search_module_symbols, address, first, behind, result>>
    BY DEF ResolveRelocations
  <1>3. PICK found \in [refs[m] \ missing -> Places] :
          /\ \A n \in refs[m] \ missing : found[n] \in Search_SymbolLookup(n)
          /\ link' = [link EXCEPT ![m] = [n \in Names |-> IF n \in refs[m] \ missing THEN found[n] ELSE Null]]
    BY DEF ResolveRelocations
  <1> HIDE DEF m, missing
  <1>4. /\ \A n : Replacing(n)' = Replacing(n) /\ Exporting(n)' = Exporting(n) /\ (Own(n)' <=> Own(n))
        /\ \A n : (Missing(n)' <=> Missing(n)) /\ (Unresolved(n)' <=> Unresolved(n))
    BY <1>2, InputsCalm
  <1>5. UNCHANGED <<kind, entry, refs>>
    BY <1>2 DEF inputs
  <1>6. m \in Nat \ {0} /\ Modules \subseteq Nat \ {0}
    BY <1>2, LinkAssumption DEF Modules
  <1>7. ASSUME NEW n \in Names PROVE Done(n)' = Done(n) /\ \A k \in Replacing(n) : k <= m => k \in Done(n)
    <2>1. ASSUME NEW k \in Replacing(n)
          PROVE  /\ k < m + 1 <=> k < m \/ (k = m /\ n \in replaced)
                 /\ k <= m => k < m \/ (k = m /\ n \in replaced)
      <3>1. k \in Modules /\ (k = m => n \in replaced)
        BY <1>2 DEF Replacing
      <3>2. k \in Nat
        BY <1>6, <3>1
      <3> QED BY <1>6, <3>1, <3>2
    <2>2. Done(n) = {k \in Replacing(n) : k < m \/ (k = m /\ n \in replaced)}
      BY <1>1 DEF Done
    <2>3. Done(n)' = {k \in Replacing(n) : k < m + 1 \/ (k = m + 1 /\ n \in {})}
      BY <1>2, <1>4 DEF Done
    <2> QED BY <2>1, <2>2, <2>3
  <1>8. Typed'
    <2>1. m + 1 \in Nat /\ m + 1 # 0
      BY <1>6
    <2>2. DOMAIN link' = Modules
      BY <1>3 DEF Typed
    <2> QED BY <1>2, <1>5, <2>1, <2>2 DEF Typed
  <1>9. Chains' /\ Addresses'
    BY <1>2, <1>7, ChainsCalm
  <1>10. \A n, p : Added(n, p)' <=> Added(n, p)
    BY <1>2 DEF Added
  <1>11. Symbols'
    <2>1. \A n \in Names : \A p : Provides(n, p, Done(n)) => Provides(n, p, Done(n))'
      BY <1>4, <1>5, <1>7 DEF Provides
    <2>2. module_index > 0
      BY <1>1, <1>6
    <2> QED BY <1>4, <1>10, <2>1, <2>2 DEF Symbols
  <1>12. Replaced'
    BY <1>2, <1>7, <1>10 DEF Replaced, KnownName
  <1>13. Bounds'
    <2>1. ASSUME NEW j \in Modules, NEW n \in refs[j], j < m + 1, Own(n) PROVE Bound(j, n, Done(n))'
      <3>0. n \in Names /\ j \in Nat
        BY <1>6 DEF Typed
      <3>1. PICK D : D = Done(n) /\ D = Done(n)'
        BY <1>7, <3>0
      <3>2. CASE j # m
        <4>1. j < m
          BY <1>6, <2>1, <3>0, <3>2
        <4>2. Bound(j, n, D)
          BY <1>1, <2>1, <3>1, <4>1 DEF Bounds
        <4>3. link'[j] = link[j]
          BY <1>3, <3>2 DEF Typed
        <4>4. Bound(j, n, D)'
          BY <4>2, <4>3 DEF Bound
        <4> QED BY <3>1, <4>4
      <3>3. CASE j = m
        <4>1. Search_SymbolLookup(n) = {address[n]}
          BY <2>1, <3>0, LookupFacts
        <4>2. n \in refs[m] \ missing
          BY <1>1, <2>1, <3>3, <4>1
        <4>3. link'[m][n] = address[n]
          BY <1>2, <1>3, <3>0, <4>1, <4>2 DEF Typed
        <4>4. PICK l : LastDone(l, D) /\ address[n] = Tip(l, n)
          BY <2>1, <3>0, <3>1 DEF Chains, Chained
        <4>5. \A k \in D : k <= m
          BY <1>1, <3>0, <3>1, DoneFacts
        <4>6. l \in D \cup {0} /\ l <= m /\ \A k \in D : k <= l
          BY <1>6, <4>4, <4>5 DEF LastDone
        <4>7. Bound(j, n, D)'
          BY <3>3, <4>3, <4>4, <4>6 DEF Bound
        <4> QED BY <3>1, <4>7
      <3> QED BY <3>2, <3>3
    <2> QED BY <1>2, <1>4, <1>5, <2>1 DEF Bounds
  <1>14. ErrorSeen'
    <2>1. ASSUME NEW n \in missing PROVE Unresolved(n) /\ n \in Names
      <3>1. n \in refs[m] /\ n \in Names /\ Search_SymbolLookup(n) = {}
        BY <1>1, <1>2, <2>1 DEF Typed
      <3>2. ~KnownName(n)
        BY <3>1, LookupFacts
      <3>3. Missing(n)
        BY <1>1, <1>6, <3>1, NothingFound
      <3>4. Done(n) = {}
        BY <1>2, <3>1, <3>2 DEF Replaced
      <3>5. \A k \in 1 .. m : k \notin Replacing(n)
        <4> SUFFICES ASSUME NEW k \in 1 .. m, k \in Replacing(n) PROVE FALSE
          OBVIOUS
        <4>1. k <= m
          BY <1>6
        <4> QED BY <1>7, <3>1, <3>4, <4>1
      <3> QED BY <1>2, <3>1, <3>3, <3>5 DEF Unresolved
    <2>2. CASE missing = {}
      BY <1>2, <1>4, <2>2 DEF ErrorSeen
    <2>3. CASE missing # {}
      BY <1>4, <2>1, <2>3 DEF ErrorSeen
    <2> QED BY <2>2, <2>3
  <1>15. ErrorReason'
    BY <1>2 DEF ErrorReason, Unresolved, ProvidedTwice
  <1> QED BY <1>8, <1>9, <1>11, <1>12, <1>13, <1>14, <1>15

-----------------------------------------------------------------------------
(* A function is replaced. *)

\* The current module's replacement of n, which is not done yet, gets done.
Replaces(n) ==
    /\ result = "running" /\ module_index \in Modules /\ n \in Replacements(module_index) \ replaced
    /\ replaced' = replaced \cup {n} /\ UNCHANGED <<inputs, module_index, link, has_error>>

\* Only places and the address of n change.
OnlyName(n) ==
    /\ DOMAIN first' = Places /\ DOMAIN behind' = Places /\ DOMAIN address' = Names
    /\ \A p \in Places : p.name # n => first'[p] = first[p] /\ behind'[p] = behind[p]
    /\ \A k \in Names : k # n => address'[k] = address[k]

\* It is the last of the replacements that are done.
LEMMA DoneAfter ==
    ASSUME LinkInv, NEW n \in Names, Replaces(n)
    PROVE  /\ Done(n)' = Done(n) \cup {module_index} /\ \A k \in Names : k # n => Done(k)' = Done(k)
           /\ module_index \in Modules /\ module_index \in Nat \ {0} /\ module_index \in Replacing(n)
           /\ \A k \in Done(n) : k < module_index
  <1>1. \A k : Replacing(k)' = Replacing(k)
    BY InputsCalm DEF Replaces
  <1>2. module_index \in Modules /\ module_index \in Replacing(n) /\ n \notin replaced
    BY DEF Replaces, Replacing
  <1>3. module_index \in Nat \ {0}
    BY <1>2, LinkAssumption DEF Modules
  <1>4. \A k \in Names : k # n => Done(k)' = Done(k)
    BY <1>1 DEF Done, Replaces
  <1>5. Done(n)' = Done(n) \cup {module_index}
    BY <1>1, <1>2 DEF Done, Replaces
  <1>6. \A k \in Done(n) : k < module_index
    BY <1>2, DoneFacts DEF LinkInv
  <1> QED BY <1>2, <1>3, <1>4, <1>5, <1>6

\* The other functions and the modules that are linked are not concerned.
LEMMA ElsewhereCalm ==
    ASSUME LinkInv, NEW n \in Names, Replaces(n), OnlyName(n)
    PROVE  /\ \A k \in Names : k # n /\ Own(k) => Chained(k, Done(k))'
           /\ Bounds'
  <1> USE DEF LinkInv
  <1>1. /\ Done(n)' = Done(n) \cup {module_index} /\ \A k \in Names : k # n => Done(k)' = Done(k)
        /\ module_index \in Nat /\ \A k \in Done(n) : k < module_index
    BY DoneAfter
  <1>2. ASSUME NEW k \in Names, k # n, Own(k) PROVE Chained(k, Done(k))'
    <2>1. PICK D : D = Done(k) /\ D = Done(k)' /\ D \subseteq Modules
      BY <1>1, <1>2, DoneFacts
    <2>2. Chained(k, D) /\ address'[k] = address[k]
      BY <1>2, <2>1 DEF Chains, OnlyName
    <2>3. \A l \in D \cup {0} : first'[Tip(l, k)] = first[Tip(l, k)] /\ behind'[Tip(l, k)] = behind[Tip(l, k)]
      BY <1>2, <2>1, TipFacts DEF OnlyName
    <2>4. Chained(k, D)'
      BY <2>2, <2>3 DEF Chained, LastDone, Follows
    <2> QED BY <2>1, <2>4
  <1>3. ASSUME NEW j \in Modules, NEW k \in refs[j], j < module_index, Bound(j, k, Done(k))
        PROVE  Bound(j, k, Done(k))'
    <2>0. k \in Names /\ j \in Nat /\ UNCHANGED link
      BY LinkAssumption DEF Typed, Modules, Replaces
    <2>1. PICK D, E : D = Done(k) /\ E = Done(k)'
      OBVIOUS
    <2>2. E = D \/ E = D \cup {module_index}
      BY <1>1, <2>0, <2>1
    <2>3. PICK l \in D \cup {0} : l <= j /\ (\A i \in D : i <= j => i <= l) /\ link[j][k] = Tip(l, k)
      BY <1>3, <2>1 DEF Bound
    <2>4. ~(module_index <= j)
      BY <1>1, <1>3, <2>0
    <2>5. l \in E \cup {0} /\ \A i \in E : i <= j => i <= l
      BY <2>2, <2>3, <2>4
    <2>6. Bound(j, k, E)'
      BY <2>0, <2>3, <2>5 DEF Bound
    <2> QED BY <2>1, <2>6
  <1>4. UNCHANGED <<kind, entry, refs, module_index>> /\ \A k : Own(k)' <=> Own(k)
    BY InputsCalm DEF Replaces, inputs
  <1>5. Bounds'
    BY <1>3, <1>4 DEF Bounds
  <1> QED BY <1>2, <1>5

\* The last replacement of a function of the game is put at the end of the chain.
LEMMA ChainGrows ==
    ASSUME NEW n \in Names, NEW D, D \subseteq Modules, NEW m \in Modules, \A k \in D : k < m,
           Chained(n, D), NEW d, d = address[n], NEW s, s = Stub(m, n), address' = [address EXCEPT ![n] = s],
           DOMAIN address = Names, DOMAIN first = Places, DOMAIN behind = Places,
           first' = [first EXCEPT ![s] = first[d], ![d] = Hook(m, n)], behind' = [behind EXCEPT ![s] = behind[d]]
    PROVE  Chained(n, D \cup {m})'
  <1>0. Modules \subseteq Nat \ {0} /\ m # 0
    BY LinkAssumption DEF Modules
  <1>1. PICK l : LastDone(l, D) /\ d = Tip(l, n) /\ first[d] = Plain /\ behind[d] = Game(n)
    BY DEF Chained
  <1>2. l \in D \cup {0} /\ \A j \in D : j <= l
    BY <1>1 DEF LastDone
  <1>3. l < m /\ l \in Modules \cup {0} /\ l \in Nat /\ m \in Nat
    BY <1>0, <1>2
  <1>4. s = Tip(m, n) /\ s \in Places /\ d \in Places /\ s # d
    <2>1. s = Tip(m, n)
      BY <1>0 DEF Tip
    <2>2. m # l
      BY <1>3
    <2> QED BY <1>1, <1>3, <2>1, <2>2, TipFacts
  <1>5. /\ first'[s] = Plain /\ first'[d] = Hook(m, n) /\ behind'[s] = Game(n)
        /\ \A p \in Places : p # s /\ p # d => first'[p] = first[p]
    BY <1>1, <1>4
  <1>6. LastDone(m, D \cup {m})
    BY <1>0, <1>3 DEF LastDone
  <1>7. address'[n] = s
    OBVIOUS
  <1>8. ASSUME NEW i, NEW k, Follows(i, k, D \cup {m}) PROVE first'[Tip(i, n)] = Hook(k, n)
    <2>1. i \in D \cup {m} \cup {0} /\ k \in D \cup {m} /\ i < k /\ \A j \in D \cup {m} : i < j => k <= j
      BY <1>8 DEF Follows
    <2>2. i # m
      <3> SUFFICES ASSUME i = m PROVE FALSE
        OBVIOUS
      <3>1. CASE k = m
        BY <1>3, <2>1, <3>1
      <3>2. CASE k \in D
        <4>1. k < m /\ k \in Nat
          BY <1>0, <3>2
        <4> QED BY <1>3, <2>1, <4>1
      <3> QED BY <2>1, <3>1, <3>2
    <2>3. i \in D \cup {0} /\ i \in Modules \cup {0} /\ i \in Nat
      BY <1>0, <2>1, <2>2
    <2>4. CASE k \in D
      <3>1. Follows(i, k, D)
        BY <2>1, <2>3, <2>4 DEF Follows
      <3>2. first[Tip(i, n)] = Hook(k, n)
        BY <3>1 DEF Chained
      <3>3. i # l
        <4>1. k <= l /\ k \in Nat
          BY <1>0, <1>2, <2>4
        <4> QED BY <1>3, <2>1, <2>3, <4>1
      <3>4. Tip(i, n) \in Places /\ Tip(i, n) # s /\ Tip(i, n) # d
        BY <1>1, <1>3, <1>4, <2>2, <2>3, <3>3, TipFacts
      <3> QED BY <1>5, <3>2, <3>4
    <2>5. CASE k = m
      <3>1. \A j \in D : ~(i < j)
        <4> SUFFICES ASSUME NEW j \in D, i < j PROVE FALSE
          OBVIOUS
        <4>1. m <= j /\ j < m /\ j \in Nat
          BY <1>0, <2>1, <2>5
        <4> QED BY <1>3, <4>1
      <3>2. l <= i
        BY <1>0, <1>2, <1>3, <2>3, <3>1
      <3>3. i <= l
        BY <1>2, <1>3, <2>3
      <3>4. i = l
        BY <1>3, <2>3, <3>2, <3>3
      <3> QED BY <1>1, <1>5, <2>5, <3>4
    <2> QED BY <2>1, <2>4, <2>5
  <1>9. /\ LastDone(m, D \cup {m}) /\ address'[n] = Tip(m, n)
        /\ first'[Tip(m, n)] = Plain /\ behind'[Tip(m, n)] = Game(n)
    BY <1>4, <1>5, <1>6, <1>7
  <1>10. \A i, k : Follows(i, k, D \cup {m}) => first'[Tip(i, n)] = Hook(k, n)
    BY <1>8
  <1> QED BY <1>9, <1>10 DEF Chained

\* A function that is in no symbol file is replaced although it is there.
LEMMA TwiceProvided ==
    ASSUME LinkInv, NEW n \in Names, NEW m \in Replacing(n), \A k \in Done(n) : k # m,
           NEW p \in Places, Added(n, p)
    PROVE  Replacing(n) # {} /\ Cardinality(Replacing(n)) + Cardinality(Exporting(n)) > 1
  <1>1. IsFiniteSet(Replacing(n)) /\ IsFiniteSet(Exporting(n))
    <2>1. IsFiniteSet(Modules)
      BY LinkAssumption, FS_Interval DEF Modules
    <2>2. Replacing(n) \subseteq Modules /\ Exporting(n) \subseteq Modules
      BY DEF Replacing, Exporting
    <2> QED BY <2>1, <2>2, FS_Subset
  <1>2. Cardinality(Replacing(n)) \in Nat /\ Cardinality(Exporting(n)) \in Nat
    BY <1>1, FS_CardinalityType
  <1>3. Cardinality(Replacing(n)) # 0
    BY <1>1, FS_EmptySet
  <1>4. Provides(n, p, Done(n))
    BY DEF LinkInv, Symbols
  <1>5. CASE Exporting(n) # {}
    <2>1. Cardinality(Exporting(n)) # 0
      BY <1>1, <1>5, FS_EmptySet
    <2> QED BY <1>2, <1>3, <2>1
  <1>6. CASE Exporting(n) = {}
    <2>1. PICK k \in Done(n) : k # m
      BY <1>4, <1>6 DEF Provides
    <2>2. k \in Replacing(n)
      BY DEF Done
    <2>3. Cardinality({k, m}) = 2
      <3>1. IsFiniteSet({k}) /\ Cardinality({k}) = 1
        BY FS_Singleton
      <3>2. Cardinality({k} \cup {m}) = Cardinality({k}) + 1
        BY <2>1, <3>1, FS_AddElement
      <3>3. {k} \cup {m} = {k, m}
        OBVIOUS
      <3> QED BY <3>1, <3>2, <3>3
    <2>4. {k, m} \in SUBSET Replacing(n)
      BY <2>2
    <2>5. Cardinality({k, m}) <= Cardinality(Replacing(n))
      BY <1>1, <2>4, FS_Subset
    <2> QED BY <1>2, <2>3, <2>5
  <1> QED BY <1>5, <1>6

\* A symbol of n, and its first instruction, is diverted to the module's replacement.
LEMMA DivertKeeps ==
    ASSUME LinkInv, NEW n \in Names, Replaces(n), NEW m, m = module_index,
           NEW data \in Search_SymbolLookup(n), Divert(m, n, data)
    PROVE  LinkInv'
  <1> USE DEF LinkInv
  <1>1. /\ Done(n)' = Done(n) \cup {m} /\ \A k \in Names : k # n => Done(k)' = Done(k)
        /\ m \in Modules /\ m \in Nat \ {0} /\ m \in Replacing(n) /\ \A k \in Done(n) : k < m
    BY DoneAfter
  <1>2. data \in Places /\ data.name = n /\ (data = address[n] \/ Added(n, data))
    BY LookupFacts
  <1>3. PICK s : s = Stub(m, n) /\ s \in Places /\ s.name = n
    BY <1>1, PlaceFacts
  <1>4. /\ first' = [first EXCEPT ![s] = first[data], ![data] = Hook(m, n)]
        /\ behind' = [behind EXCEPT ![s] = behind[data]]
        /\ UNCHANGED search_module_symbols
    BY <1>3 DEF Divert
  <1>5. /\ kind[n] # "unknown" => SetAddress(n, s) /\ UNCHANGED result
        /\ kind[n] = "unknown" => result' = "error" /\ UNCHANGED address
    BY <1>3 DEF Divert, CanReplace
  <1>6. IF kind[n] = "found" THEN address' = [address EXCEPT ![n] = s] ELSE UNCHANGED address
    BY <1>5, PlaceFacts DEF Addresses, SetAddress
  <1>7. OnlyName(n)
    <2>1. DOMAIN first' = Places /\ DOMAIN behind' = Places /\ DOMAIN address' = Names
      BY <1>4, <1>6 DEF Typed
    <2>2. \A p \in Places : p.name # n => first'[p] = first[p] /\ behind'[p] = behind[p]
      BY <1>2, <1>3, <1>4 DEF Typed
    <2>3. \A k \in Names : k # n => address'[k] = address[k]
      BY <1>6 DEF Typed
    <2> QED BY <2>1, <2>2, <2>3 DEF OnlyName
  <1>8. /\ \A k : Replacing(k)' = Replacing(k) /\ Exporting(k)' = Exporting(k) /\ (Own(k)' <=> Own(k))
        /\ \A k : (Missing(k)' <=> Missing(k)) /\ (Unresolved(k)' <=> Unresolved(k))
    BY InputsCalm DEF Replaces
  <1>9. /\ UNCHANGED <<kind, entry, refs, module_index, link, has_error>> /\ result = "running"
        /\ result' # "success"
    BY <1>5 DEF Replaces, inputs
  <1>10. Typed'
    BY <1>1, <1>7, <1>9 DEF Typed, OnlyName
  <1>11. Bounds' /\ \A k \in Names : k # n /\ Own(k) => Chained(k, Done(k))'
    BY <1>7, ElsewhereCalm
  <1>12. Addresses'
    <2>1. address'[n] = IF kind[n] = "found" THEN s ELSE address[n]
      BY <1>6 DEF Typed
    <2> QED BY <1>3, <1>7, <1>9, <2>1 DEF Addresses, OnlyName
  <1>13. Chains'
    <2>1. ASSUME Own(n) PROVE Chained(n, Done(n))'
      <3>1. PICK D : D = Done(n) /\ D \subseteq Modules /\ D \cup {m} = Done(n)'
        BY <1>1, DoneFacts
      <3>2. data = address[n] /\ Chained(n, D)
        BY <2>1, <3>1, LookupFacts DEF Chains
      <3>3. address' = [address EXCEPT ![n] = s]
        BY <1>6, <2>1 DEF Own
      <3>4. \A k \in D : k < m
        BY <1>1, <3>1
      <3>5. DOMAIN address = Names /\ DOMAIN first = Places /\ DOMAIN behind = Places
        BY DEF Typed
      <3>6. Chained(n, D \cup {m})'
        BY <1>1, <1>3, <1>4, <3>1, <3>2, <3>3, <3>4, <3>5, ChainGrows
      <3> QED BY <3>1, <3>6
    <2> QED BY <1>8, <1>11, <2>1 DEF Chains
  <1>14. \A k, p : Added(k, p)' <=> Added(k, p)
    BY <1>4 DEF Added
  <1>15. Symbols'
    <2>1. \A k \in Names : \A p : Provides(k, p, Done(k)) => Provides(k, p, Done(k))'
      BY <1>1, <1>8, <1>9 DEF Provides
    <2> QED BY <1>8, <1>9, <1>14, <2>1 DEF Symbols
  <1>16. Replaced'
    <2>1. KnownName(n)'
      <3>1. CASE kind[n] = "found"
        BY <1>3, <1>6, <3>1, PlaceFacts DEF KnownName, Typed
      <3>2. CASE kind[n] # "found"
        <4>1. Added(n, data)
          BY <1>2, <3>2, PlaceFacts DEF Addresses
        <4> QED BY <1>2, <1>14, <4>1 DEF KnownName
      <3> QED BY <3>1, <3>2
    <2>2. ASSUME NEW k \in Names, k # n, KnownName(k) PROVE KnownName(k)'
      BY <1>7, <1>14, <2>2 DEF KnownName, OnlyName
    <2> QED BY <1>1, <1>9, <2>1, <2>2 DEF Replaced
  <1>17. ErrorSeen'
    BY <1>8, <1>9 DEF ErrorSeen
  <1>18. ErrorReason'
    <2>1. CASE kind[n] # "unknown"
      BY <1>5, <1>9, <2>1 DEF ErrorReason, Unresolved, ProvidedTwice
    <2>2. CASE kind[n] = "unknown"
      <3>1. Added(n, data)
        BY <1>2, <2>2, PlaceFacts DEF Addresses
      <3>2. \A k \in Done(n) : k # m
        BY <1>1
      <3>3. Replacing(n) # {} /\ Cardinality(Replacing(n)) + Cardinality(Exporting(n)) > 1
        BY <1>1, <1>2, <3>1, <3>2, TwiceProvided
      <3>4. /\ kind'[n] = "unknown" /\ Replacing(n)' # {}
            /\ Cardinality(Replacing(n)') + Cardinality(Exporting(n)') > 1
        BY <1>8, <1>9, <2>2, <3>3
      <3> QED BY <3>4 DEF ErrorReason, Unresolved, ProvidedTwice
    <2> QED BY <2>1, <2>2
  <1> QED BY <1>10, <1>11, <1>12, <1>13, <1>15, <1>16, <1>17, <1>18

\* A function that is missing is made up.
LEMMA MakeUpKeeps ==
    ASSUME LinkInv, NEW n \in Names, Replaces(n), NEW m, m = module_index,
           Search_SymbolLookup(n) = {}, MakeUp(m, n)
    PROVE  LinkInv'
  <1> USE DEF LinkInv
  <1>1. /\ Done(n)' = Done(n) \cup {m} /\ \A k \in Names : k # n => Done(k)' = Done(k)
        /\ m \in Modules /\ m \in Nat \ {0} /\ \A k \in Done(n) : k < m
    BY DoneAfter
  <1>2. PICK s : s = Stub(m, n) /\ s \in Places /\ s.name = n
    BY <1>1, PlaceFacts
  <1>3. /\ first' = [first EXCEPT ![s] = s] /\ search_module_symbols' = search_module_symbols \cup {<<n, s>>}
        /\ UNCHANGED <<behind, address, result>>
    BY <1>2 DEF MakeUp
  <1>4. OnlyName(n)
    <2>1. DOMAIN first' = Places /\ DOMAIN behind' = Places /\ DOMAIN address' = Names
      BY <1>3 DEF Typed
    <2>2. \A p \in Places : p.name # n => first'[p] = first[p]
      BY <1>2, <1>3 DEF Typed
    <2> QED BY <1>3, <2>1, <2>2 DEF OnlyName
  <1>5. kind[n] # "found" /\ ~Own(n)
    <2>1. Missing(n)
      BY <1>1, NothingFound
    <2> QED BY <2>1 DEF Missing, Own
  <1>6. /\ \A k : Replacing(k)' = Replacing(k) /\ Exporting(k)' = Exporting(k) /\ (Own(k)' <=> Own(k))
        /\ \A k : (Missing(k)' <=> Missing(k)) /\ (Unresolved(k)' <=> Unresolved(k))
    BY InputsCalm DEF Replaces
  <1>7. UNCHANGED <<kind, entry, refs, module_index, link, has_error>> /\ result = "running"
    BY DEF Replaces, inputs
  <1>8. Typed'
    BY <1>1, <1>3, <1>4, <1>7 DEF Typed, OnlyName
  <1>9. Bounds' /\ \A k \in Names : k # n /\ Own(k) => Chained(k, Done(k))'
    BY <1>4, ElsewhereCalm
  <1>10. Chains'
    BY <1>5, <1>6, <1>9 DEF Chains
  <1>11. Addresses'
    BY <1>3, <1>7 DEF Addresses
  <1>12. \A k, p : Added(k, p)' <=> Added(k, p) \/ (k = n /\ p = s)
    BY <1>3 DEF Added
  <1>13. Symbols'
    <2>1. \A k \in Names : \A p : Provides(k, p, Done(k)) => Provides(k, p, Done(k))'
      BY <1>1, <1>6, <1>7 DEF Provides
    <2>2. Provides(n, s, Done(n))'
      BY <1>1, <1>2, <1>5, <1>7 DEF Provides
    <2> QED BY <1>6, <1>7, <1>12, <2>1, <2>2 DEF Symbols
  <1>14. Replaced'
    <2>1. KnownName(n)'
      BY <1>2, <1>12 DEF KnownName
    <2>2. ASSUME NEW k \in Names, k # n, KnownName(k) PROVE KnownName(k)'
      BY <1>3, <1>12, <2>2 DEF KnownName
    <2> QED BY <1>1, <1>7, <2>1, <2>2 DEF Replaced
  <1>15. ErrorSeen' /\ ErrorReason'
    <2>1. UNCHANGED <<inputs, has_error, result>>
      BY <1>3 DEF Replaces
    <2> QED BY <2>1, ReasonsCalm
  <1> QED BY <1>8, <1>9, <1>10, <1>11, <1>13, <1>14, <1>15

\* A function that must be replaced is missing.
LEMMA FailKeeps ==
    ASSUME LinkInv, NEW n \in Names, Replaces(n), NEW m, m = module_index,
           Search_SymbolLookup(n) = {}, entry[m][n] = "MUST", result' = "error",
           UNCHANGED <<search_module_symbols, address, first, behind>>
    PROVE  LinkInv'
  <1> USE DEF LinkInv
  <1>1. /\ Done(n)' = Done(n) \cup {m} /\ \A k \in Names : k # n => Done(k)' = Done(k)
        /\ m \in Modules /\ m \in Nat \ {0} /\ \A k \in Done(n) : k < m
    BY DoneAfter
  <1>2. OnlyName(n)
    BY DEF OnlyName, Typed
  <1>3. Missing(n) /\ ~Own(n)
    <2>1. Missing(n)
      BY <1>1, NothingFound
    <2> QED BY <2>1 DEF Missing, Own
  <1>4. /\ \A k : Replacing(k)' = Replacing(k) /\ Exporting(k)' = Exporting(k) /\ (Own(k)' <=> Own(k))
        /\ \A k : (Missing(k)' <=> Missing(k)) /\ (Unresolved(k)' <=> Unresolved(k))
    BY InputsCalm DEF Replaces
  <1>5. UNCHANGED <<kind, entry, refs, module_index, link, has_error>>
    BY DEF Replaces, inputs
  <1>6. Typed'
    BY <1>1, <1>5 DEF Typed
  <1>7. Bounds' /\ \A k \in Names : k # n /\ Own(k) => Chained(k, Done(k))'
    BY <1>2, ElsewhereCalm
  <1>8. Chains'
    BY <1>3, <1>4, <1>7 DEF Chains
  <1>9. Addresses'
    BY <1>5 DEF Addresses
  <1>10. Symbols'
    <2>1. \A k \in Names : \A p : Provides(k, p, Done(k)) => Provides(k, p, Done(k))'
      BY <1>1, <1>4, <1>5 DEF Provides
    <2>2. \A k, p : Added(k, p)' <=> Added(k, p)
      BY DEF Added
    <2> QED BY <1>4, <1>5, <2>1, <2>2 DEF Symbols
  <1>11. Replaced'
    BY DEF Replaced
  <1>12. ErrorSeen'
    BY <1>4, <1>5 DEF ErrorSeen
  <1>13. ErrorReason'
    <2>1. Missing(n)' /\ entry'[m][n] = "MUST"
      BY <1>3, <1>4, <1>5
    <2> QED BY <1>1, <2>1 DEF ErrorReason, Unresolved, ProvidedTwice
  <1> QED BY <1>6, <1>7, <1>8, <1>9, <1>10, <1>11, <1>12, <1>13

\* Whatever becomes of a replacement.
LEMMA ReplaceKeeps ==
    ASSUME LinkInv, NEW n \in Names, ReplaceFunction(n)
    PROVE  LinkInv'
  <1>1. PICK m : m = module_index
    OBVIOUS
  <1>2. Replaces(n)
    BY DEF ReplaceFunction, Replaces
  <1>3. \/ \E data \in Search_SymbolLookup(n) : Divert(m, n, data)
        \/ /\ Search_SymbolLookup(n) = {}
           /\ \/ MakeUp(m, n)
              \/ /\ entry[m][n] = "MUST" /\ result' = "error"
                 /\ UNCHANGED <<search_module_symbols, address, first, behind>>
    BY <1>1 DEF ReplaceFunction
  <1>4. ASSUME NEW data \in Search_SymbolLookup(n), Divert(m, n, data) PROVE LinkInv'
    BY <1>1, <1>2, <1>4, DivertKeeps
  <1>5. ASSUME Search_SymbolLookup(n) = {}, MakeUp(m, n) PROVE LinkInv'
    BY <1>1, <1>2, <1>5, MakeUpKeeps
  <1>6. ASSUME Search_SymbolLookup(n) = {}, entry[m][n] = "MUST", result' = "error",
               UNCHANGED <<search_module_symbols, address, first, behind>>
        PROVE  LinkInv'
    BY <1>1, <1>2, <1>6, FailKeeps
  <1> QED BY <1>3, <1>4, <1>5, <1>6

-----------------------------------------------------------------------------
(* The theorems. *)

\* The invariant holds before linking: no replacement is done.
LEMMA LinkInvInit ==
    ASSUME LinkInit
    PROVE  LinkInv
  <1> USE DEF LinkInit
  <1>1. \A k \in Modules : ~(k < 0) /\ k # 0
    BY LinkAssumption DEF Modules
  <1>2. \A n : Done(n) = {}
    BY <1>1 DEF Done, Replacing
  <1>3. Typed
    BY DEF Typed
  <1>4. Symbols
    BY DEF Symbols, Added
  <1>5. Addresses
    BY PlaceFacts DEF Addresses
  <1>6. ASSUME NEW n \in Names, Own(n) PROVE Chained(n, Done(n))
    <2>1. Game(n) \in Places /\ Tip(0, n) = Game(n)
      BY PlaceFacts DEF Tip
    <2>2. address[n] = Game(n) /\ first[Game(n)] = Plain /\ behind[Game(n)] = Game(n)
      BY <1>6, <2>1 DEF Own
    <2>3. LastDone(0, {}) /\ \A l, k : ~Follows(l, k, {})
      BY DEF LastDone, Follows
    <2>4. Chained(n, {})
      BY <2>1, <2>2, <2>3 DEF Chained
    <2> QED BY <1>2, <2>4
  <1>7. Chains
    BY <1>6 DEF Chains
  <1>8. Bounds
    BY <1>1 DEF Bounds
  <1>9. Replaced /\ ErrorSeen /\ ErrorReason
    BY <1>2 DEF Replaced, ErrorSeen, ErrorReason, Unresolved, ProvidedTwice
  <1> QED BY <1>3, <1>4, <1>5, <1>7, <1>8, <1>9 DEF LinkInv

\* A step that changes nothing.
LEMMA LinkStutters ==
    ASSUME LinkInv, UNCHANGED linkVars
    PROVE  LinkInv'
  <1> USE DEF LinkInv
  <1>1. UNCHANGED <<inputs, module_index, replaced, search_module_symbols, address, first, behind, link,
                    has_error, result, kind, entry, refs>>
    BY DEF linkVars, inputs
  <1>2. /\ \A n : Replacing(n)' = Replacing(n) /\ Exporting(n)' = Exporting(n) /\ (Own(n)' <=> Own(n))
    BY <1>1, InputsCalm
  <1>3. \A n : Done(n)' = Done(n)
    BY <1>1, <1>2 DEF Done
  <1>4. Typed'
    BY <1>1 DEF Typed
  <1>5. Chains' /\ Addresses'
    BY <1>1, <1>3, ChainsCalm
  <1>6. \A n, p : (Added(n, p)' <=> Added(n, p)) /\ (Provides(n, p, Done(n)) => Provides(n, p, Done(n))')
    BY <1>1, <1>2, <1>3 DEF Added, Provides
  <1>7. Symbols'
    BY <1>1, <1>2, <1>6 DEF Symbols
  <1>8. \A j, n : Bound(j, n, Done(n)) => Bound(j, n, Done(n))'
    BY <1>1, <1>3 DEF Bound
  <1>9. Bounds'
    BY <1>1, <1>2, <1>8 DEF Bounds
  <1>10. Replaced'
    BY <1>1, <1>3, <1>6 DEF Replaced, KnownName
  <1>11. ErrorReason' /\ ErrorSeen'
    BY <1>1, ReasonsCalm
  <1> QED BY <1>4, <1>5, <1>7, <1>9, <1>10, <1>11

(***************************************************************************)
(* While the modules are linked, the replacements of a function that are   *)
(* done form a chain from the game's function, in the order of the         *)
(* modules, and the symbol refers to its end.                              *)
(***************************************************************************)
THEOREM LinkInvariant == LinkSpec => []LinkInv
  <1>1. LinkInit => LinkInv
    BY LinkInvInit
  <1>2. LinkInv /\ [LinkNext]_linkVars => LinkInv'
    <2> SUFFICES ASSUME LinkInv, [LinkNext]_linkVars PROVE LinkInv'
      OBVIOUS
    <2>1. CASE Module_ListLoadSymbols
      BY <2>1, LoadKeeps
    <2>2. ASSUME NEW n \in Names, ReplaceFunction(n) PROVE LinkInv'
      BY <2>2, ReplaceKeeps
    <2>3. CASE ResolveRelocations
      BY <2>3, ResolvingKeeps
    <2>4. CASE Finish
      BY <2>4, FinishKeeps
    <2>5. CASE UNCHANGED linkVars
      BY <2>5, LinkStutters
    <2> QED BY <2>1, <2>2, <2>3, <2>4, <2>5 DEF LinkNext
  <1> QED BY <1>1, <1>2, PTL DEF LinkSpec

(***************************************************************************)
(* When no two modules provide one function that is in no symbol file,     *)
(* linking fails only when a function that must be replaced or that is     *)
(* called is missing: the last stage has no other way to fail.             *)
(***************************************************************************)
THEOREM LinkErrorJustified == LinkSpec => []ErrorJustified
  <1>1. LinkInv => ErrorJustified
    BY DEF LinkInv, ErrorReason, ErrorJustified, Unavailable, Unresolved
  <1> QED BY <1>1, LinkInvariant, PTL

\* The least number of a set is what Min finds.
LEMMA MinOf ==
    ASSUME NEW T, T \subseteq Nat, T # {}
    PROVE  Min(T) \in T /\ \A y \in T : Min(T) <= y
  <1>1. PICK x \in T : \A y \in T : x <= y
    BY LeastOf
  <1> QED BY <1>1 DEF Min

(***************************************************************************)
(* A branch to the end of the replacements up to module m gets to the      *)
(* first replacement after it, or to the game's own code.                  *)
(***************************************************************************)
LEMMA EntersNext ==
    ASSUME NEW n \in Names, NEW D, D = Replacing(n), Chained(n, D), NEW m \in Nat,
           NEW l \in D \cup {0}, l <= m, \A k \in D : k <= m => k <= l
    PROVE  Enter(Tip(l, n)) = From(m + 1, n)
  <1>1. D \subseteq Modules /\ Modules \subseteq Nat \ {0}
    BY LinkAssumption DEF Replacing, Modules
  <1>2. l \in Nat /\ \A k \in D : k \in Nat /\ (l < k <=> k >= m + 1)
    BY <1>1
  <1> DEFINE T == {k \in D : k >= m + 1}
  <1>3. T = {k \in D : k >= m + 1} /\ T \subseteq Nat
    BY <1>2
  <1>4. From(m + 1, n) = IF T # {} THEN Hook(Min(T), n) ELSE Game(n)
    BY DEF From
  <1> HIDE DEF T
  <1>5. CASE T # {}
    <2>1. PICK k : k = Min(T) /\ k \in T /\ \A j \in T : k <= j
      BY <1>3, <1>5, MinOf
    <2>2. Follows(l, k, D)
      BY <1>2, <1>3, <2>1 DEF Follows
    <2>3. first[Tip(l, n)] = Hook(k, n)
      BY <2>2 DEF Chained
    <2>4. Hook(k, n) # Plain
      BY <1>1, <1>3, <2>1, PlaceFacts
    <2> QED BY <1>4, <1>5, <2>1, <2>3, <2>4 DEF Enter
  <1>6. CASE T = {}
    <2>1. PICK e : LastDone(e, D) /\ first[Tip(e, n)] = Plain /\ behind[Tip(e, n)] = Game(n)
      BY DEF Chained
    <2>2. e \in D \cup {0} /\ \A j \in D : j <= e
      BY <2>1 DEF LastDone
    <2>3. \A k \in D : ~(l < k)
      BY <1>2, <1>3, <1>6
    <2>4. e \in Nat /\ l <= e /\ e <= l
      BY <1>2, <2>2, <2>3
    <2>5. e = l
      BY <1>2, <2>4
    <2> QED BY <1>4, <1>6, <2>1, <2>5 DEF Enter
  <1> QED BY <1>5, <1>6

(***************************************************************************)
(* Once linking has succeeded, a function of the game that several modules *)
(* replace runs their replacements one after the other and then the game's *)
(* code, however many modules there are: no replacement is lost, and none  *)
(* calls itself.                                                           *)
(***************************************************************************)
THEOREM LinkCalledInOrder == LinkSpec => []CalledInOrder
  <1>1. LinkInv => CalledInOrder
    <2> SUFFICES ASSUME LinkInv, result = "success", NEW n \in Names, Own(n)
                 PROVE  /\ Enter(Game(n)) = From(1, n)
                        /\ \A m \in Modules : n \in refs[m] => Enter(link[m][n]) = From(m + 1, n)
      BY DEF CalledInOrder, Own
    <2> USE DEF LinkInv
    <2>1. module_index > 0 /\ module_index \in Nat /\ \A m \in Modules : m < module_index /\ m \in Nat
      BY LinkAssumption DEF Typed, Modules
    <2>2. PICK D : D = Replacing(n) /\ D = Done(n) /\ D \subseteq Modules /\ Chained(n, D)
      <3>1. Replacing(n) \subseteq Modules
        BY DEF Replacing
      <3>2. Done(n) = Replacing(n)
        BY <2>1, <3>1 DEF Done
      <3> QED BY <3>1, <3>2 DEF Chains
    <2>3. Enter(Game(n)) = From(1, n)
      <3>1. \A k \in D : ~(k <= 0)
        BY <2>2, LinkAssumption DEF Modules
      <3>2. PICK z : z = 0 /\ z \in Nat /\ z \in D \cup {0} /\ z <= z /\ z + 1 = 1
        OBVIOUS
      <3>3. Enter(Tip(z, n)) = From(z + 1, n)
        BY <2>2, <3>1, <3>2, EntersNext
      <3> QED BY <3>2, <3>3 DEF Tip
    <2>4. ASSUME NEW m \in Modules, n \in refs[m] PROVE Enter(link[m][n]) = From(m + 1, n)
      <3>1. Bound(m, n, D)
        BY <2>1, <2>2, <2>4 DEF Bounds
      <3>2. PICK l \in D \cup {0} : l <= m /\ (\A k \in D : k <= m => k <= l) /\ link[m][n] = Tip(l, n)
        BY <3>1 DEF Bound
      <3>3. Enter(Tip(l, n)) = From(m + 1, n)
        BY <2>1, <2>2, <3>2, EntersNext
      <3> QED BY <3>2, <3>3
    <2> QED BY <2>3, <2>4
  <1> QED BY <1>1, LinkInvariant, PTL
=============================================================================
