------------------------------- MODULE Search -------------------------------
(***************************************************************************)
(* The search for the game's functions: symbols are read from files        *)
(* (src/search/symbol.c), each is turned into a state machine, the         *)
(* machines are merged into one (src/search/fsm.c), and that one goes over *)
(* the game once and reports every place where a symbol's bytes are        *)
(* (src/search/search.c).                                                  *)
(*                                                                         *)
(* A byte is two nibbles.  A symbol's bytes are nibbles, or AnyBits where  *)
(* the file has "?" or a relocation changes the game's code.               *)
(***************************************************************************)
EXTENDS Integers, Sequences, FiniteSets, SequencesExt

CONSTANTS
    Nibbles,            \* the number of values of a nibble
    Patterns,           \* bound: the bytes a symbol may have
    MaxData,            \* bound: bytes of a symbol
    Shapes,             \* bound: the offset of a symbol's data, how far it goes on behind, relocations
    MaxSymbols,         \* bound: symbols
    MaxTotal,           \* bound: bytes of all symbols
    MaxGame             \* bound: bytes of the game

AnyBits == -1
Nibble == 0 .. Nibbles - 1
AnyNibble == Nibble \cup {AnyBits}

ASSUME SearchAssumption ==
    /\ Nibbles \in Nat \ {0}
    /\ Patterns \subseteq AnyNibble \X AnyNibble
    /\ MaxData \in Nat /\ MaxSymbols \in Nat /\ MaxTotal \in Nat /\ MaxGame \in Nat
    /\ \A shape \in Shapes : shape[1] \in Nat /\ shape[2] \in Nat /\ shape[3] \subseteq Nat

VARIABLES
    stage,
    symbols,            \* symbol_globals
    search_fsm,
    built,              \* the symbols in search_fsm
    game,               \* the bytes that have been gone over
    state,              \* the machine's node
    globals             \* search_symbol_globals

searchVars == <<stage, symbols, search_fsm, built, game, state, globals>>

NULL == 0
apploader_app0_start == 16

-----------------------------------------------------------------------------
(* Reading the symbol files *)

SearchInit ==
    /\ stage = "load" /\ symbols = << >>
    /\ search_fsm = NULL /\ built = {}
    /\ game = << >> /\ state = NULL /\ globals = << >>

\* The bytes of a symbol that starts offset bytes into the function, with the relocated ones masked.
Masked(data, offset, relocs) ==
    [i \in DOMAIN data |-> IF offset + i - 1 \in relocs THEN <<AnyBits, AnyBits>> ELSE data[i]]

\* What the list keeps of an element that is given up, or of one that never was read.
Unread == [data |-> << >>, size |-> 0, offset |-> 0]

(***************************************************************************)
(* An element of Symbol_ParseFile.  One without a name is skipped.  One    *)
(* that is malformed is in the list already when it is given up; what its  *)
(* data are then is never written, here there are none.  A relocation that *)
(* does not end within the symbol's size is ignored, as is one before its  *)
(* data.  The offset is kept as that of the data's end.                    *)
(***************************************************************************)
Symbol_ParseFile(element, data, shape) ==
    LET offset == shape[1]
        size == offset + Len(data) + shape[2]
    IN  /\ stage = "load"
        /\ symbols' = CASE element = "unnamed" -> symbols
                        [] element = "malformed" -> Append(symbols, Unread)
                        [] OTHER -> Append(symbols, [data |-> Masked(data, offset, {r \in shape[3] : r + 1 <= size}),
                                                     size |-> size, offset |-> offset + Len(data)])
        /\ UNCHANGED <<stage, search_fsm, built, game, state, globals>>

data_size(s) == Len(symbols[s].data)

\* Symbol_GetSymbolSize: the symbols in the order of their sizes, equal ones as qsort leaves them.
BySize == {s \in DOMAIN symbols \ built : \A t \in DOMAIN symbols \ built : data_size(s) <= data_size(t)}

-----------------------------------------------------------------------------
(* FSM_Create *)

Matches(want, j) == want \in {AnyBits, j}

Node == [symbol |-> NULL, to |-> [j \in Nibble |-> NULL], next |-> NULL]

\* The next node of the machine and the queue it is built with.
AllocNode(m, fallback) ==
    [m EXCEPT !.nodes = Append(@, Node),
              !.queue = Append(@, [node |-> Len(m.nodes) + 1, fallback |-> fallback])]

(***************************************************************************)
(* One nibble of the symbol: every node of the queue goes on to a node of  *)
(* the next queue where the nibble fits, one for each node that a later    *)
(* start would have led to, and to that node where it does not.  Before    *)
(* the first byte is over there is no later start.                         *)
(***************************************************************************)
Level(fsm, queue, want, first, high) ==
    LET Fall(m, at, j) == IF ~first THEN m.nodes[at.fallback].to[j]
                          ELSE IF high THEN NULL ELSE fsm.initial
        Step(m, pair) ==
            LET at == queue[pair[1]]
                j == pair[2]
                fall == Fall(m, at, j)
                known == {k \in DOMAIN m.queue : m.queue[k].fallback = fall}
                more == IF known = {} THEN AllocNode(m, fall) ELSE m
                next == more.queue[IF known = {} THEN Len(more.queue) ELSE CHOOSE k \in known : TRUE].node
            IN  IF Matches(want, j) THEN [more EXCEPT !.nodes[at.node].to[j] = next]
                ELSE IF first /\ high THEN m
                ELSE [m EXCEPT !.nodes[at.node].to[j] = fall]
        pairs == [x \in 1 .. Len(queue) * Nibbles |-> <<1 + (x - 1) \div Nibbles, (x - 1) % Nibbles>>]
    IN  FoldLeft(Step, [nodes |-> fsm.nodes, queue |-> << >>], pairs)

\* The start, with a node that skips a low nibble if a high nibble may not fit.
Start(data) ==
    LET all(n) == [j \in Nibble |-> n]
    IN  IF data[1][1] = AnyBits THEN [initial |-> 1, nodes |-> <<Node>>]
        ELSE [initial |-> 2, nodes |-> <<[Node EXCEPT !.to = all(2)], [Node EXCEPT !.to = all(1)]>>]

\* A node that is reached when the whole symbol has been read reports it and goes on as its fallback.
FSM_Create(symbol) ==
    LET data == symbols[symbol].data
        Byte(m, i) ==
            LET high == Level(m.fsm, m.queue, data[i][1], i = 1, TRUE)
                low == Level([m.fsm EXCEPT !.nodes = high.nodes], high.queue, data[i][2], i = 1, FALSE)
            IN  [fsm |-> [m.fsm EXCEPT !.nodes = low.nodes], queue |-> low.queue]
        start == Start(data)
        m == FoldLeft(Byte, [fsm |-> start, queue |-> <<[node |-> start.initial, fallback |-> NULL]>>],
                      [i \in DOMAIN data |-> i])
        Final(nodes, at) == [nodes EXCEPT ![at.node].symbol = symbol, ![at.node].next = at.fallback]
    IN  [m.fsm EXCEPT !.nodes = FoldLeft(Final, @, m.queue)]

-----------------------------------------------------------------------------
(* FSM_Merge, FSM_Free and FSM_Run *)

\* Mutant: a node at which both machines report is merged as one that reports the left symbol only.
Merged_LeftOnly(left, right, pair) ==
    LET l == left.nodes[pair[1]]
        r == right.nodes[pair[2]]
    IN  IF l.symbol # NULL
        THEN [Node EXCEPT !.symbol = l.symbol,
                          !.next = <<l.next, IF r.symbol # NULL THEN r.next ELSE pair[2]>>]
        ELSE IF r.symbol # NULL THEN [Node EXCEPT !.symbol = r.symbol, !.next = <<pair[1], r.next>>]
        ELSE [Node EXCEPT !.to = [j \in Nibble |-> <<l.to[j], r.to[j]>>]]

\* FSM_BuildMergeNode for the pair of a left and a right node.
Merged(left, right, pair) ==
    LET l == left.nodes[pair[1]]
        r == right.nodes[pair[2]]
    IN  IF l.symbol # NULL THEN [Node EXCEPT !.symbol = l.symbol, !.next = <<l.next, pair[2]>>]
        ELSE IF r.symbol # NULL THEN [Node EXCEPT !.symbol = r.symbol, !.next = <<pair[1], r.next>>]
        ELSE [Node EXCEPT !.to = [j \in Nibble |-> <<l.to[j], r.to[j]>>]]

Successors(node) == IF node.symbol # NULL THEN {node.next} ELSE {node.to[j] : j \in Nibble}

\* The nodes that are found from those of S.
RECURSIVE Found(_, _)
Found(S, nodes) ==
    LET T == S \cup UNION {Successors(nodes[n]) : n \in S}
    IN  IF T = S THEN S ELSE Found(T, nodes)

\* The pairs of nodes that can be met are the nodes of the merged machine.
FSM_Merge(left, right) ==
    LET initial == <<left.initial, right.initial>>
        node_index == [p \in (DOMAIN left.nodes) \X (DOMAIN right.nodes) |-> Merged(left, right, p)]
    IN  [initial |-> initial, nodes |-> Restrict(node_index, Found({initial}, node_index))]

\* One symbol more in Search_BuildFSM.
BuildFSM ==
    /\ stage \in {"load", "build"}
    /\ \E s \in BySize :
        /\ data_size(s) > 0
        /\ \E fsm \in {FSM_Create(s)} :
                search_fsm' = IF built = {} THEN fsm ELSE FSM_Merge(search_fsm, fsm)
        /\ built' = built \cup {s}
    /\ stage' = "build"
    /\ UNCHANGED <<symbols, game, state, globals>>

\* An assertion of FSM_Create stops the program at a symbol without data.
AbortBuild ==
    /\ stage \in {"load", "build"}
    /\ \E s \in BySize : data_size(s) = 0
    /\ stage' = "aborted"
    /\ UNCHANGED <<symbols, search_fsm, built, game, state, globals>>

\* Search_Main clears the results and starts FSM_Run.
StartRun ==
    /\ stage = "build" /\ built = DOMAIN symbols
    /\ stage' = "run" /\ state' = search_fsm.initial
    /\ globals' = [s \in DOMAIN symbols |-> [address |-> NULL, search_fail |-> FALSE]]
    /\ UNCHANGED <<symbols, search_fsm, built, game>>

\* Search_SymbolMatch: a symbol that is there twice is ambiguous unless it is wholly known.
SymbolMatch(g, s, address) ==
    LET whole == data_size(s) = symbols[s].size
                 /\ \A i \in DOMAIN symbols[s].data : AnyBits \notin {symbols[s].data[i][1], symbols[s].data[i][2]}
    IN  IF g[s].address = NULL THEN [g EXCEPT ![s].address = address]
        ELSE IF whole THEN g ELSE [g EXCEPT ![s].search_fail = TRUE]

\* The reports at a node and the node behind them.
Epsilons(n, g) ==
    LET Step(m, i) ==
            LET node == search_fsm.nodes[m.n]
            IN  IF node.symbol = NULL THEN m
                ELSE [n |-> node.next,
                      g |-> SymbolMatch(m.g, node.symbol, apploader_app0_start + Len(game) - symbols[node.symbol].offset)]
    IN  FoldLeft(Step, [n |-> n, g |-> g], [i \in 1 .. Len(symbols) * (MaxData + 1) |-> i])

\* FSM_Run goes over the next byte of the game.
RunByte(byte) ==
    /\ stage = "run" /\ Len(game) < MaxGame
    /\ \E eps \in {Epsilons(state, globals)} :
        /\ globals' = eps.g
        /\ state' = search_fsm.nodes[search_fsm.nodes[eps.n].to[byte[1]]].to[byte[2]]
    /\ game' = Append(game, byte)
    /\ UNCHANGED <<stage, symbols, search_fsm, built>>

\* The end of FSM_Run, and FSM_Free.
EndRun ==
    /\ stage = "run"
    /\ globals' = Epsilons(state, globals).g
    /\ stage' = "done" /\ search_fsm' = NULL /\ state' = NULL
    /\ UNCHANGED <<symbols, built, game>>

TotalData == FoldLeft(LAMBDA n, symbol : n + Len(symbol.data), 0, symbols)

\* A symbol of the files, within the bounds.
LoadSymbol ==
    /\ Len(symbols) < MaxSymbols
    /\ \E k \in 0 .. MaxData, shape \in Shapes, element \in {"read", "unnamed", "malformed"} :
        /\ TotalData + k <= MaxTotal
        /\ \E data \in [1 .. k -> Patterns] : Symbol_ParseFile(element, data, shape)

SearchNext ==
    \/ LoadSymbol
    \/ BuildFSM
    \/ AbortBuild
    \/ StartRun
    \/ \E byte \in Nibble \X Nibble : RunByte(byte)
    \/ EndRun

SearchSpec == SearchInit /\ [][SearchNext]_searchVars

-----------------------------------------------------------------------------
(* Properties *)

\* The symbol's bytes end behind the first e bytes of the game.
EndsAt(s, e) ==
    LET data == symbols[s].data
    IN  /\ e >= Len(data)
        /\ \A i \in DOMAIN data : \A k \in {1, 2} : Matches(data[i][k], game[e - Len(data) + i][k])

Ends(s) == {e \in 1 .. Len(game) : EndsAt(s, e)}

(***************************************************************************)
(* The one pass over the game finds what looking for each symbol at every  *)
(* place finds: the first place, and whether there are more and they make  *)
(* the symbol ambiguous.                                                   *)
(***************************************************************************)
SearchExact ==
    stage = "done" =>
        \A s \in DOMAIN symbols :
            IF Ends(s) = {} THEN globals[s].address = NULL
            ELSE LET first == CHOOSE e \in Ends(s) : \A d \in Ends(s) : e <= d
                 IN  /\ globals[s].address = apploader_app0_start + first - symbols[s].offset
                     /\ globals[s].search_fail <=>
                            /\ Cardinality(Ends(s)) > 1
                            /\ \/ data_size(s) # symbols[s].size
                               \/ \E i \in DOMAIN symbols[s].data : AnyBits \in Range(symbols[s].data[i])
=============================================================================
