---------------------------- MODULE CpufreqInit ----------------------------
(***************************************************************************)
(* seeker_cpufreq_init calls init_freqs twice, on the same parameter and   *)
(* the same tables.                                                        *)
(***************************************************************************)
EXTENDS FreqTable, Functions

VARIABLES
    raws,       \* of each cpu: the driver's table
    given,      \* allowed_states as the user gave it
    freq,       \* info of each cpu, allowed_states and its length, hung
    calls       \* the calls of init_freqs made

tables == <<raws, given, freq, calls>>

Cpu == 0 .. OnlineCpus - 1

(* The parameter before init_freqs: entries not given are 0.               *)
Start(list) ==
    [info |-> [c \in Cpu |-> Blank],
     allowed |-> [i \in Slots |-> IF i < Len(list) THEN list[i + 1] ELSE 0],
     length |-> Len(list), hung |-> FALSE]

(* Drivers give tables in any order; module_param_array takes no more      *)
(* entries than there are.                                                 *)
Raws == [Cpu -> Seq(Nat)]
Lists == {l \in Seq(Int) : Len(l) <= MaxStates}

TableInit(R, L) ==
    /\ raws \in R /\ given \in L
    /\ freq = Start(given) /\ calls = 0

InitFreqs ==
    /\ calls < 2 /\ ~freq.hung
    /\ freq' = init_freqs(raws, freq) /\ calls' = calls + 1
    /\ UNCHANGED <<raws, given>>

TableSpec == TableInit(Raws, Lists) /\ [][InitFreqs]_tables

-----------------------------------------------------------------------------
CountBelow(S, x) == Cardinality({y \in S : y < x})

(* The frequencies there is room for.                                      *)
Valid(raw) == {i \in DOMAIN raw : raw[i] # Invalid}
Fits(raw) == {i \in Valid(raw) : CountBelow(Valid(raw), i) < MaxStates}
Kept(raw) == {raw[i] : i \in Fits(raw)}

(* The states of a cpu go from the slowest frequency to the fastest.       *)
Ascending ==
    calls > 0 /\ ~freq.hung =>
        \A c \in DOMAIN raws : \A i \in 1 .. freq.info[c].num - 1 :
            freq.info[c].table[i - 1] <= freq.info[c].table[i]

(* A list of different states of every cpu that includes state 0, each     *)
(* cpu with different frequencies.                                         *)
ProperList ==
    /\ 0 \in Range(given) /\ IsInjective(given)
    /\ \A c \in DOMAIN raws :
           /\ \A i, j \in Valid(raws[c]) : raws[c][i] = raws[c][j] => i = j
           /\ \A v \in Range(given) : 0 <= v /\ v < Cardinality(Kept(raws[c]))

(* The state of a frequency is how many are slower.                        *)
StateOf(raw, f) == CountBelow(Kept(raw), f)

(* The frequencies of the states given, and of those above all of them.    *)
Asked(raw) == {f \in Kept(raw) : StateOf(raw, f) \in Range(given)}
Above(raw) == {f \in Kept(raw) : \A v \in Range(given) : v < StateOf(raw, f)}

(* The frequencies a cpu can be put to.                                    *)
Used(c) == {freq.info[c].table[i] : i \in 0 .. freq.info[c].num - 1}

(* init_freqs ends, and takes away from each cpu the states below the      *)
(* highest allowed one that are not allowed, and no other: the allowed     *)
(* ones come first, in order, then all states above them, which the loop   *)
(* over the length of the list leaves.  It holds for each cpu and after    *)
(* both calls, although the parameter, the marks and the table are changed *)
(* in place.  Whatever the list, and however the driver orders its table,  *)
(* the states ascend.                                                      *)
PrunedAsAllowed ==
    /\ Ascending
    /\ ProperList /\ calls > 0 =>
        /\ ~freq.hung /\ freq.length = Len(given)
        /\ \A c \in DOMAIN raws :
            /\ \A i, j \in 0 .. freq.info[c].num - 1 :
                   i < j => freq.info[c].table[i] < freq.info[c].table[j]
            /\ Used(c) = Asked(raws[c]) \cup Above(raws[c])

(* "from there on, it internally will transition only to these states":    *)
(* the frequencies of a cpu are those of the states given, no other.       *)
OnlyAllowed ==
    ProperList /\ calls > 0 => \A c \in DOMAIN raws : Used(c) = Asked(raws[c])
=============================================================================
