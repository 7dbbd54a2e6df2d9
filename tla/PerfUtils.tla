----------------------------- MODULE PerfUtils ------------------------------
(***************************************************************************)
(* translate() of libs/PerfUtils.cpp, from the names of events to the      *)
(* codes the kernel is asked for, in the form that is built: no build file *)
(* defines HAVE_LIBPFM.  Meaning is the kernel's side of it, from          *)
(* linux/perf_event.h: what is counted for a code.                         *)
(***************************************************************************)
EXTENDS Integers

Code(type, config) == [type |-> type, config |-> config]

Hardware == 0
Software == 1
HwCache  == 3

\* The entries of configmap.
ConfigMap ==
  {<<"cycles", Code(Hardware, 0)>>,
   <<"instructions", Code(Hardware, 1)>>,
   <<"cache-misses", Code(HwCache, 3)>>,
   <<"branch-misses", Code(Hardware, 5)>>,
   <<"backend-stall-cycles", Code(Hardware, 8)>>,
   <<"frontend-stall-cycles", Code(Hardware, 7)>>,
   <<"pagefaults", Code(Software, 2)>>,
   <<"context-switches", Code(Software, 3)>>,
   <<"cpu-migrations", Code(Software, 4)>>,
   <<"pagefaults-minor", Code(Software, 5)>>,
   <<"pagefaults-major", Code(Software, 6)>>,
   <<"alignment-faults", Code(Software, 7)>>}

\* A name that is not in the table leaves the attributes zeroed.
Translate(name) ==
  LET entries == {entry \in ConfigMap : entry[1] = name}
  IN  IF entries = {} THEN Code(0, 0) ELSE (CHOOSE entry \in entries : TRUE)[2]

(***************************************************************************)
(* The generalized events of the kernel, in the order of their numbers.    *)
(* The config of a cache event is the number of a cache, plus 2^8 times    *)
(* that of an operation, plus 2^16 times that of a result.                 *)
(***************************************************************************)
HardwareEvents ==
  <<"cycles", "instructions", "cache-references", "cache-misses", "branches",
    "branch-misses", "bus-cycles", "frontend-stall-cycles", "backend-stall-cycles">>
SoftwareEvents ==
  <<"cpu-clock", "task-clock", "pagefaults", "context-switches", "cpu-migrations",
    "pagefaults-minor", "pagefaults-major", "alignment-faults">>
Caches     == <<"L1D", "L1I", "LL", "DTLB", "ITLB", "BPU", "NODE">>
Operations == <<"read", "write", "prefetch">>
Results    == <<"access", "miss">>

Meaning(code) ==
  CASE code.type = Hardware -> <<HardwareEvents[code.config + 1]>>
    [] code.type = Software -> <<SoftwareEvents[code.config + 1]>>
    [] code.type = HwCache  -> <<Caches[(code.config % 2^8) + 1],
                                 Operations[((code.config \div 2^8) % 2^8) + 1],
                                 Results[(code.config \div 2^16) + 1]>>
=============================================================================
