---------------------------- MODULE RuntimeManager ----------------------------
(***************************************************************************)
(* RuntimeManager::load() of Managers.cpp and orderExecutionDevices() of   *)
(* Hardware.cpp: which runtime loads a model and on which device.  The     *)
(* devices that the candidates offer are put in order, and each is tried   *)
(* until one loads the model, the CPU fails, an error is met that another  *)
(* device would not mend, or the client cancels.                           *)
(***************************************************************************)
EXTENDS Naturals, Sequences, SequencesExt, Functions, FiniteSets

CONSTANTS
    Models,       \* model ids
    Runtimes,     \* the ids of the registered runtimes, in the order of the map
    Kind,         \* what each of them is: "llama", "mlx" or one of the host's own ("other")
    Inventories,  \* what detectHardware() may have found
    Limit         \* how many models may be loaded

\* The graphics adapters of an inventory are in a list, each with an id of its own, in an order,
\* some memory and the GPU backends that were seen to work.
ASSUME RuntimeAssumption ==
    /\ Runtimes \in Seq(Range(Runtimes))
    /\ Kind \in [Range(Runtimes) -> {"llama", "mlx", "other"}]
    /\ \A i, j \in DOMAIN Runtimes : Runtimes[i] = Runtimes[j] => i = j
    /\ Limit \in Nat
    /\ \A found \in Inventories :
          /\ found.gpus \in Seq(Range(found.gpus))
          /\ \A i, j \in DOMAIN found.gpus : found.gpus[i].id = found.gpus[j].id => i = j
          /\ \A gpu \in Range(found.gpus) :
                gpu.id \in Nat /\ gpu.memory \in Nat /\ gpu.backends \subseteq {"metal", "cuda", "vulkan"}

VARIABLES
    hardware,   \* [apple, gpus]: a gpu is [id, api, vendor, backends, memory]
    loaded,     \* models_: model -> [runtime, device, failures]
    load,       \* the load in progress: [model, candidates, todo, failures]
    cancelled   \* its token

managerVars == <<hardware, loaded, load, cancelled>>

-----------------------------------------------------------------------------
Gpus(h) == Range(h.gpus)
Cpu == [backend |-> "cpu", id |-> 0]
Device(backend, id) == [backend |-> backend, id |-> id]

\* devices() of the llama.cpp runtime: the adapters of its own registry.
LlamaDevices(h) ==
    {Cpu} \cup UNION {{Device(x, gpu.id) : x \in gpu.backends} : gpu \in {g \in Gpus(h) : g.api = "llama"}}

\* devices() of the MLX runtime: the first Metal GPU of an Apple Silicon machine.
MlxDevices(h) ==
    LET found == {i \in DOMAIN h.gpus :
                     LET gpu == h.gpus[i]
                     IN  gpu.api = "metal" /\ gpu.vendor = "apple" /\ "metal" \in gpu.backends}
        first == {i \in found : h.apple /\ \A j \in found : i <= j}
    IN  {Cpu} \cup {Device("metal", h.gpus[i].id) : i \in first}

\* A runtime of the host that needs a GPU and does not know the policy.
OtherDevices(h) == UNION {{Device(x, gpu.id) : x \in gpu.backends} : gpu \in Gpus(h)}

Devices(h, r) == CASE Kind[r] = "llama" -> LlamaDevices(h)
                   [] Kind[r] = "mlx"   -> MlxDevices(h)
                   [] Kind[r] = "other" -> OtherDevices(h)

\* metalAvailable, cudaAvailable and vulkanAvailable
Available(h, backend) == \E g \in Gpus(h) : backend \in g.backends

Adapter(h, d) == CHOOSE g \in Gpus(h) : g.id = d.id

\* The vendors whose adapters a backend is used for, if it is used at all.
Vendors(h, backend) == CASE backend = "metal"  -> IF h.apple THEN {"apple"} ELSE {}
                         [] backend = "cuda"   -> {"nvidia"}
                         [] backend = "vulkan" -> {"amd", "intel"}

Allowed(h, d) ==
    \/ d = Cpu
    \/ /\ d.backend # "cpu"
       /\ \E g \in Gpus(h) : g.id = d.id /\ d.backend \in g.backends /\ g.vendor \in Vendors(h, d.backend)
       /\ Available(h, d.backend)

Rank(d) == CASE d.backend = "metal" -> 0 [] d.backend = "cuda" -> 1
             [] d.backend = "vulkan" -> 2 [] d.backend = "cpu" -> 3

Memory(h, d) == IF d = Cpu THEN 0 ELSE Adapter(h, d).memory

\* The comparison that sort() is given.
Before(h, d, e) ==
    \/ Rank(d) < Rank(e)
    \/ Rank(d) = Rank(e) /\ Memory(h, d) > Memory(h, e)
    \/ Rank(d) = Rank(e) /\ Memory(h, d) = Memory(h, e) /\ d.id < e.id

\* orderExecutionDevices(): each device that is allowed, once and in this order.
OrderExecutionDevices(h, supported) ==
    LET devices == {d \in supported : Allowed(h, d)}
    IN  CHOOSE s \in [1 .. Cardinality(devices) -> devices] :
           /\ Range(s) = devices
           /\ \A i, j \in DOMAIN s : i < j => Before(h, s[i], s[j])

\* What the inner loop of load() does with a device and a runtime: it tries them or goes on.
Tried(h, d, r, supporting) ==
    IF r \in supporting /\ d \in Devices(h, r) THEN << <<d, r>> >> ELSE <<>>

\* Mutant: every device of one runtime before the first of the next.
AttemptsByRuntime(h, supporting) ==
    LET ordered == OrderExecutionDevices(h, UNION {Devices(h, r) : r \in supporting})
    IN  FlattenSeq([k \in DOMAIN Runtimes |->
            FlattenSeq([i \in DOMAIN ordered |-> Tried(h, ordered[i], Runtimes[k], supporting)])])

\* The loops of load(): devices outside, runtimes in the order of the map inside.
Attempts(h, supporting) ==
    LET ordered == OrderExecutionDevices(h, UNION {Devices(h, r) : r \in supporting})
    IN  FlattenSeq([i \in DOMAIN ordered |->
            FlattenSeq([k \in DOMAIN Runtimes |-> Tried(h, ordered[i], Runtimes[k], supporting)])])

NoLoad == [model |-> "none", candidates |-> {}, todo |-> <<>>, failures |-> <<>>]

-----------------------------------------------------------------------------
ManagerInit ==
    /\ hardware \in Inventories
    /\ loaded = <<>>
    /\ load = NoLoad
    /\ cancelled = FALSE

\* load() up to the loops; with no candidate, no device or no room it ends there.
Load(m, supporting) ==
    /\ load = NoLoad
    /\ m \notin DOMAIN loaded
    /\ Cardinality(DOMAIN loaded) < Limit
    /\ Attempts(hardware, supporting) # <<>>
    /\ load' = [model |-> m, candidates |-> supporting,
                todo |-> Attempts(hardware, supporting), failures |-> <<>>]
    /\ cancelled' = FALSE
    /\ UNCHANGED <<hardware, loaded>>

Cancel ==
    /\ load # NoLoad /\ ~cancelled
    /\ cancelled' = TRUE
    /\ UNCHANGED <<hardware, loaded, load>>

Trying == load # NoLoad /\ load.todo # <<>>

End ==
    /\ load' = NoLoad
    /\ cancelled' = FALSE
    /\ UNCHANGED hardware

\* The runtime returns a model.
Succeed ==
    /\ Trying /\ ~cancelled
    /\ LET attempt == Head(load.todo)
       IN loaded' = [k \in DOMAIN loaded \cup {load.model} |->
              IF k = load.model
              THEN [device |-> attempt[1], runtime |-> attempt[2], failures |-> load.failures,
                    candidates |-> load.candidates]
              ELSE loaded[k]]
    /\ End

\* The runtime throws what another device may mend.
FailOver ==
    /\ Trying /\ ~cancelled
    /\ Head(load.todo)[1] # Cpu
    /\ load' = [load EXCEPT !.todo = Tail(@), !.failures = Append(@, Head(load.todo))]
    /\ UNCHANGED <<hardware, loaded, cancelled>>

\* The CPU fails, the error is of another kind, or the client cancelled: load() throws.
Fail ==
    /\ Trying
    /\ End
    /\ UNCHANGED loaded

\* Nothing is left to try.
GiveUp ==
    /\ load # NoLoad /\ load.todo = <<>>
    /\ End
    /\ UNCHANGED loaded

\* unload()
Unload(m) ==
    /\ load = NoLoad /\ m \in DOMAIN loaded
    /\ loaded' = [k \in DOMAIN loaded \ {m} |-> loaded[k]]
    /\ UNCHANGED <<hardware, load, cancelled>>

ManagerNext ==
    \/ Cancel \/ Succeed \/ FailOver \/ Fail \/ GiveUp
    \/ \E m \in Models :
          Unload(m) \/ \E supporting \in SUBSET Range(Runtimes) : Load(m, supporting)

ManagerSpec == ManagerInit /\ [][ManagerNext]_managerVars

-----------------------------------------------------------------------------
\* What the policy prefers, written from the adapters: Metal of Apple Silicon, then CUDA
\* on NVIDIA, then Vulkan on AMD or Intel, then the CPU; more memory first; then the ids.
Policy == [metal |-> 0, cuda |-> 1, vulkan |-> 2, cpu |-> 3]

Permitted(h, d) ==
    \/ d.backend = "cpu"
    \/ \E g \in Gpus(h) :
           /\ g.id = d.id /\ d.backend \in g.backends
           /\ <<g.vendor, d.backend>> \in {<<"apple", "metal">>, <<"nvidia", "cuda">>,
                                           <<"amd", "vulkan">>, <<"intel", "vulkan">>}
           /\ d.backend = "metal" => h.apple

Preferred(h, d, r, e, s) ==
    LET Size(x) == IF x.backend = "cpu" THEN 0
                   ELSE (CHOOSE g \in Gpus(h) : g.id = x.id).memory
        Place(x) == CHOOSE i \in DOMAIN Runtimes : Runtimes[i] = x
    IN \/ Policy[d.backend] < Policy[e.backend]
       \/ /\ Policy[d.backend] = Policy[e.backend]
          /\ \/ Size(d) > Size(e)
             \/ Size(d) = Size(e) /\ d.id < e.id
             \/ d = e /\ Place(r) < Place(s)

\* The devices that the policy allows, each with the candidates that offer it.
Offers(h, supporting) ==
    UNION {{<<d, r>> : d \in {x \in Devices(h, r) : Permitted(h, x)}} : r \in supporting}

\* A model runs on the best of the devices that the policy allows and a candidate offers,
\* but for those that failed to load it, which are exactly the reasons it is shown with.
SelectionIsBest ==
    \A m \in DOMAIN loaded :
        LET chosen == loaded[m]
            offers == Offers(hardware, chosen.candidates)
        IN  /\ <<chosen.device, chosen.runtime>> \in offers
            /\ Range(chosen.failures) =
                  {o \in offers : Preferred(hardware, o[1], o[2], chosen.device, chosen.runtime)}
=============================================================================
