------------------------------ MODULE HomeStats ------------------------------
(***************************************************************************)
(* Home's quick stats (Home.tsx): the span control, with presets and a     *)
(* custom range, and the figures fetched for each range.  A request has no *)
(* clean-up, and one flag says that something is being fetched.            *)
(***************************************************************************)
EXTENDS Naturals, FiniteSets, Sequences

CONSTANTS PresetRange, \* "today", "this month", ... |-> its first and last day
          Days,        \* the days the pickers offer; 0 is a cleared picker
          MaxTasks,    \* requests in flight
          Ordered      \* answers come in the order of the requests

VARIABLES shown,   \* the span, the one before "custom", and the custom range
          figures, \* the range the figures are for; <<>> when there are none
          loading, firstLoad,
          tasks,   \* the ranges asked for, the oldest first
          preset   \* history: the preset last chosen

vars == <<shown, figures, loading, firstLoad, tasks, preset>>
Presets == DOMAIN PresetRange
StatsAssumption == /\ Days \subseteq Nat \ {0} /\ Presets # {} /\ MaxTasks \in Nat \ {0}
                   /\ \A p \in Presets : PresetRange[p] \in Days \X Days
Today == CHOOSE d \in Days : \A e \in Days : e <= d

resolveSpan(s) == IF s.span = "custom" THEN <<s.from, s.to>> ELSE PresetRange[s.span]
Init == \E p \in Presets :
          /\ shown = [span |-> p, prev |-> p, from |-> Today, to |-> Today] /\ preset = p
          /\ figures = <<>> /\ loading = TRUE /\ firstLoad = TRUE /\ tasks = <<PresetRange[p]>>

\* The effect: a range of two days, and not the one before, is asked for.
Fetch(range) == IF range = resolveSpan(shown) \/ 0 \in {range[1], range[2]}
                THEN UNCHANGED <<tasks, loading>>
                ELSE Len(tasks) < MaxTasks /\ tasks' = Append(tasks, range) /\ loading' = TRUE
\* The page stays behind its skeleton until the first answer.
Skeleton == firstLoad
Show(s) == ~Skeleton /\ shown' = s /\ Fetch(resolveSpan(s)) /\ UNCHANGED <<figures, firstLoad>>
Pick(p) == Show([shown EXCEPT !.span = p]) /\ preset' = p
EnterCustom == /\ shown.span # "custom" /\ Show([shown EXCEPT !.span = "custom", !.prev = shown.span])
               /\ UNCHANGED preset
ExitCustom == shown.span = "custom" /\ Show([shown EXCEPT !.span = shown.prev]) /\ UNCHANGED preset
\* The pickers bound each other, and may be cleared.
SetFrom(d) == shown.span = "custom" /\ (shown.to # 0 => d <= shown.to) /\ Show([shown EXCEPT !.from = d]) /\ UNCHANGED preset
SetTo(d) == shown.span = "custom" /\ (d # 0 => shown.from <= d) /\ Show([shown EXCEPT !.to = d]) /\ UNCHANGED preset

\* An answer or a failure; either ends the loading.
Answer(k) == /\ k \in DOMAIN tasks /\ (Ordered => k = 1)
             /\ figures' \in {tasks[k], <<>>} /\ loading' = FALSE /\ firstLoad' = FALSE
             /\ tasks' = SubSeq(tasks, 1, k - 1) \o SubSeq(tasks, k + 1, Len(tasks))
             /\ UNCHANGED <<shown, preset>>

Answering == \E k \in 1..MaxTasks : Answer(k)
Next == \/ \E p \in Presets : Pick(p)
        \/ \E d \in Days \cup {0} : SetFrom(d) \/ SetTo(d)
        \/ EnterCustom \/ ExitCustom \/ Answering
Spec == Init /\ [][Next]_vars
----------------------------------------------------------------------------
TypeOK == /\ shown.span \in Presets \cup {"custom"} /\ {shown.prev, preset} \subseteq Presets
          /\ {shown.from, shown.to} \subseteq Days \cup {0} /\ {loading, firstLoad} \subseteq BOOLEAN
          /\ Len(tasks) <= MaxTasks

\* Collapsing the custom range "undoes" back to the preset that was chosen
\* before it, whatever was done to the range meanwhile.
CustomUndone == shown.span # "custom" => shown.span = preset

\* Once nothing is being fetched, the figures are of the range the tiles are
\* labelled with ("every metric is appropriately labeled for the span").
StatsFit == tasks = <<>> /\ figures # <<>> /\ resolveSpan(shown) \in Days \X Days => figures = resolveSpan(shown)
=============================================================================
