------------------------ MODULE UpdatePipelineProofs ------------------------
(***************************************************************************)
(* Proofs about UpdatePipeline, for every set of files, directories,       *)
(* invocations and hooks: types; that the enrichment queue keeps the       *)
(* promise of WorkList; what the watch loop may skip; and what a run that  *)
(* nobody disturbs leaves behind.                                          *)
(*                                                                         *)
(* The promise speaks about a rewrite; what makes it true is what holds    *)
(* while a rewrite is on its way.  Accounted adds it: what was ever queued *)
(* and is not on the list is handled or exposed, and so is what a run      *)
(* would leave out of the list it is about to write, and everything, while *)
(* a hook is about to write the bare header.                               *)
(*                                                                         *)
(* Attentive says of a sweep that is under way that every file it has      *)
(* behind it is fresh or excused; Undisturbed says, stage by stage, what a *)
(* quiet run has already settled.                                          *)
(***************************************************************************)
EXTENDS UpdatePipeline, TLAPS

Safe == handled \cup exposed
Draining == {"drain", "askQueued", "clear"}

Accounted ==
    /\ queue.lines \subseteq known
    /\ known \ queue.lines \subseteq Safe
    /\ ~queue.exists => known = {}
    /\ \A h \in Hook :
        /\ hook[h].at = "append" => queue.exists
        /\ hook[h].at = "header" => known \subseteq Safe
    /\ \A w \in Runner :
        /\ run[w].at \in Draining => run[w].done \subseteq Safe /\ queue.exists
        /\ run[w].at = "rewrite" =>
            run[w].keep \subseteq known /\ known \ run[w].keep \subseteq Safe /\ queue.exists

-----------------------------------------------------------------------------
(* What a step of one run does to the runs                                 *)

LEMMA Disturbed ==
    ASSUME NEW x \in Runs
    PROVE  /\ [x EXCEPT !.quiet = FALSE] \in Runs
           /\ [x EXCEPT !.quiet = FALSE].at = x.at
           /\ [x EXCEPT !.quiet = FALSE].turn = x.turn
           /\ [x EXCEPT !.quiet = FALSE].seen = x.seen
           /\ [x EXCEPT !.quiet = FALSE].done = x.done
           /\ [x EXCEPT !.quiet = FALSE].keep = x.keep
           /\ [x EXCEPT !.quiet = FALSE].todo = x.todo
BY DEF Runs

LEMMA GoFrame ==
    ASSUME RunsOK, NEW w \in Runner, NEW r \in Runs, Go(w, r)
    PROVE  /\ run' \in [Runner -> Runs] /\ run'[w] = r
           /\ \A v \in Runner \ {w} :
                /\ run'[v].at = run[v].at /\ run'[v].turn = run[v].turn
                /\ run'[v].seen = run[v].seen
                /\ run'[v].done = run[v].done /\ run'[v].keep = run[v].keep
                /\ run'[v].todo = run[v].todo
<1>1. \A v \in Runner : [run[v] EXCEPT !.quiet = FALSE] \in Runs
  BY Disturbed DEF RunsOK
<1>2. run' \in [Runner -> Runs]
  BY <1>1 DEF Go
<1>3. \A v \in Runner \ {w} : run'[v] = [run[v] EXCEPT !.quiet = FALSE]
  BY DEF Go
<1>4. \A v \in Runner : run[v] \in Runs
  BY DEF RunsOK
<1>5. \A v \in Runner \ {w} :
        /\ run'[v].at = run[v].at /\ run'[v].turn = run[v].turn
        /\ run'[v].seen = run[v].seen
        /\ run'[v].done = run[v].done /\ run'[v].keep = run[v].keep
        /\ run'[v].todo = run[v].todo
  BY <1>3, <1>4, Disturbed
<1> QED
  BY <1>2, <1>5 DEF Go

LEMMA GoTyped ==
    ASSUME RunsOK, NEW w \in Runner, NEW r \in Runs, Go(w, r),
           r.at \in {"ask", "askQueued"} <=> r.turn # None,
           r.turn # None => r.seen # None
    PROVE  RunsOK'
BY GoFrame DEF RunsOK

LEMMA DisturbFrame ==
    ASSUME RunsOK, Disturb
    PROVE  /\ RunsOK'
           /\ \A v \in Runner :
                /\ run'[v].at = run[v].at /\ run'[v].turn = run[v].turn
                /\ run'[v].seen = run[v].seen
                /\ run'[v].done = run[v].done /\ run'[v].keep = run[v].keep
                /\ run'[v].todo = run[v].todo
<1>1. \A v \in Runner : [run[v] EXCEPT !.quiet = FALSE] \in Runs
  BY Disturbed DEF RunsOK
<1>2. run' \in [Runner -> Runs]
  BY <1>1 DEF Disturb
<1>3. \A v \in Runner : run'[v] = [run[v] EXCEPT !.quiet = FALSE]
  BY DEF Disturb
<1>4. \A v \in Runner : run[v] \in Runs
  BY DEF RunsOK
<1>5. \A v \in Runner :
        /\ run'[v].at = run[v].at /\ run'[v].turn = run[v].turn
        /\ run'[v].seen = run[v].seen
        /\ run'[v].done = run[v].done /\ run'[v].keep = run[v].keep
        /\ run'[v].todo = run[v].todo
  BY <1>3, <1>4, Disturbed
<1> QED
  BY <1>2, <1>5 DEF RunsOK

(* A step of w that leaves the queue and its history alone.                *)
LEMMA GoAccounted ==
    ASSUME RunsOK, Accounted, NEW w \in Runner, NEW r \in Runs, Go(w, r),
           UNCHANGED <<queue, known, handled, exposed>>,
           r.at \in Draining => r.done \subseteq Safe /\ queue.exists,
           r.at = "rewrite" =>
               r.keep \subseteq known /\ known \ r.keep \subseteq Safe /\ queue.exists
    PROVE  Accounted'
<1>1. Safe' = Safe
  BY DEF Safe
<1>2. hook' = hook
  BY DEF Go
<1>3. \A v \in Runner :
        /\ run'[v].at \in Draining => run'[v].done \subseteq Safe /\ queue.exists
        /\ run'[v].at = "rewrite" =>
            run'[v].keep \subseteq known /\ known \ run'[v].keep \subseteq Safe /\ queue.exists
  BY GoFrame DEF Accounted
<1> QED
  BY <1>1, <1>2, <1>3 DEF Accounted

-----------------------------------------------------------------------------
(* The end of one file's update                                            *)

LEMMA InLoopTyped ==
    ASSUME TreeAssumption, NEW r \in Runs, NEW f \in File, NEW result
    PROVE  /\ InLoop(r, f, result) \in Runs
           /\ InLoop(r, f, result).at = "loop" /\ InLoop(r, f, result).turn = None
           /\ InLoop(r, f, result).todo = r.todo \ {f}
           /\ InLoop(r, f, result).mode = r.mode
           /\ InLoop(r, f, result).quiet => r.quiet /\ result \notin {"failed", "raised"}
<1>1. /\ (IF \/ r.mode = "files" /\ result # "raised"
             \/ r.mode # "files" /\ result \in {"new", "failed", "raised"}
          THEN r.dirs \cup {In[f]} ELSE r.dirs) \in SUBSET Dir
      /\ (IF result = "raised" THEN r.done ELSE r.done \cup {f}) \in SUBSET File
      /\ r.todo \ {f} \in SUBSET File
  BY DEF TreeAssumption, Runs
<1>2. PICK meant, quiet : /\ meant = (r.meant \/ result \in {"new", "failed", "raised"})
                         /\ quiet = (r.quiet /\ result \notin {"failed", "raised"})
  OBVIOUS
<1>3. meant \in BOOLEAN /\ quiet \in BOOLEAN
  BY <1>2
<1>4. PICK todo \in SUBSET File, done \in SUBSET File, dirs \in SUBSET Dir :
        /\ todo = r.todo \ {f}
        /\ InLoop(r, f, result) =
             [r EXCEPT !.at = "loop", !.turn = None, !.seen = None, !.todo = todo,
                       !.meant = meant, !.done = done, !.dirs = dirs, !.quiet = quiet]
  BY <1>1, <1>2, Zenon DEF InLoop
<1>5. InLoop(r, f, result) \in Runs
  <2>1. PICK x : x = [r EXCEPT !.at = "loop", !.turn = None, !.seen = None, !.todo = todo,
                               !.done = done, !.dirs = dirs, !.quiet = quiet]
    OBVIOUS
  <2>2. x \in Runs
    BY <1>3, <1>4, <2>1 DEF Runs, Stages
  <2>3. InLoop(r, f, result) = [x EXCEPT !.meant = meant]
    BY <1>4, <2>1, <2>2 DEF Runs
  <2> QED
    BY <1>3, <2>2, <2>3 DEF Runs
<1>6. /\ InLoop(r, f, result).at = "loop" /\ InLoop(r, f, result).turn = None
      /\ InLoop(r, f, result).todo = r.todo \ {f} /\ InLoop(r, f, result).mode = r.mode
  BY <1>4 DEF Runs
<1>7. InLoop(r, f, result).quiet = quiet
  BY <1>3, <1>4 DEF Runs
<1>8. InLoop(r, f, result).quiet => r.quiet /\ result \notin {"failed", "raised"}
  BY <1>2, <1>7, Zenon
<1> QED
  BY <1>5, <1>6, <1>8

LEMMA InQueueTyped ==
    ASSUME NEW r \in Runs, NEW f \in File, NEW result
    PROVE  /\ InQueue(r, f, result) \in Runs
           /\ InQueue(r, f, result).at = "drain" /\ InQueue(r, f, result).turn = None
           /\ InQueue(r, f, result).todo = r.todo
           /\ InQueue(r, f, result).mode = r.mode
           /\ InQueue(r, f, result).dirs = r.dirs
           /\ InQueue(r, f, result).batch = r.batch \ {f}
           /\ InQueue(r, f, result).quiet => r.quiet /\ result # "failed"
           /\ result = "failed" => InQueue(r, f, result).done = r.done
           /\ result # "failed" => InQueue(r, f, result).done = r.done \cup {f}
<1>1. /\ (IF result = "failed" THEN r.done ELSE r.done \cup {f}) \in SUBSET File
      /\ r.batch \ {f} \in SUBSET File
  BY DEF Runs
<1>2. PICK quiet : quiet = (r.quiet /\ result # "failed")
  OBVIOUS
<1>3. quiet \in BOOLEAN
  BY <1>2
<1>4. PICK batch \in SUBSET File, done \in SUBSET File :
        /\ batch = r.batch \ {f}
        /\ done = (IF result = "failed" THEN r.done ELSE r.done \cup {f})
        /\ InQueue(r, f, result) =
             [r EXCEPT !.at = "drain", !.turn = None, !.seen = None, !.batch = batch,
                       !.done = done, !.quiet = quiet]
  BY <1>1, <1>2, Zenon DEF InQueue
<1>5. InQueue(r, f, result) \in Runs
  BY <1>3, <1>4 DEF Runs, Stages
<1>6. /\ InQueue(r, f, result).at = "drain" /\ InQueue(r, f, result).turn = None
      /\ InQueue(r, f, result).done = done /\ InQueue(r, f, result).todo = r.todo
      /\ InQueue(r, f, result).mode = r.mode /\ InQueue(r, f, result).dirs = r.dirs
      /\ InQueue(r, f, result).batch = batch
  BY <1>4 DEF Runs
<1>7. InQueue(r, f, result).quiet = quiet
  BY <1>3, <1>4 DEF Runs
<1>8. InQueue(r, f, result).quiet => r.quiet /\ result # "failed"
  BY <1>2, <1>7, Zenon
<1> QED
  BY <1>4, <1>5, <1>6, <1>8

Results == {"missing", "raised", "unchanged", "agent", "new", "failed"}

LEMMA ConcludesKeeps ==
    ASSUME TreeAssumption, RunsOK, QueueOK, Accounted,
           NEW w \in Runner, NEW f \in File, NEW result \in Results,
           run[w].at \in {"loop", "ask", "drain", "askQueued"},
           result = "raised" => run[w].at = "loop",
           Concludes(w, f, result)
    PROVE  RunsOK' /\ QueueOK' /\ Accounted'
<1> DEFINE looping == run[w].at \in {"loop", "ask"}
           r == IF looping THEN InLoop(run[w], f, result) ELSE InQueue(run[w], f, result)
<1>1. run[w] \in Runs
  BY DEF RunsOK
<1>2. r \in Runs /\ r.turn = None /\ r.at \in {"loop", "drain"}
  <2>1. CASE looping
    <3>1. /\ InLoop(run[w], f, result) \in Runs
          /\ InLoop(run[w], f, result).turn = None
          /\ InLoop(run[w], f, result).at = "loop"
      BY <1>1, InLoopTyped
    <3> QED
      BY <2>1, <3>1
  <2>2. CASE ~looping
    <3>1. /\ InQueue(run[w], f, result) \in Runs
          /\ InQueue(run[w], f, result).turn = None
          /\ InQueue(run[w], f, result).at = "drain"
      BY <1>1, InQueueTyped
    <3> QED
      BY <2>2, <3>1
  <2> QED
    BY <2>1, <2>2
<1>3. Go(w, r)
  BY DEF Concludes
<1>4. RunsOK'
  <2> HIDE DEF r
  <2> QED
    BY <1>2, <1>3, GoTyped
<1>5. handled \subseteq handled' /\ handled' \subseteq File
      /\ UNCHANGED <<queue, known, exposed, torn, hook>>
  BY <1>3 DEF Concludes, QueueOK, Go
<1>6. QueueOK'
  BY <1>5 DEF QueueOK
<1>7. Safe \subseteq Safe'
  BY <1>5 DEF Safe
<1>8. r.at = "drain" => ~looping
  BY <1>1, InLoopTyped
<1>9. r.at = "drain" => r.done \subseteq Safe' /\ queue.exists
  <2>1. SUFFICES ASSUME r.at = "drain" PROVE r.done \subseteq Safe' /\ queue.exists
    OBVIOUS
  <2>2. run[w].at \in Draining
    BY <1>8, <2>1 DEF Draining
  <2>3. run[w].done \subseteq Safe /\ queue.exists
    BY <2>2 DEF Accounted
  <2>4. r.done \subseteq run[w].done \cup {f} /\ (result = "failed" => r.done = run[w].done)
    BY <1>1, <1>8, <2>1, InQueueTyped
  <2>5. CASE result = "failed"
    BY <1>7, <2>3, <2>4, <2>5
  <2>6. CASE result # "failed"
    <3>1. f \in handled'
      BY <1>8, <2>1, <2>6 DEF Concludes
    <3> QED
      BY <1>7, <2>3, <2>4, <3>1 DEF Safe
  <2> QED
    BY <2>5, <2>6
<1>10. \A v \in Runner :
        /\ run'[v].at \in Draining => run'[v].done \subseteq Safe' /\ queue.exists
        /\ run'[v].at = "rewrite" =>
            run'[v].keep \subseteq known /\ known \ run'[v].keep \subseteq Safe' /\ queue.exists
  <2> HIDE DEF r
  <2>1. run'[w] = r
    BY <1>2, <1>3, GoFrame
  <2>2. \A v \in Runner \ {w} :
        /\ run'[v].at = run[v].at
        /\ run'[v].done = run[v].done /\ run'[v].keep = run[v].keep
        /\ run'[v].todo = run[v].todo
    BY <1>2, <1>3, GoFrame
  <2>3. ASSUME NEW v \in Runner \ {w}
        PROVE  /\ run'[v].at \in Draining => run'[v].done \subseteq Safe' /\ queue.exists
               /\ run'[v].at = "rewrite" =>
                   run'[v].keep \subseteq known /\ known \ run'[v].keep \subseteq Safe' /\ queue.exists
    BY <1>7, <2>2 DEF Accounted
  <2>4. /\ r.at \in Draining => r.done \subseteq Safe' /\ queue.exists
        /\ r.at # "rewrite"
    BY <1>2, <1>9 DEF Draining
  <2> QED
    BY <2>1, <2>3, <2>4
<1>11. Accounted'
  BY <1>5, <1>7, <1>10 DEF Accounted
<1> QED
  BY <1>4, <1>6, <1>11

-----------------------------------------------------------------------------
(* The other steps of a run                                                *)

LEMMA GoKeeps ==
    ASSUME RunsOK, QueueOK, Accounted, NEW w \in Runner, NEW r \in Runs, Go(w, r),
           r.at \in {"ask", "askQueued"} <=> r.turn # None,
           r.turn # None => r.seen # None, UNCHANGED entries,
           r.at \in Draining => r.done \subseteq Safe /\ queue.exists,
           r.at = "rewrite" =>
               r.keep \subseteq known /\ known \ r.keep \subseteq Safe /\ queue.exists
    PROVE  RunsOK' /\ QueueOK' /\ Accounted'
<1>1. UNCHANGED <<queue, known, handled, exposed, torn, hook>>
  BY DEF Go, entries
<1>2. QueueOK'
  BY <1>1 DEF QueueOK
<1>3. RunsOK'
  BY GoTyped
<1>4. Accounted'
  BY <1>1, GoAccounted
<1> QED
  BY <1>2, <1>3, <1>4

LEMMA IdleTyped == Idle \in Runs /\ Idle.at = "idle" /\ Idle.turn = None
BY DEF Idle, Runs, Stages, Modes

LEMMA BeginTyped ==
    ASSUME NEW w \in Runner, NEW m \in Modes, NEW forced \in BOOLEAN,
           NEW scope \in SUBSET File, Begin(w, m, forced, scope)
    PROVE  \E r \in Runs : /\ Go(w, r) /\ r.at = "loop" /\ r.turn = None
                          /\ r.todo = scope /\ r.mode = m
<1>1. PICK gone, quiet : /\ gone = IF m = "files" THEN scope \ Present ELSE {}
                         /\ quiet = Alone(w)
  OBVIOUS
<1>2. gone \in SUBSET File
  BY <1>1
<1>3. quiet \in BOOLEAN
  BY <1>1, Zenon DEF Alone
<1>4. PICK x : x = [Idle EXCEPT !.at = "loop", !.mode = m, !.todo = scope, !.gone = gone]
  OBVIOUS
<1>5. x \in Runs /\ x.at = "loop" /\ x.turn = None /\ x.todo = scope /\ x.mode = m
  BY <1>2, <1>4, IdleTyped DEF Runs, Stages
<1>6. PICK r : r = [Idle EXCEPT !.at = "loop", !.mode = m, !.force = forced, !.todo = scope,
                                !.gone = gone, !.quiet = quiet]
  OBVIOUS
<1>7. r = [[x EXCEPT !.force = forced] EXCEPT !.quiet = quiet]
  BY <1>4, <1>6, IdleTyped DEF Runs
<1>8. [x EXCEPT !.force = forced] \in Runs /\ [x EXCEPT !.force = forced].at = "loop"
      /\ [x EXCEPT !.force = forced].turn = None
      /\ [x EXCEPT !.force = forced].todo = scope
      /\ [x EXCEPT !.force = forced].mode = m
  BY <1>5 DEF Runs
<1>9. r \in Runs /\ r.at = "loop" /\ r.turn = None /\ r.todo = scope /\ r.mode = m
  <2>1. PICK y : y = [x EXCEPT !.force = forced]
    OBVIOUS
  <2> QED
    BY <1>3, <1>7, <1>8, <2>1 DEF Runs
<1>10. Go(w, r)
  BY <1>1, <1>6, Zenon DEF Begin
<1> QED
  BY <1>9, <1>10

LEMMA BeginKeeps ==
    ASSUME RunsOK, QueueOK, Accounted, NEW w \in Runner, NEW m \in Modes,
           NEW forced \in BOOLEAN, NEW scope \in SUBSET File, Begin(w, m, forced, scope)
    PROVE  RunsOK' /\ QueueOK' /\ Accounted'
<1>1. PICK r \in Runs : Go(w, r) /\ r.at = "loop" /\ r.turn = None
  BY BeginTyped
<1>2. UNCHANGED entries
  BY DEF Begin
<1> QED
  BY <1>1, <1>2, GoKeeps DEF Draining

(* update_file's steps                                                     *)
LEMMA UpdateKeeps ==
    ASSUME TreeAssumption, NoneAssumption, SourcesOK, RunsOK, QueueOK, Accounted,
           NEW w \in Runner, NEW f \in File,
           Missing(w, f) \/ Unchanged(w, f) \/ RefreshFooter(w, f) \/ Ask(w, f)
    PROVE  RunsOK' /\ QueueOK' /\ Accounted'
<1> USE DEF Results
<1>1. run[w].at \in {"loop", "drain"}
  BY DEF Missing, Unchanged, RefreshFooter, Ask, Turn
<1>2. run[w] \in Runs
  BY DEF RunsOK
<1>3. CASE Missing(w, f)
  <2>1. CASE run[w].at = "drain" /\ Concludes(w, f, "missing")
    BY <2>1, ConcludesKeeps
  <2>2. CASE run[w].at = "loop" /\ Concludes(w, f, "raised")
    BY <2>2, ConcludesKeeps
  <2>3. CASE /\ run[w].at = "loop"
             /\ Go(w, [run[w] EXCEPT !.todo = @ \ {f}])
             /\ UNCHANGED entries
    <3>1. PICK r : r = [run[w] EXCEPT !.todo = run[w].todo \ {f}]
      OBVIOUS
    <3>2. r \in Runs /\ r.at = "loop" /\ r.turn = run[w].turn
      BY <1>2, <2>3, <3>1 DEF Runs
    <3>3. r.turn = None
      BY <2>3, <3>2 DEF RunsOK
    <3> QED
      BY <2>3, <3>1, <3>2, <3>3, GoKeeps DEF Draining
  <2> QED
    BY <1>3, <2>1, <2>2, <2>3 DEF Missing
<1>4. CASE Unchanged(w, f)
  BY <1>1, <1>4, ConcludesKeeps DEF Unchanged
<1>5. CASE RefreshFooter(w, f)
  BY <1>1, <1>5, ConcludesKeeps DEF RefreshFooter
<1>6. CASE Ask(w, f)
  <2>1. PICK at : at = IF run[w].at = "loop" THEN "ask" ELSE "askQueued"
    OBVIOUS
  <2>2. PICK r : r = [run[w] EXCEPT !.at = at, !.turn = f, !.seen = content[f]]
    OBVIOUS
  <2>3. Go(w, r) /\ UNCHANGED entries /\ content[f] # None
    BY <1>6, <2>1, <2>2, Zenon DEF Ask
  <2>4. content[f] \in (SUBSET File) \cup {None}
    BY DEF SourcesOK
  <2>5. r \in Runs /\ r.at = at /\ r.turn = f /\ r.done = run[w].done /\ r.seen = content[f]
    BY <1>2, <2>1, <2>2, <2>4 DEF Runs, Stages
  <2>6. r.turn # None
    BY <2>5 DEF NoneAssumption
  <2>7. r.at \in Draining => r.done \subseteq Safe /\ queue.exists
    BY <1>1, <2>1, <2>5 DEF Accounted, Draining
  <2> QED
    BY <2>1, <2>3, <2>5, <2>6, <2>7, GoKeeps
<1> QED
  BY <1>3, <1>4, <1>5, <1>6

LEMMA AnswerKeeps ==
    ASSUME TreeAssumption, RunsOK, QueueOK, Accounted,
           NEW w \in Runner, Answer(w) \/ Truncated(w) \/ NoAnswer(w)
    PROVE  RunsOK' /\ QueueOK' /\ Accounted'
<1>1. run[w].turn # None
  BY DEF Answer, Truncated, NoAnswer
<1>2. run[w].turn \in File /\ run[w].at \in {"ask", "askQueued"}
  BY <1>1 DEF RunsOK, Runs
<1>3. Concludes(w, run[w].turn, "new") \/ Concludes(w, run[w].turn, "failed")
  BY DEF Answer, Truncated, NoAnswer
<1> QED
  BY <1>2, <1>3, ConcludesKeeps DEF Results

(* The loop is over: nothing is left to do, and no file's turn is open.    *)
Moves(w) ==
    \E r \in Runs : Go(w, r) /\ r.turn = None /\ (r.todo = run[w].todo \/ r = Idle)

(* The stages after the loop, but for the writing of the queue.            *)
LEMMA StageKeeps ==
    ASSUME RunsOK, QueueOK, Accounted, NEW w \in Runner, NEW r,
           run[w].turn = None, r.at \in Stages \ {"ask", "askQueued"},
           NEW x \in Runs, x.turn = None, x.todo = run[w].todo, r = [x EXCEPT !.at = r.at],
           Go(w, r), UNCHANGED entries,
           r.at \in Draining => x.done \subseteq Safe /\ queue.exists,
           r.at = "rewrite" =>
               x.keep \subseteq known /\ known \ x.keep \subseteq Safe /\ queue.exists
    PROVE  RunsOK' /\ QueueOK' /\ Accounted' /\ Moves(w)
<1>1. /\ r \in Runs /\ r.turn = None /\ r.todo = x.todo
      /\ r.done = x.done /\ r.keep = x.keep
  BY DEF Runs
<1>2. Moves(w)
  BY <1>1 DEF Moves
<1> QED
  BY <1>1, <1>2, GoKeeps

LEMMA StagesKeep ==
    ASSUME TreeAssumption, RunsOK, QueueOK, Accounted, NEW w \in Runner,
           \/ EndLoop(w) \/ Reindex(w) \/ Topology(w) \/ ReadQueue(w) \/ Drained(w)
           \/ ClearRead(w) \/ BuildIndex(w) \/ IndexFails(w) \/ Reconcile(w)
           \/ Return(w) \/ Raise(w)
    PROVE  RunsOK' /\ QueueOK' /\ Accounted' /\ Moves(w)
<1>1. run[w] \in Runs
  BY DEF RunsOK
<1>2. run[w].turn = None
  BY DEF RunsOK, EndLoop, Reindex, Topology, ReadQueue, Drained, ClearRead, BuildIndex,
         IndexFails, Reconcile, Return, Raise
<1>3. UNCHANGED entries
  BY DEF EndLoop, Reindex, Topology, ReadQueue, Drained, ClearRead, BuildIndex,
         IndexFails, Reconcile, Return, Raise
<1>4. AfterReindex(w) \in {"index", "topology"}
  BY DEF AfterReindex
<1>5. CASE EndLoop(w)
  <2>1. PICK ds : ds = IF run[w].meant THEN UNION {Above[d] : d \in run[w].dirs} ELSE {}
    OBVIOUS
  <2>2. ds \in SUBSET Dir
    BY <1>1, <2>1 DEF Runs, TreeAssumption
  <2>3. PICK at : at = IF ds = {} THEN AfterReindex(w) ELSE "reindex"
    OBVIOUS
  <2>4. PICK x : x = [run[w] EXCEPT !.dirs = ds, !.walk = ds]
    OBVIOUS
  <2>5. x \in Runs /\ x.turn = None /\ x.todo = run[w].todo
    BY <1>1, <1>2, <2>2, <2>4 DEF Runs
  <2>6. PICK r : r = [run[w] EXCEPT !.at = at, !.dirs = ds, !.walk = ds]
    OBVIOUS
  <2>7. r = [x EXCEPT !.at = r.at] /\ r.at = at
    BY <1>1, <2>4, <2>6 DEF Runs
  <2>8. Go(w, r)
    BY <1>5, <2>1, <2>3, <2>6, Zenon DEF EndLoop
  <2>9. at \in {"index", "topology", "reindex"}
    BY <1>4, <2>3
  <2>10. r.at \in Stages \ {"ask", "askQueued", "rewrite"} /\ r.at \notin Draining
    BY <2>7, <2>9 DEF Stages, Draining
  <2> QED
    BY <1>2, <1>3, <2>5, <2>7, <2>8, <2>10, StageKeeps
<1>6. CASE Reindex(w)
  <2>1. PICK d \in run[w].walk :
          Go(w, [run[w] EXCEPT !.walk = @ \ {d},
                               !.at = IF run[w].walk = {d} THEN AfterReindex(w) ELSE @])
    BY <1>6 DEF Reindex
  <2>2. PICK at : at = IF run[w].walk = {d} THEN AfterReindex(w) ELSE run[w].at
    OBVIOUS
  <2>3. at \in {"index", "topology", "reindex"}
    BY <1>4, <1>6, <2>2 DEF Reindex
  <2>4. PICK x : x = [run[w] EXCEPT !.walk = run[w].walk \ {d}]
    OBVIOUS
  <2>5. x \in Runs /\ x.turn = None /\ x.todo = run[w].todo
    BY <1>1, <1>2, <2>4 DEF Runs
  <2>6. PICK r : r = [run[w] EXCEPT !.walk = run[w].walk \ {d}, !.at = at]
    OBVIOUS
  <2>7. r = [x EXCEPT !.at = r.at] /\ r.at = at
    BY <1>1, <2>4, <2>6 DEF Runs
  <2>8. Go(w, r)
    BY <2>1, <2>2, <2>6, Zenon
  <2>9. r.at \in Stages \ {"ask", "askQueued", "rewrite"} /\ r.at \notin Draining
    BY <2>3, <2>7 DEF Stages, Draining
  <2> QED
    BY <1>2, <1>3, <2>5, <2>7, <2>8, <2>9, StageKeeps
<1>7. CASE Topology(w)
  <2>1. PICK at : at = IF run[w].mode = "project" THEN "queue" ELSE "index"
    OBVIOUS
  <2>2. PICK r : r = [run[w] EXCEPT !.at = at]
    OBVIOUS
  <2>3. Go(w, r)
    BY <1>7, <2>1, <2>2, Zenon DEF Topology, Proceed
  <2>4. PICK x : x = run[w]
    OBVIOUS
  <2>5. r = [x EXCEPT !.at = r.at] /\ r.at = at
    BY <1>1, <2>2, <2>4 DEF Runs
  <2>6. x \in Runs /\ x.turn = None /\ x.todo = run[w].todo
    BY <1>1, <1>2, <2>4
  <2> QED
    BY <1>2, <1>3, <2>1, <2>3, <2>5, <2>6, StageKeeps DEF Stages, Draining

<1>8. CASE ReadQueue(w)
  <2>1. PICK at : at = IF queue.lines = {} THEN "index" ELSE "drain"
    OBVIOUS
  <2>2. PICK x : x = [run[w] EXCEPT !.batch = queue.lines, !.done = {}]
    OBVIOUS
  <2>3. queue.lines \in SUBSET File
    BY DEF QueueOK
  <2>4. x \in Runs /\ x.turn = None /\ x.todo = run[w].todo /\ x.done = {}
    BY <1>1, <1>2, <2>2, <2>3 DEF Runs
  <2>5. PICK r : r = [run[w] EXCEPT !.at = at, !.batch = queue.lines, !.done = {}]
    OBVIOUS
  <2>6. r = [x EXCEPT !.at = r.at] /\ r.at = at
    BY <1>1, <2>2, <2>5 DEF Runs
  <2>7. Go(w, r)
    BY <1>8, <2>1, <2>5, Zenon DEF ReadQueue
  <2>8. at = "drain" => queue.exists
    BY <2>1 DEF Accounted
  <2> QED
    BY <1>2, <1>3, <2>1, <2>4, <2>6, <2>7, <2>8, StageKeeps DEF Stages, Draining
<1>9. CASE Drained(w)
  <2>1. PICK at : at = IF run[w].done = {} THEN "index" ELSE "clear"
    OBVIOUS
  <2>2. PICK r : r = [run[w] EXCEPT !.at = at]
    OBVIOUS
  <2>3. Go(w, r)
    BY <1>9, <2>1, <2>2, Zenon DEF Drained, Proceed
  <2>4. PICK x : x = run[w]
    OBVIOUS
  <2>5. r = [x EXCEPT !.at = r.at] /\ r.at = at
    BY <1>1, <2>2, <2>4 DEF Runs
  <2>6. x \in Runs /\ x.turn = None /\ x.todo = run[w].todo
    BY <1>1, <1>2, <2>4
  <2>7. x.done \subseteq Safe /\ queue.exists
    BY <1>9, <2>4 DEF Accounted, Draining, Drained
  <2> QED
    BY <1>2, <1>3, <2>1, <2>3, <2>5, <2>6, <2>7, StageKeeps DEF Stages, Draining
<1>10. CASE ClearRead(w)
  <2>1. PICK x : x = [run[w] EXCEPT !.keep = queue.lines \ run[w].done]
    OBVIOUS
  <2>2. queue.lines \ run[w].done \in SUBSET File
    BY DEF QueueOK
  <2>3. x \in Runs /\ x.turn = None /\ x.todo = run[w].todo /\ x.keep = queue.lines \ run[w].done
    BY <1>1, <1>2, <2>1, <2>2 DEF Runs
  <2>4. PICK r : r = [run[w] EXCEPT !.at = "rewrite", !.keep = queue.lines \ run[w].done]
    OBVIOUS
  <2>5. r = [x EXCEPT !.at = r.at] /\ r.at = "rewrite"
    BY <1>1, <2>1, <2>4 DEF Runs
  <2>6. Go(w, r)
    BY <1>10, <2>4, Zenon DEF ClearRead
  <2>7. run[w].done \subseteq Safe /\ queue.exists
    BY <1>10 DEF Accounted, Draining, ClearRead
  <2>8. x.keep \subseteq known /\ known \ x.keep \subseteq Safe
    BY <2>3, <2>7 DEF Accounted
  <2> QED
    BY <1>2, <1>3, <2>3, <2>5, <2>6, <2>7, <2>8, StageKeeps DEF Stages, Draining
<1>11. CASE BuildIndex(w)
  <2>1. PICK ds : ds = IF run[w].mode = "project" THEN {f \in File : design[f] # None} ELSE {}
    OBVIOUS
  <2>2. PICK at : at = IF ds = {} THEN "done" ELSE "reconcile"
    OBVIOUS
  <2>3. PICK x : x = [run[w] EXCEPT !.batch = ds]
    OBVIOUS
  <2>4. ds \in SUBSET File
    BY <2>1
  <2>5. x \in Runs /\ x.turn = None /\ x.todo = run[w].todo
    BY <1>1, <1>2, <2>3, <2>4 DEF Runs
  <2>6. PICK r : r = [run[w] EXCEPT !.at = at, !.batch = ds]
    OBVIOUS
  <2>7. r = [x EXCEPT !.at = r.at] /\ r.at = at
    BY <1>1, <2>3, <2>6 DEF Runs
  <2>8. Go(w, r)
    BY <1>11, <2>1, <2>2, <2>6, Zenon DEF BuildIndex
  <2> QED
    BY <1>2, <1>3, <2>2, <2>5, <2>7, <2>8, StageKeeps DEF Stages, Draining
<1>12. CASE IndexFails(w)
  <2>1. PICK x : x = [run[w] EXCEPT !.quiet = FALSE]
    OBVIOUS
  <2>2. x \in Runs /\ x.turn = None /\ x.todo = run[w].todo
    BY <1>1, <1>2, <2>1 DEF Runs
  <2>3. PICK r : r = [run[w] EXCEPT !.at = "done", !.quiet = FALSE]
    OBVIOUS
  <2>4. r = [x EXCEPT !.at = r.at] /\ r.at = "done"
    BY <1>1, <2>1, <2>3 DEF Runs
  <2>5. Go(w, r)
    BY <1>12, <2>3, Zenon DEF IndexFails
  <2> QED
    BY <1>2, <1>3, <2>2, <2>4, <2>5, StageKeeps DEF Stages, Draining
<1>13. CASE Reconcile(w)
  <2>1. PICK f \in File :
          Go(w, [run[w] EXCEPT !.batch = @ \ {f},
                               !.at = IF run[w].batch = {f} THEN "done" ELSE @])
    BY <1>13 DEF Reconcile
  <2>2. PICK at : at = IF run[w].batch = {f} THEN "done" ELSE run[w].at
    OBVIOUS
  <2>3. at \in {"reconcile", "done"}
    BY <1>13, <2>2 DEF Reconcile
  <2>4. PICK x : x = [run[w] EXCEPT !.batch = run[w].batch \ {f}]
    OBVIOUS
  <2>5. x \in Runs /\ x.turn = None /\ x.todo = run[w].todo
    BY <1>1, <1>2, <2>4 DEF Runs
  <2>6. PICK r : r = [run[w] EXCEPT !.batch = run[w].batch \ {f}, !.at = at]
    OBVIOUS
  <2>7. r = [x EXCEPT !.at = r.at] /\ r.at = at
    BY <1>1, <2>4, <2>6 DEF Runs
  <2>8. Go(w, r)
    BY <2>1, <2>2, <2>6, Zenon
  <2>9. r.at \in Stages \ {"ask", "askQueued", "rewrite"} /\ r.at \notin Draining
    BY <2>3, <2>7 DEF Stages, Draining
  <2> QED
    BY <1>2, <1>3, <2>5, <2>7, <2>8, <2>9, StageKeeps
<1>14. CASE Return(w) \/ Raise(w)
  <2>1. Go(w, Idle)
    BY <1>14 DEF Return, Raise
  <2> QED
    BY <1>3, <2>1, IdleTyped, GoKeeps DEF Draining, Moves
<1> QED
  BY <1>5, <1>6, <1>7, <1>8, <1>9, <1>10, <1>11, <1>12, <1>13, <1>14

LEMMA ClearWriteKeeps ==
    ASSUME RunsOK, QueueOK, Accounted, NEW w \in Runner, ClearWrite(w)
    PROVE  RunsOK' /\ QueueOK' /\ Accounted' /\ Moves(w)
<1>1. run[w] \in Runs /\ run[w].turn = None
  BY DEF RunsOK, ClearWrite
<1>2. PICK r : r = [run[w] EXCEPT !.at = "index"]
  OBVIOUS
<1>3. r \in Runs /\ r.at = "index" /\ r.turn = None /\ r.todo = run[w].todo
  BY <1>1, <1>2 DEF Runs, Stages
<1>4. Go(w, r)
  BY <1>2, Zenon DEF ClearWrite, Proceed
<1>5. RunsOK'
  BY <1>3, <1>4, GoTyped
<1>6. /\ queue'.exists /\ queue'.lines = run[w].keep
      /\ queue' \in [exists : BOOLEAN, lines : SUBSET File]
      /\ UNCHANGED <<known, handled, exposed, torn, hook>>
  BY <1>1, <1>4 DEF ClearWrite, Go, Runs
<1>7. QueueOK'
  BY <1>6 DEF QueueOK
<1>8. Safe' = Safe
  BY <1>6 DEF Safe
<1>9. run[w].keep \subseteq known /\ known \ run[w].keep \subseteq Safe
  BY DEF ClearWrite, Accounted
<1>10. \A v \in Runner :
        /\ run'[v].at \in Draining => run'[v].done \subseteq Safe
        /\ run'[v].at = "rewrite" =>
            run'[v].keep \subseteq known /\ known \ run'[v].keep \subseteq Safe
  BY <1>3, <1>4, GoFrame DEF Accounted, Draining
<1>11. Accounted'
  BY <1>6, <1>8, <1>9, <1>10 DEF Accounted
<1>12. Moves(w)
  BY <1>3, <1>4 DEF Moves
<1> QED
  BY <1>5, <1>7, <1>11, <1>12

LEMMA KillKeeps ==
    ASSUME RunsOK, QueueOK, Accounted, NEW w \in Runner, Kill(w)
    PROVE  RunsOK' /\ QueueOK' /\ Accounted'
<1>1. Go(w, Idle)
  BY DEF Kill
<1>2. CASE UNCHANGED entries
  BY <1>1, <1>2, IdleTyped, GoKeeps DEF Draining
<1>3. CASE /\ run[w].at = "rewrite"
           /\ queue' = [queue EXCEPT !.lines = {}] /\ torn' = torn + 1
           /\ exposed' = exposed \cup queue.lines
  <2>1. RunsOK'
    BY <1>1, IdleTyped, GoTyped
  <2>2. UNCHANGED <<known, handled, hook>>
    BY <1>1 DEF Kill, Go
  <2>3. torn' \in Nat
    BY <1>3 DEF QueueOK
  <2>4. queue' \in [exists : BOOLEAN, lines : SUBSET File]
        /\ queue'.lines = {} /\ queue'.exists = queue.exists
    BY <1>3 DEF QueueOK
  <2>5. QueueOK'
    BY <1>3, <2>2, <2>3, <2>4 DEF QueueOK
  <2>6. Safe \subseteq Safe' /\ queue.lines \subseteq Safe'
    BY <1>3, <2>2 DEF Safe
  <2>7. \A v \in Runner :
          /\ run'[v].at \in Draining => run'[v].done \subseteq Safe' /\ queue'.exists
          /\ run'[v].at = "rewrite" =>
              /\ run'[v].keep \subseteq known /\ known \ run'[v].keep \subseteq Safe'
              /\ queue'.exists
    BY <1>1, <2>4, <2>6, IdleTyped, GoFrame DEF Accounted, Draining
  <2>8. Accounted'
    BY <2>2, <2>4, <2>6, <2>7 DEF Accounted
  <2> QED
    BY <2>1, <2>5, <2>8
<1>4. UNCHANGED entries \/ run[w].at = "rewrite"
  BY DEF Kill, entries
<1> QED
  BY <1>2, <1>3, <1>4 DEF Kill, entries

-----------------------------------------------------------------------------
(* The hooks and the developers                                            *)

HookState == [at : {"idle", "header", "append"}, file : File \cup {None}]

LEMMA HookTyped ==
    ASSUME QueueOK, NEW h \in Hook, NEW at \in {"idle", "header", "append"},
           NEW f \in File \cup {None}, at # "idle" => f # None,
           hook' = [hook EXCEPT ![h] = [at |-> at, file |-> f]]
    PROVE  /\ hook' \in [Hook -> HookState]
           /\ \A g \in Hook : hook'[g].at # "idle" => hook'[g].file # None
           /\ hook'[h].at = at /\ \A g \in Hook \ {h} : hook'[g] = hook[g]
<1>1. hook \in [Hook -> HookState]
  BY DEF QueueOK, HookState
<1>2. PICK k \in HookState : k = [at |-> at, file |-> f]
  BY DEF HookState
<1>3. k.at = at /\ k.file = f
  BY <1>2
<1>4. hook' = [hook EXCEPT ![h] = k]
  BY <1>2
<1>5. hook' \in [Hook -> HookState] /\ hook'[h] = k
      /\ \A g \in Hook \ {h} : hook'[g] = hook[g]
  BY <1>1, <1>4
<1> QED
  BY <1>3, <1>5 DEF QueueOK

LEMMA WriteHeaderKeeps ==
    ASSUME NoneAssumption, RunsOK, QueueOK, Accounted, NEW h \in Hook, WriteHeader(h)
    PROVE  RunsOK' /\ QueueOK' /\ Accounted'
<1>1. /\ queue' = [exists |-> TRUE, lines |-> {}]
      /\ hook' = [hook EXCEPT ![h] = [at |-> "append", file |-> hook[h].file]]
      /\ UNCHANGED <<known, exposed, handled, torn>> /\ Disturb
  BY DEF WriteHeader, SetHook
<1>2. hook[h].file \in File \cup {None} /\ hook[h].file # None
  BY DEF QueueOK, WriteHeader
<1>3. /\ hook' \in [Hook -> HookState]
      /\ \A g \in Hook : hook'[g].at # "idle" => hook'[g].file # None
      /\ hook'[h].at = "append" /\ \A g \in Hook \ {h} : hook'[g] = hook[g]
  BY <1>1, <1>2, HookTyped
<1>4. queue' \in [exists : BOOLEAN, lines : SUBSET File]
      /\ queue'.exists /\ queue'.lines = {}
  BY <1>1
<1>5. QueueOK'
  BY <1>1, <1>3, <1>4 DEF QueueOK, HookState
<1>6. Safe' = Safe /\ known \subseteq Safe
  BY <1>1 DEF Safe, Accounted, WriteHeader
<1>7. Accounted'
  BY <1>1, <1>3, <1>4, <1>6, DisturbFrame DEF Accounted
<1> QED
  BY <1>1, <1>5, <1>7, DisturbFrame

LEMMA AppendKeeps ==
    ASSUME NoneAssumption, RunsOK, QueueOK, Accounted, NEW h \in Hook, Append(h)
    PROVE  RunsOK' /\ QueueOK' /\ Accounted'
<1>1. PICK f \in File : f = hook[h].file
  BY DEF QueueOK, Append
<1>2. /\ queue' = [queue EXCEPT !.lines = @ \cup {f}]
      /\ known' = known \cup {f} /\ handled' = handled \ {f}
      /\ exposed' = IF Open(f) THEN exposed \cup {f} ELSE exposed \ {f}
      /\ hook' = [hook EXCEPT ![h] = [at |-> "idle", file |-> None]]
      /\ torn' = torn /\ Disturb
  BY <1>1 DEF Append, SetHook
<1>3. /\ hook' \in [Hook -> HookState]
      /\ \A g \in Hook : hook'[g].at # "idle" => hook'[g].file # None
      /\ hook'[h].at = "idle" /\ \A g \in Hook \ {h} : hook'[g] = hook[g]
  BY <1>2, HookTyped
<1>4. queue.exists
  BY DEF Append, Accounted
<1>5. queue' \in [exists : BOOLEAN, lines : SUBSET File]
      /\ queue'.exists /\ queue'.lines = queue.lines \cup {f}
  BY <1>2, <1>4 DEF QueueOK
<1>6. QueueOK'
  BY <1>2, <1>3, <1>5 DEF QueueOK, HookState
<1>7. Safe \ {f} \subseteq Safe' /\ (Open(f) => f \in Safe')
  BY <1>2 DEF Safe
<1>8. \A g \in Hook :
        /\ hook'[g].at = "append" => queue'.exists
        /\ hook'[g].at = "header" => known' \subseteq Safe'
  <2>1. ASSUME NEW g \in Hook, hook'[g].at = "header" PROVE known' \subseteq Safe'
    <3>1. hook[g].at = "header"
      BY <1>3, <2>1
    <3>2. Open(f) /\ known \subseteq Safe
      BY <3>1 DEF Open, Accounted
    <3> QED
      BY <1>2, <1>7, <3>2
  <2> QED
    BY <1>5, <2>1
<1>9. ASSUME NEW v \in Runner
      PROVE  /\ run'[v].at \in Draining => run'[v].done \subseteq Safe' /\ queue'.exists
             /\ run'[v].at = "rewrite" =>
                 /\ run'[v].keep \subseteq known' /\ known' \ run'[v].keep \subseteq Safe'
                 /\ queue'.exists
  <2>1. run'[v].at = run[v].at /\ run'[v].done = run[v].done /\ run'[v].keep = run[v].keep
    BY <1>2, DisturbFrame
  <2>2. CASE run[v].at \in Draining
    <3>1. run[v].done \subseteq Safe /\ (f \in run[v].done => Open(f))
      BY <2>2 DEF Accounted, Open, Draining
    <3>2. run[v].done \subseteq Safe'
      BY <1>7, <3>1
    <3> QED
      BY <1>5, <2>1, <2>2, <3>2 DEF Draining
  <2>3. CASE run[v].at = "rewrite"
    <3>1. Open(f) /\ run[v].keep \subseteq known /\ known \ run[v].keep \subseteq Safe
      BY <2>3 DEF Accounted, Open
    <3>2. run[v].keep \subseteq known' /\ known' \ run[v].keep \subseteq Safe'
      BY <1>2, <1>7, <3>1
    <3> QED
      BY <1>5, <2>1, <2>3, <3>2 DEF Draining
  <2> QED
    BY <2>1, <2>2, <2>3
<1>10. queue'.lines \subseteq known' /\ known' \ queue'.lines \subseteq Safe'
  BY <1>2, <1>5, <1>7 DEF Accounted
<1>11. Accounted'
  BY <1>5, <1>8, <1>9, <1>10 DEF Accounted
<1> QED
  BY <1>2, <1>6, <1>11, DisturbFrame

LEMMA QuickDesignKeeps ==
    ASSUME NoneAssumption, RunsOK, QueueOK, Accounted, NEW h \in Hook, NEW f \in File,
           QuickDesign(h, f)
    PROVE  RunsOK' /\ QueueOK' /\ Accounted'
<1>1. PICK at : at = IF queue.exists THEN "append" ELSE "header"
  OBVIOUS
<1>2. /\ hook' = [hook EXCEPT ![h] = [at |-> at, file |-> f]]
      /\ UNCHANGED <<queue, known, exposed, handled, torn>> /\ Disturb
  BY <1>1, Zenon DEF QuickDesign, SetHook, entries
<1>3. f # None /\ at \in {"header", "append"}
  BY <1>1 DEF NoneAssumption
<1>4. /\ hook' \in [Hook -> HookState]
      /\ \A g \in Hook : hook'[g].at # "idle" => hook'[g].file # None
      /\ hook'[h].at = at /\ \A g \in Hook \ {h} : hook'[g] = hook[g]
  BY <1>2, <1>3, HookTyped
<1>5. QueueOK'
  BY <1>2, <1>4 DEF QueueOK, HookState
<1>6. Safe' = Safe
  BY <1>2 DEF Safe
<1>7. at = "append" => queue.exists
  BY <1>1
<1>8. at = "header" => known \subseteq Safe
  BY <1>1 DEF Accounted
<1>9. Accounted'
  BY <1>2, <1>4, <1>6, <1>7, <1>8, DisturbFrame DEF Accounted
<1> QED
  BY <1>2, <1>5, <1>9, DisturbFrame

LEMMA ChangeKeeps ==
    ASSUME RunsOK, QueueOK, Accounted, NEW f \in File, NEW v, Change(f, v)
    PROVE  RunsOK' /\ QueueOK' /\ Accounted'
<1>1. Disturb /\ UNCHANGED <<queue, known, exposed, handled, torn, hook>>
  BY DEF Change, entries
<1>2. QueueOK'
  BY <1>1 DEF QueueOK
<1>3. Safe' = Safe
  BY <1>1 DEF Safe
<1>4. Accounted'
  BY <1>1, <1>3, DisturbFrame DEF Accounted
<1> QED
  BY <1>1, <1>2, <1>4, DisturbFrame

-----------------------------------------------------------------------------
(* Sources, design files and the graph                                     *)

LEMMA SourcesKept ==
    ASSUME NoneAssumption, TypeOK, [Next]_vars PROVE SourcesOK'
<1> USE DEF files, entries
<1>1. CASE UNCHANGED <<content, newer, swept, late, failed>>
  BY <1>1 DEF TypeOK, SourcesOK, Present
<1>2. ASSUME NEW w \in Runner, NEW f \in File, NEW result,
             Concludes(w, f, result)
      PROVE  SourcesOK'
  BY <1>2 DEF Concludes, TypeOK, SourcesOK, Present
<1>3. CASE WatchSweep
  <2>1. UNCHANGED <<content, newer, swept, failed>> /\ late' \subseteq File
    BY <1>3 DEF WatchSweep, Begin, TypeOK, SourcesOK
  <2> QED
    BY <2>1 DEF TypeOK, SourcesOK, Present
<1>4. ASSUME NEW w \in Runner, Return(w) PROVE SourcesOK'
  BY <1>4 DEF Return, TypeOK, SourcesOK, Present
<1>5. ASSUME NEW w \in Runner, Kill(w) PROVE SourcesOK'
  <2>1. failed' \subseteq File /\ newer' \subseteq Present /\ UNCHANGED <<content, late>>
    BY <1>5 DEF Kill, TypeOK, SourcesOK, Present
  <2>2. swept' \in BOOLEAN
    BY <1>5, Zenon DEF Kill
  <2> QED
    BY <2>1, <2>2 DEF TypeOK, SourcesOK, Present
<1>6. ASSUME NEW f \in File, Edit(f) \/ Delete(f) PROVE SourcesOK'
  <2>1. PICK v \in (SUBSET File) \cup {None} :
          Change(f, v) /\ newer' = IF v = None THEN newer \ {f} ELSE newer \cup {f}
    BY <1>6 DEF Edit, Delete, Contents, NoneAssumption
  <2>2. content' \in [File -> (SUBSET File) \cup {None}]
    BY <2>1 DEF Change, TypeOK, SourcesOK
  <2>3. newer' \subseteq Present'
    BY <2>1 DEF Change, TypeOK, SourcesOK, Present
  <2> QED
    BY <2>1, <2>2, <2>3 DEF Change, TypeOK, SourcesOK
<1>7. ASSUME NEW w \in Runner, Step(w) PROVE SourcesOK'
  <2>1. CASE \E f \in File : Missing(w, f) \/ Unchanged(w, f) \/ RefreshFooter(w, f) \/ Ask(w, f)
    BY <1>1, <1>2, <2>1 DEF Missing, Unchanged, RefreshFooter, Ask
  <2>2. CASE Answer(w) \/ Truncated(w) \/ NoAnswer(w)
    <3>1. run[w].turn \in File
      BY <2>2 DEF Answer, Truncated, NoAnswer, TypeOK, RunsOK, Runs
    <3> QED
      BY <1>2, <2>2, <3>1 DEF Answer, Truncated, NoAnswer
  <2>3. CASE \/ EndLoop(w) \/ Reindex(w) \/ Topology(w) \/ ReadQueue(w) \/ Drained(w)
             \/ ClearRead(w) \/ ClearWrite(w) \/ BuildIndex(w) \/ IndexFails(w)
             \/ Reconcile(w)
    BY <1>1, <2>3 DEF EndLoop, Reindex, Topology, ReadQueue, Drained, ClearRead, ClearWrite,
                      BuildIndex, IndexFails, Reconcile
  <2> QED
    BY <1>4, <1>7, <2>1, <2>2, <2>3 DEF Step
<1>8. CASE \/ WatchSkip \/ UNCHANGED vars
           \/ \E w \in Runner : Raise(w)
           \/ \E w \in Others : UpdateProject(w) \/ UpdateDirectory(w) \/ UpdateFiles(w)
           \/ \E h \in Hook : WriteHeader(h) \/ Append(h)
           \/ \E h \in Hook, f \in File : QuickDesign(h, f)
  BY <1>1, <1>8 DEF WatchSkip, vars, Raise, UpdateProject, UpdateDirectory, UpdateFiles,
                    Begin, WriteHeader, Append, QuickDesign, SetHook
<1> QED
  BY <1>3, <1>5, <1>6, <1>7, <1>8 DEF Next

LEMMA GraphKept ==
    ASSUME TypeOK, [Next]_vars PROVE graph' # None => graph' \subseteq File \X File
<1> USE DEF library
<1>1. CASE UNCHANGED graph
  BY <1>1 DEF TypeOK, LibraryOK
<1>2. ASSUME NEW w \in Runner, BuildIndex(w)
      PROVE  graph' # None => graph' \subseteq File \X File
  <2>1. \A fs \in SUBSET File : Edges(fs) \subseteq File \X File
    BY DEF Edges
  <2>2. run[w].done \in SUBSET File
    BY DEF TypeOK, RunsOK, Runs
  <2>3. {f \in File : design[f] # None} \in SUBSET File
    OBVIOUS
  <2>4. PICK old \in SUBSET (File \X File) : old = IF graph = None THEN {} ELSE graph
    BY DEF TypeOK, LibraryOK
  <2>5. \/ graph' \subseteq Edges({f \in File : design[f] # None})
        \/ graph' = graph
        \/ graph' \subseteq old \cup Edges(run[w].done)
    BY <1>2, <2>4 DEF BuildIndex
  <2> QED
    BY <2>1, <2>2, <2>3, <2>5 DEF TypeOK, LibraryOK
<1>3. CASE \E w \in Runner : BuildIndex(w)
  BY <1>2, <1>3
<1>4. UNCHANGED graph \/ \E w \in Runner : BuildIndex(w)
  <2>1. ASSUME NEW w \in Runner, Step(w) PROVE UNCHANGED graph \/ BuildIndex(w)
    <3>1. CASE \E f \in File : Missing(w, f) \/ Unchanged(w, f) \/ RefreshFooter(w, f) \/ Ask(w, f)
      BY <3>1 DEF Missing, Unchanged, RefreshFooter, Ask, Concludes
    <3>2. CASE Answer(w) \/ Truncated(w) \/ NoAnswer(w)
      BY <3>2 DEF Answer, Truncated, NoAnswer, Concludes
    <3>3. CASE \/ EndLoop(w) \/ Reindex(w) \/ Topology(w) \/ ReadQueue(w) \/ Drained(w)
               \/ ClearRead(w) \/ ClearWrite(w) \/ BuildIndex(w) \/ IndexFails(w)
               \/ Reconcile(w) \/ Return(w)
      BY <3>3 DEF EndLoop, Reindex, Topology, ReadQueue, Drained, ClearRead, ClearWrite,
                  IndexFails, Reconcile, Return
    <3> QED
      BY <2>1, <3>1, <3>2, <3>3 DEF Step
  <2>2. CASE \/ WatchSweep \/ WatchSkip \/ UNCHANGED vars
             \/ \E w \in Runner : Raise(w) \/ Kill(w)
             \/ \E w \in Others : UpdateProject(w) \/ UpdateDirectory(w) \/ UpdateFiles(w)
             \/ \E h \in Hook : WriteHeader(h) \/ Append(h)
             \/ \E h \in Hook, f \in File : QuickDesign(h, f)
             \/ \E f \in File : Edit(f) \/ Delete(f)
    BY <2>2 DEF vars, WatchSweep, WatchSkip, UpdateProject, UpdateDirectory, UpdateFiles,
                Begin, Raise, Kill, WriteHeader, Append, QuickDesign, SetHook,
                Edit, Delete, Change
  <2> QED
    BY <2>1, <2>2 DEF Next
<1> QED
  BY <1>1, <1>3, <1>4

LEMMA DesignsKept ==
    ASSUME NoneAssumption, TypeOK, [Next]_vars PROVE design' \in [File -> Designs \cup {None}]
<1> USE DEF library
<1>1. design \in [File -> Designs \cup {None}]
  BY DEF TypeOK, LibraryOK
<1>2. CASE UNCHANGED design
  BY <1>1, <1>2
<1>3. ASSUME NEW f, NEW x \in Designs \cup {None}, design' = [design EXCEPT ![f] = x]
      PROVE  design' \in [File -> Designs \cup {None}]
  BY <1>1, <1>3
<1>4. \A f \in File : /\ content[f] # None => content[f] \in SUBSET File
                     /\ Deps(f) \in SUBSET File /\ Dependents(f) \in SUBSET File
  BY DEF Deps, Dependents, Present, TypeOK, SourcesOK
<1>5. \A f \in File : content[f] # None => Skeleton(f) \in Designs
  BY <1>4 DEF Skeleton, Designs
<1>6. ASSUME NEW w \in Runner, NEW f \in File, RefreshFooter(w, f)
      PROVE  design' \in [File -> Designs \cup {None}]
  <2>1. PICK d \in Designs : d = design[f]
    BY <1>1, <1>6 DEF RefreshFooter
  <2>2. PICK c \in SUBSET File : c = content[f]
    BY <1>4, <1>6 DEF RefreshFooter
  <2>3. PICK x : x = [d EXCEPT !.of = c]
    OBVIOUS
  <2>4. x \in Designs
    BY <2>1, <2>2, <2>3 DEF Designs
  <2>5. design' = [design EXCEPT ![f] = x]
    BY <1>6, <2>1, <2>2, <2>3 DEF RefreshFooter
  <2> QED
    BY <1>3, <2>4, <2>5
<1>7. ASSUME NEW w \in Runner, Answer(w)
      PROVE  design' \in [File -> Designs \cup {None}]
  <2>1. PICK f \in File : f = run[w].turn
    BY <1>7 DEF Answer, TypeOK, RunsOK, Runs
  <2>2. PICK c \in SUBSET File : c = run[w].seen
    BY <1>7 DEF Answer, TypeOK, RunsOK, Runs
  <2>3. [of |-> c, by |-> "llm", at |-> c, deps |-> Deps(f), dependents |-> Dependents(f)]
          \in Designs
    BY <1>4 DEF Designs
  <2> QED
    BY <1>3, <1>7, <2>1, <2>2, <2>3 DEF Answer
<1>8. ASSUME NEW w \in Runner, Truncated(w)
      PROVE  design' \in [File -> Designs \cup {None}]
  <2>1. PICK f \in File : f = run[w].turn
    BY <1>8 DEF Truncated, TypeOK, RunsOK, Runs
  <2> QED
    BY <1>3, <1>5, <1>8, <2>1 DEF Truncated
<1>9. ASSUME NEW w \in Runner, Reconcile(w)
      PROVE  design' \in [File -> Designs \cup {None}]
  <2>1. PICK f \in File :
          design' = IF design[f] # None /\ Drifted(f)
                    THEN [design EXCEPT ![f].deps = Deps(f), ![f].dependents = Dependents(f)]
                    ELSE design
    BY <1>9 DEF Reconcile
  <2>2. CASE design' = design
    BY <1>2, <2>2
  <2>3. CASE design[f] # None
             /\ design' = [design EXCEPT ![f].deps = Deps(f), ![f].dependents = Dependents(f)]
    <3>1. PICK d \in Designs : d = design[f]
      BY <1>1, <2>3
    <3>2. PICK x : x = [d EXCEPT !.deps = Deps(f)]
      OBVIOUS
    <3>3. PICK y : y = [x EXCEPT !.dependents = Dependents(f)]
      OBVIOUS
    <3>4. x \in Designs
      BY <1>4, <3>1, <3>2 DEF Designs
    <3>5. y \in Designs
      BY <1>4, <3>3, <3>4 DEF Designs
    <3>6. design' = [design EXCEPT ![f] = y]
      BY <1>1, <2>3, <3>1, <3>2, <3>3
    <3> QED
      BY <1>3, <3>5, <3>6
  <2> QED
    BY <2>1, <2>2, <2>3
<1>10. ASSUME NEW w \in Runner, NEW f \in File, Ask(w, f)
       PROVE  design' \in [File -> Designs \cup {None}]
  BY <1>3, <1>10 DEF Ask
<1>11. ASSUME NEW h \in Hook, NEW f \in File, QuickDesign(h, f)
       PROVE  design' \in [File -> Designs \cup {None}]
  BY <1>2, <1>3, <1>5, <1>11 DEF QuickDesign
<1>12. ASSUME NEW w \in Runner, Step(w)
       PROVE  \/ UNCHANGED design \/ Answer(w) \/ Truncated(w) \/ Reconcile(w)
              \/ \E f \in File : RefreshFooter(w, f) \/ Ask(w, f)
  <2>1. CASE \E f \in File : Missing(w, f) \/ Unchanged(w, f) \/ RefreshFooter(w, f) \/ Ask(w, f)
    BY <2>1 DEF Missing, Unchanged
  <2>2. CASE \/ NoAnswer(w)
             \/ EndLoop(w) \/ Reindex(w) \/ Topology(w) \/ ReadQueue(w) \/ Drained(w)
             \/ ClearRead(w) \/ ClearWrite(w) \/ BuildIndex(w) \/ IndexFails(w) \/ Return(w)
    BY <2>2 DEF NoAnswer, EndLoop, Reindex, Topology, ReadQueue, Drained, ClearRead,
                ClearWrite, BuildIndex, IndexFails, Return
  <2> QED
    BY <1>12, <2>1, <2>2 DEF Step
<1>13. CASE \/ WatchSweep \/ WatchSkip \/ UNCHANGED vars
            \/ \E w \in Runner : Raise(w) \/ Kill(w)
            \/ \E w \in Others : UpdateProject(w) \/ UpdateDirectory(w) \/ UpdateFiles(w)
            \/ \E h \in Hook : WriteHeader(h) \/ Append(h)
            \/ \E f \in File : Edit(f) \/ Delete(f)
  BY <1>2, <1>13 DEF vars, WatchSweep, WatchSkip, UpdateProject, UpdateDirectory, UpdateFiles,
              Begin, Raise, Kill, WriteHeader, Append, SetHook, Edit, Delete, Change
<1> QED
  BY <1>2, <1>6, <1>7, <1>8, <1>9, <1>10, <1>11, <1>12, <1>13 DEF Next

-----------------------------------------------------------------------------
(* The theorems                                                            *)

ControlOK == RunsOK /\ QueueOK /\ Accounted

LEMMA ControlKept ==
    ASSUME TreeAssumption, NoneAssumption, SourcesOK, ControlOK, [Next]_vars PROVE ControlOK'
<1> USE DEF ControlOK
<1>1. ASSUME NEW w \in Runner, Step(w) PROVE ControlOK'
  <2>1. CASE \E f \in File : Missing(w, f) \/ Unchanged(w, f) \/ RefreshFooter(w, f) \/ Ask(w, f)
    BY <2>1, UpdateKeeps
  <2>2. CASE Answer(w) \/ Truncated(w) \/ NoAnswer(w)
    BY <2>2, AnswerKeeps
  <2>3. CASE ClearWrite(w)
    BY <2>3, ClearWriteKeeps
  <2>4. CASE \/ EndLoop(w) \/ Reindex(w) \/ Topology(w) \/ ReadQueue(w) \/ Drained(w)
             \/ ClearRead(w) \/ BuildIndex(w) \/ IndexFails(w) \/ Reconcile(w)
             \/ Return(w)
    BY <2>4, StagesKeep
  <2> QED
    BY <1>1, <2>1, <2>2, <2>3, <2>4 DEF Step
<1>2. ASSUME NEW w \in Runner, Raise(w) \/ Kill(w) PROVE ControlOK'
  BY <1>2, StagesKeep, KillKeeps
<1>3. CASE WatchSweep
  <2>1. Watch \in Runner /\ "project" \in Modes /\ FALSE \in BOOLEAN /\ Present \in SUBSET File
    BY DEF Runner, Modes, Present
  <2> QED
    BY <1>3, <2>1, BeginKeeps DEF WatchSweep
<1>4. ASSUME NEW w \in Others, UpdateProject(w) PROVE ControlOK'
  <2>1. w \in Runner /\ "project" \in Modes /\ Present \in SUBSET File
    BY DEF Runner, Modes, Present
  <2> QED
    BY <1>4, <2>1, BeginKeeps DEF UpdateProject
<1>5. ASSUME NEW w \in Others, UpdateDirectory(w) PROVE ControlOK'
  <2>1. PICK d \in Dir, scope \in SUBSET File : Begin(w, "directory", FALSE, scope)
    BY <1>5 DEF UpdateDirectory, Present
  <2>2. w \in Runner /\ "directory" \in Modes /\ FALSE \in BOOLEAN
    BY DEF Runner, Modes
  <2> QED
    BY <2>1, <2>2, BeginKeeps
<1>6. ASSUME NEW w \in Others, UpdateFiles(w) PROVE ControlOK'
  <2>1. PICK fs \in SUBSET File : Begin(w, "files", FALSE, fs)
    BY <1>6 DEF UpdateFiles
  <2>2. w \in Runner /\ "files" \in Modes /\ FALSE \in BOOLEAN
    BY DEF Runner, Modes
  <2> QED
    BY <2>1, <2>2, BeginKeeps
<1>7. ASSUME NEW h \in Hook, WriteHeader(h) \/ Append(h) \/ \E f \in File : QuickDesign(h, f)
      PROVE  ControlOK'
  BY <1>7, WriteHeaderKeeps, AppendKeeps, QuickDesignKeeps
<1>8. ASSUME NEW f \in File, Edit(f) \/ Delete(f) PROVE ControlOK'
  BY <1>8, ChangeKeeps DEF Edit, Delete
<1>9. CASE WatchSkip \/ UNCHANGED vars
  BY <1>9 DEF WatchSkip, vars, entries, process, RunsOK, QueueOK, Accounted, Safe
<1> QED
  BY <1>1, <1>2, <1>3, <1>4, <1>5, <1>6, <1>7, <1>8, <1>9 DEF Next

IInv == TypeOK /\ Accounted

LEMMA InitIInv == TreeAssumption /\ NoneAssumption /\ StartAssumption /\ Init => IInv
<1> SUFFICES ASSUME NoneAssumption, StartAssumption, Init PROVE IInv
  OBVIOUS
<1>1. SourcesOK
  BY DEF Init, SourcesOK, StartAssumption, Present
<1>2. RunsOK
  BY IdleTyped DEF Init, RunsOK
<1>3. QueueOK /\ LibraryOK
  BY DEF Init, QueueOK, LibraryOK
<1>4. Accounted
  BY IdleTyped DEF Init, Accounted, Draining
<1> QED
  BY <1>1, <1>2, <1>3, <1>4 DEF IInv, TypeOK

LEMMA NextIInv == TreeAssumption /\ NoneAssumption /\ IInv /\ [Next]_vars => IInv'
BY SourcesKept, ControlKept, GraphKept, DesignsKept
   DEF IInv, TypeOK, ControlOK, LibraryOK

(* Every run, hook, entry and file written keeps its type; in particular a *)
(* design file is only ever made from a source that was read.              *)
THEOREM TypeCorrect == Spec => []TypeOK
<1>1. Init => IInv
  BY InitIInv, TreeAssumption, NoneAssumption, StartAssumption
<1>2. IInv /\ [Next]_vars => IInv'
  BY NextIInv, TreeAssumption, NoneAssumption
<1>3. IInv => TypeOK
  BY DEF IInv
<1> QED
  BY <1>1, <1>2, <1>3, PTL DEF Spec

(* What was ever queued and is not on the list was handled, or was queued  *)
(* while a rewrite was on its way.                                         *)
THEOREM QueueAccounted == Spec => []Accounted
<1>1. Init => IInv
  BY InitIInv, TreeAssumption, NoneAssumption, StartAssumption
<1>2. IInv /\ [Next]_vars => IInv'
  BY NextIInv, TreeAssumption, NoneAssumption
<1>3. IInv => Accounted
  BY DEF IInv
<1> QED
  BY <1>1, <1>2, <1>3, PTL DEF Spec

-----------------------------------------------------------------------------
(* The queue implements WorkList                                           *)

Promised == [Promise!Next]_(Promise!vars)

LEMMA Stutters ==
    ASSUME UNCHANGED entries PROVE Promised
BY DEF Promised, Promise!vars, entries

LEMMA ConcludesPromised ==
    ASSUME NEW w \in Runner, NEW f \in File, NEW result, Concludes(w, f, result)
    PROVE  Promised
<1>1. handled' = handled \/ handled' = handled \cup {f}
  BY DEF Concludes
<1>2. UNCHANGED <<queue, known, exposed, torn>>
  BY DEF Concludes
<1> QED
  BY <1>1, <1>2 DEF Promised, Promise!vars, Promise!Next, Promise!Conclude

LEMMA StepPromised ==
    ASSUME RunsOK, QueueOK, Accounted, NEW w \in Runner, Step(w) \/ Raise(w) \/ Kill(w)
    PROVE  Promised
<1>1. CASE \E f \in File : Missing(w, f) \/ Unchanged(w, f) \/ RefreshFooter(w, f) \/ Ask(w, f)
  BY <1>1, ConcludesPromised, Stutters DEF Missing, Unchanged, RefreshFooter, Ask
<1>2. CASE Answer(w) \/ Truncated(w) \/ NoAnswer(w)
  <2>1. run[w].turn \in File
    BY <1>2 DEF Answer, Truncated, NoAnswer, RunsOK, Runs
  <2> QED
    BY <1>2, <2>1, ConcludesPromised DEF Answer, Truncated, NoAnswer
<1>3. CASE ClearWrite(w)
  <2>1. queue'.lines = run[w].keep /\ UNCHANGED <<known, handled, exposed, torn>>
    BY <1>3 DEF ClearWrite
  <2>2. /\ run[w].keep \subseteq known
        /\ known \ run[w].keep \subseteq Safe /\ queue.lines \subseteq known
    BY <1>3 DEF ClearWrite, Accounted
  <2>3. Promise!Rewrite
    BY <2>1, <2>2 DEF Promise!Rewrite, Safe
  <2> QED
    BY <2>3 DEF Promised, Promise!Next
<1>4. CASE \/ EndLoop(w) \/ Reindex(w) \/ Topology(w) \/ ReadQueue(w) \/ Drained(w)
           \/ ClearRead(w) \/ BuildIndex(w) \/ IndexFails(w) \/ Reconcile(w)
           \/ Return(w) \/ Raise(w)
  BY <1>4, Stutters DEF EndLoop, Reindex, Topology, ReadQueue, Drained, ClearRead, BuildIndex,
         IndexFails, Reconcile, Return, Raise
<1>5. CASE Kill(w)
  <2>1. CASE UNCHANGED <<queue, torn, exposed>>
    BY <1>5, <2>1, Stutters DEF Kill, entries
  <2>2. CASE /\ queue' = [queue EXCEPT !.lines = {}] /\ torn' = torn + 1
             /\ exposed' = exposed \cup queue.lines
    <3>1. queue'.lines = {} /\ UNCHANGED <<known, handled>>
      BY <1>5, <2>2 DEF Kill, QueueOK
    <3>2. Promise!Tear
      BY <2>2, <3>1 DEF Promise!Tear
    <3> QED
      BY <3>2 DEF Promised, Promise!Next
  <2> QED
    BY <1>5, <2>1, <2>2 DEF Kill
<1> QED
  BY <1>1, <1>2, <1>3, <1>4, <1>5 DEF Step

LEMMA HookPromised ==
    ASSUME QueueOK, Accounted, NEW h \in Hook,
           WriteHeader(h) \/ Append(h) \/ \E f \in File : QuickDesign(h, f)
    PROVE  Promised
<1>1. CASE WriteHeader(h)
  <2>1. queue'.lines = {} /\ UNCHANGED <<known, handled, exposed, torn>>
    BY <1>1 DEF WriteHeader
  <2>2. known \subseteq Safe /\ queue.lines \subseteq known
    BY <1>1 DEF WriteHeader, Accounted
  <2>3. Promise!Rewrite
    BY <2>1, <2>2 DEF Promise!Rewrite, Safe
  <2> QED
    BY <2>3 DEF Promised, Promise!Next
<1>2. CASE Append(h)
  <2>1. PICK f \in File : f = hook[h].file
    BY <1>2 DEF QueueOK, Append
  <2>2. queue'.lines = queue.lines \cup {f}
    BY <1>2, <2>1 DEF QueueOK, Append
  <2>3. /\ known' = known \cup {f} /\ handled' = handled \ {f} /\ torn' = torn
        /\ exposed' \in {exposed \cup {f}, exposed \ {f}}
    BY <1>2, <2>1 DEF Append
  <2>4. Promise!Put(f)
    BY <2>2, <2>3 DEF Promise!Put
  <2> QED
    BY <2>1, <2>4 DEF Promised, Promise!Next
<1>3. CASE \E f \in File : QuickDesign(h, f)
  BY <1>3, Stutters DEF QuickDesign
<1> QED
  BY <1>1, <1>2, <1>3

LEMMA NextPromised ==
    ASSUME RunsOK, QueueOK, Accounted, [Next]_vars PROVE Promised
<1>1. CASE \E w \in Runner : Step(w) \/ Raise(w) \/ Kill(w)
  BY <1>1, StepPromised
<1>2. CASE \/ \E h \in Hook : WriteHeader(h) \/ Append(h)
           \/ \E h \in Hook, f \in File : QuickDesign(h, f)
  BY <1>2, HookPromised
<1>3. CASE \/ WatchSweep \/ WatchSkip \/ UNCHANGED vars
           \/ \E w \in Others : UpdateProject(w) \/ UpdateDirectory(w) \/ UpdateFiles(w)
           \/ \E f \in File : Edit(f) \/ Delete(f)
  BY <1>3, Stutters DEF WatchSweep, WatchSkip, vars, UpdateProject, UpdateDirectory,
                        UpdateFiles, Begin, Edit, Delete, Change
<1> QED
  BY <1>1, <1>2, <1>3 DEF Next

(* The enrichment queue, with its hooks, draining runs, kills and torn     *)
(* files, implements WorkList: an entry leaves the file only once a run    *)
(* has concluded it since it was queued, unless it was queued while a      *)
(* rewrite that cannot know of it was on its way.                          *)
THEOREM QueueImplementsWorkList == Spec => QueueKeepsPromise
<1>1. Init => IInv
  BY InitIInv, TreeAssumption, NoneAssumption, StartAssumption
<1>2. IInv /\ [Next]_vars => IInv'
  BY NextIInv, TreeAssumption, NoneAssumption
<1>3. IInv /\ [Next]_vars => Promised
  BY NextPromised DEF IInv, TypeOK
<1>4. Init => Promise!Init
  BY DEF Init, Promise!Init
<1> QED
  BY <1>1, <1>2, <1>3, <1>4, PTL DEF Spec, QueueKeepsPromise, Promise!Spec, Promised

-----------------------------------------------------------------------------
(* What the watch loop may skip                                            *)

(* f is up to date, or there is somebody or something to blame.            *)
Attended(f) ==
    \/ Fresh(f) \/ f \in failed \/ f \in late
    \/ \E w \in Runner : run[w].turn = f

(* The sweep's todo shrinks only by files that are attended to, so that    *)
(* the time taken at its end vouches for all of them.                      *)
Attentive ==
    /\ swept => \A f \in Present \ newer : Attended(f)
    /\ run[Watch].at # "idle" => \A f \in Present \ run[Watch].todo : Attended(f)
    /\ run[Watch].at \notin {"idle", "loop", "ask"} => run[Watch].todo = {}
    /\ \A w \in Runner : run[w].turn # None =>
            run[w].seen = content[run[w].turn] \/ run[w].turn \in late

LEMMA GoAttentive ==
    ASSUME RunsOK, Attentive, NEW w \in Runner, NEW r \in Runs, Go(w, r), content' = content,
           \A f \in Present : Attended(f) => Attended(f)',
           \/ ~swept'
           \/ swept /\ newer' = newer
           \/ \A f \in Present : Attended(f)',
           w = Watch /\ r.at # "idle" => \A f \in Present \ r.todo : Attended(f)',
           w = Watch /\ r.at \notin {"idle", "loop", "ask"} => r.todo = {},
           r.turn # None => r.seen = content[r.turn] \/ r.turn \in late',
           \A f \in late \ late' : ~Outdated(f)
    PROVE  Attentive'
<1>1. Watch \in Runner /\ Present' = Present
  BY DEF Runner, Present
<1>2. swept' => \A f \in Present \ newer' : Attended(f)'
  BY DEF Attentive
<1>3. run'[Watch].at # "idle" => \A f \in Present \ run'[Watch].todo : Attended(f)'
  BY <1>1, GoFrame DEF Attentive
<1>4. run'[Watch].at \notin {"idle", "loop", "ask"} => run'[Watch].todo = {}
  BY <1>1, GoFrame DEF Attentive
<1>5. \A v \in Runner : run'[v].turn # None =>
        run'[v].seen = content[run'[v].turn] \/ run'[v].turn \in late'
  BY GoFrame DEF Attentive, Outdated
<1> QED
  BY <1>1, <1>2, <1>3, <1>4, <1>5 DEF Attentive

(* A step that concludes nothing and asks nothing.                         *)
LEMMA PlainAttentive ==
    ASSUME RunsOK, Attentive, NEW w \in Runner, NEW r \in Runs, Go(w, r), content' = content,
           UNCHANGED <<late, failed>>,
           \A f \in Present : Fresh(f) => Fresh(f)',
           run[w].turn = None, r.turn = None, NoneAssumption,
           \/ ~swept'
           \/ swept /\ newer' = newer
           \/ \A f \in Present : Attended(f),
           w = Watch /\ r.at # "idle" =>
                \/ Present \subseteq r.todo
                \/ run[w].at # "idle" /\ r.todo = run[w].todo,
           w = Watch /\ r.at \notin {"idle", "loop", "ask"} => r.todo = {}
    PROVE  Attentive'
<1>1. \A f \in Present : Attended(f) => Attended(f)'
  BY GoFrame DEF Attended, Present, NoneAssumption
<1>2. w = Watch /\ r.at # "idle" => \A f \in Present \ r.todo : Attended(f)'
  BY <1>1 DEF Attentive
<1> QED
  BY <1>1, <1>2, GoAttentive

LEMMA ConcludesAttentive ==
    ASSUME TreeAssumption, NoneAssumption, RunsOK, Attentive,
           NEW w \in Runner, NEW f \in File, NEW result \in Results, Concludes(w, f, result),
           \/ run[w].at \in {"loop", "drain"} \/ run[w].turn = f,
           \A g \in File \ {f} : design'[g] = design[g],
           \/ result \in {"failed", "raised"}
           \/ content[f] = None \/ Fresh(f)'
           \/ f \in late /\ (w = Watch => Outdated(f))
    PROVE  Attentive'
<1>0. PICK r : r = IF run[w].at \in {"loop", "ask"} THEN InLoop(run[w], f, result)
                   ELSE InQueue(run[w], f, result)
  OBVIOUS
<1>1. run[w] \in Runs
  BY DEF RunsOK
<1>2. /\ r \in Runs /\ r.turn = None /\ r.at \in {"loop", "drain"}
      /\ run[w].at \in {"loop", "ask"} => r.todo = run[w].todo \ {f} /\ r.at = "loop"
      /\ run[w].at \notin {"loop", "ask"} => r.todo = run[w].todo
  <2>1. CASE run[w].at \in {"loop", "ask"}
    <3>1. r = InLoop(run[w], f, result)
      BY <1>0, <2>1
    <3> QED
      BY <1>1, <2>1, <3>1, InLoopTyped
  <2>2. CASE run[w].at \notin {"loop", "ask"}
    <3>1. r = InQueue(run[w], f, result)
      BY <1>0, <2>2
    <3> QED
      BY <1>1, <2>2, <3>1, InQueueTyped
  <2> QED
    BY <2>1, <2>2
<1>3. Go(w, r)
  BY <1>0, Zenon DEF Concludes
<1>4. /\ UNCHANGED <<content, newer, swept>>
      /\ late \ {f} \subseteq late' /\ failed \ {f} \subseteq failed'
      /\ result \in {"failed", "raised"} => f \in failed'
      /\ (w = Watch => Outdated(f)) => late' = late
      /\ \A g \in late \ late' : ~Outdated(g)
  BY DEF Concludes, files
<1>5. content[f] # None => Attended(f)'
  BY <1>4 DEF Attended
<1>6. \A g \in Present \ {f} : Attended(g) => Attended(g)'
  <2>1. ASSUME NEW g \in Present \ {f}, Attended(g) PROVE Attended(g)'
    <3>1. g \in File
      BY DEF Present
    <3>2. CASE Fresh(g)
      BY <1>4, <3>1, <3>2 DEF Attended, Fresh
    <3>3. CASE g \in failed \/ g \in late
      BY <1>4, <3>3 DEF Attended
    <3>4. CASE \E v \in Runner : run[v].turn = g
      <4>1. PICK v \in Runner : run[v].turn = g
        BY <3>4
      <4>2. v # w
        BY <3>1, <4>1 DEF RunsOK, NoneAssumption
      <4> QED
        BY <1>2, <1>3, <4>1, <4>2, GoFrame DEF Attended
    <3> QED
      BY <2>1, <3>2, <3>3, <3>4 DEF Attended
  <2> QED
    BY <2>1
<1>7. \A g \in Present : Attended(g) => Attended(g)'
  BY <1>5, <1>6 DEF Present
<1>8. w = Watch /\ r.at # "idle" => \A g \in Present \ r.todo : Attended(g)'
  BY <1>2, <1>5, <1>7, <1>4 DEF Attentive, Present, RunsOK
<1>9. w = Watch /\ r.at \notin {"idle", "loop", "ask"} => r.todo = {}
  BY <1>2 DEF Attentive, RunsOK
<1>10. \/ ~swept'
       \/ swept /\ newer' = newer
       \/ \A g \in Present : Attended(g)'
  BY <1>4
<1> QED
  BY <1>2, <1>3, <1>4, <1>7, <1>8, <1>9, <1>10, GoAttentive

LEMMA DepsTyped ==
    ASSUME SourcesOK, LibraryOK, NEW f \in File
    PROVE  Deps(f) \in SUBSET File /\ Dependents(f) \in SUBSET File
BY DEF Deps, Dependents, Present, SourcesOK, LibraryOK

LEMMA RefreshFooterFresh ==
    ASSUME SourcesOK, LibraryOK, NEW w \in Runner, NEW f \in File, RefreshFooter(w, f)
    PROVE  Fresh(f)' /\ \A g \in File \ {f} : design'[g] = design[g]
<1>1. PICK d \in Designs : d = design[f]
  BY DEF RefreshFooter, LibraryOK
<1>2. design'[f] = [d EXCEPT !.of = content[f]] /\ content' = content
  BY <1>1 DEF RefreshFooter, LibraryOK, Concludes, files
<1>3. content[f] \in SUBSET File
  BY DEF RefreshFooter, SourcesOK
<1>4. design'[f].of = content[f] /\ design'[f] \in Designs
  BY <1>1, <1>2, <1>3 DEF Designs
<1>5. design'[f] # None
  BY <1>4, DesignAssumption
<1>6. Fresh(f)'
  BY <1>2, <1>4, <1>5 DEF Fresh
<1> QED
  BY <1>6 DEF RefreshFooter, LibraryOK

LEMMA UpdateAttentive ==
    ASSUME TreeAssumption, NoneAssumption, SourcesOK, LibraryOK, RunsOK, Attentive,
           NEW w \in Runner, NEW f \in File,
           Missing(w, f) \/ Unchanged(w, f) \/ RefreshFooter(w, f) \/ Ask(w, f)
    PROVE  Attentive'
<1>1. run[w].at \in {"loop", "drain"} /\ run[w] \in Runs /\ run[w].turn = None
  BY DEF Missing, Unchanged, RefreshFooter, Ask, Turn, RunsOK
<1>2. CASE Missing(w, f)
  <2>1. CASE Concludes(w, f, "missing") \/ Concludes(w, f, "raised")
    BY <1>1, <1>2, <2>1, ConcludesAttentive DEF Results, Missing
  <2>2. CASE /\ Go(w, [run[w] EXCEPT !.todo = @ \ {f}]) /\ run[w].at = "loop"
             /\ UNCHANGED <<files, design, swept, late, failed>>
    <3>1. PICK r : r = [run[w] EXCEPT !.todo = run[w].todo \ {f}]
      OBVIOUS
    <3>2. r \in Runs /\ r.at = "loop" /\ r.turn = None /\ r.todo = run[w].todo \ {f}
      BY <1>1, <2>2, <3>1 DEF Runs
    <3>3. Go(w, r)
      BY <2>2, <3>1
    <3>4. f \notin Present
      BY <1>2 DEF Missing, Present
    <3>5. \A g \in Present : Attended(g) => Attended(g)'
      BY <1>1, <2>2, <3>2, <3>3, GoFrame DEF Attended, Fresh, NoneAssumption, Present, files
    <3> QED
      BY <1>1, <2>2, <3>2, <3>3, <3>4, <3>5, GoAttentive DEF Attentive, files
  <2> QED
    BY <1>2, <2>1, <2>2 DEF Missing
<1>3. CASE Unchanged(w, f)
  <2>1. Fresh(f)'
    BY <1>3 DEF Unchanged, Concludes, Fresh, files
  <2> QED
    BY <1>1, <1>3, <2>1, ConcludesAttentive DEF Results, Unchanged
<1>4. CASE RefreshFooter(w, f)
  BY <1>1, <1>4, RefreshFooterFresh, ConcludesAttentive DEF Results, RefreshFooter
<1>5. CASE Ask(w, f)
  <2>1. PICK at : at = IF run[w].at = "loop" THEN "ask" ELSE "askQueued"
    OBVIOUS
  <2>2. PICK r : r = [run[w] EXCEPT !.at = at, !.turn = f, !.seen = content[f]]
    OBVIOUS
  <2>3. /\ Go(w, r) /\ content[f] # None /\ UNCHANGED <<content, newer, swept, late, failed>>
        /\ design' = [design EXCEPT ![f] = None]
    BY <1>5, <2>1, <2>2, Zenon DEF Ask, files
  <2>4. content[f] \in SUBSET File
    BY <2>3 DEF SourcesOK
  <2>5. /\ r \in Runs /\ r.at = at /\ r.turn = f /\ r.seen = content[f]
        /\ r.todo = run[w].todo
    <3>1. PICK x : x = [run[w] EXCEPT !.at = at]
      OBVIOUS
    <3>2. x \in Runs /\ x.at = at /\ x.todo = run[w].todo
      BY <1>1, <2>1, <3>1 DEF Runs, Stages
    <3>3. r = [x EXCEPT !.turn = f, !.seen = content[f]]
      BY <1>1, <2>2, <3>1 DEF Runs
    <3> QED
      BY <2>4, <3>2, <3>3 DEF Runs
  <2>6. \A g \in Present : Attended(g) => Attended(g)'
    <3>1. ASSUME NEW g \in Present, Attended(g) PROVE Attended(g)'
      <4>1. CASE g = f
        BY <2>3, <2>5, <4>1, GoFrame DEF Attended
      <4>2. CASE g # f /\ Fresh(g)
        BY <2>3, <4>2 DEF Attended, Fresh, Present, LibraryOK
      <4>3. CASE g \in failed \/ g \in late
        BY <2>3, <4>3 DEF Attended
      <4>4. CASE g # f /\ \E v \in Runner : run[v].turn = g
        BY <1>1, <2>3, <2>5, <4>4, GoFrame DEF Attended, NoneAssumption, Present
      <4> QED
        BY <3>1, <4>1, <4>2, <4>3, <4>4 DEF Attended
    <3> QED
      BY <3>1
  <2> QED
    BY <1>1, <2>1, <2>3, <2>5, <2>6, GoAttentive DEF Attentive
<1> QED
  BY <1>2, <1>3, <1>4, <1>5

LEMMA AnswerAttentive ==
    ASSUME TreeAssumption, NoneAssumption, SourcesOK, LibraryOK, RunsOK, Attentive,
           NEW w \in Runner, Answer(w) \/ Truncated(w) \/ NoAnswer(w)
    PROVE  Attentive'
<1>1. PICK f \in File : f = run[w].turn
  BY DEF Answer, Truncated, NoAnswer, RunsOK, Runs
<1>2. run[w].at \in {"ask", "askQueued"} /\ f # None
  BY <1>1 DEF RunsOK, NoneAssumption
<1>3. CASE Answer(w)
  <2>1. /\ design' = [design EXCEPT ![f] =
               [of |-> run[w].seen, by |-> "llm", at |-> run[w].seen,
                deps |-> Deps(f), dependents |-> Dependents(f)]]
        /\ Concludes(w, f, "new")
    BY <1>1, <1>3 DEF Answer
  <2>2. PICK d : d = [of |-> run[w].seen, by |-> "llm", at |-> run[w].seen,
                      deps |-> Deps(f), dependents |-> Dependents(f)]
    OBVIOUS
  <2>3. design'[f] = d /\ d.of = run[w].seen /\ \A g \in File \ {f} : design'[g] = design[g]
    BY <2>1, <2>2 DEF LibraryOK
  <2>4. d # None
    <3>1. run[w].seen \in SUBSET File
      BY <1>1, <1>2 DEF RunsOK, Runs
    <3>2. d \in Designs
      BY <2>2, <3>1, DepsTyped DEF Designs
    <3> QED
      BY <3>2, DesignAssumption
  <2>5. run[w].seen = content[f] => Fresh(f)'
    BY <2>1, <2>3, <2>4 DEF Fresh, Concludes, files
  <2>6. run[w].seen # content[f] => f \in late /\ Outdated(f)
    BY <1>1, <1>2 DEF Attentive, Outdated
  <2> QED
    BY <1>1, <2>1, <2>3, <2>5, <2>6, ConcludesAttentive DEF Results
<1>4. CASE Truncated(w)
  <2>1. /\ design' = [design EXCEPT ![f] = Skeleton(f)]
        /\ Concludes(w, f, "new")
    BY <1>1, <1>4 DEF Truncated
  <2>2. PICK d : d = Skeleton(f)
    OBVIOUS
  <2>3. design'[f] = d /\ d.of = content[f] /\ \A g \in File \ {f} : design'[g] = design[g]
    BY <2>1, <2>2 DEF LibraryOK, Skeleton
  <2>4. d # None
    <3>1. content[f] \in SUBSET File
      BY <1>1, <1>4 DEF Truncated, SourcesOK
    <3>2. d \in Designs
      BY <2>2, <3>1, DepsTyped DEF Designs, Skeleton
    <3> QED
      BY <3>2, DesignAssumption
  <2>5. Fresh(f)'
    BY <2>1, <2>3, <2>4 DEF Fresh, Concludes, files
  <2> QED
    BY <1>1, <2>1, <2>3, <2>5, ConcludesAttentive DEF Results
<1>5. CASE NoAnswer(w)
  BY <1>1, <1>5, ConcludesAttentive DEF Results, NoAnswer
<1> QED
  BY <1>3, <1>4, <1>5

LEMMA StepAttentive ==
    ASSUME TreeAssumption, NoneAssumption, SourcesOK, LibraryOK, RunsOK, Attentive,
           QueueOK, Accounted, NEW w \in Runner,
           \/ EndLoop(w) \/ Reindex(w) \/ Topology(w) \/ ReadQueue(w) \/ Drained(w)
           \/ ClearRead(w) \/ ClearWrite(w) \/ BuildIndex(w) \/ IndexFails(w)
           \/ Reconcile(w) \/ Return(w) \/ Raise(w)
    PROVE  Attentive'
<1>1. run[w] \in Runs /\ run[w].turn = None /\ run[w].at # "idle"
  BY DEF RunsOK, EndLoop, Reindex, Topology, ReadQueue, Drained, ClearRead, ClearWrite,
         BuildIndex, IndexFails, Reconcile, Return, Raise
<1>2. UNCHANGED <<content, late, failed>>
  BY DEF EndLoop, Reindex, Topology, ReadQueue, Drained, ClearRead, ClearWrite,
         BuildIndex, IndexFails, Reconcile, Return, Raise, files
<1>3. \A f \in Present : Fresh(f) => Fresh(f)'
  <2>1. CASE UNCHANGED design
    BY <1>2, <2>1 DEF Fresh
  <2>2. CASE Reconcile(w)
    <3>1. PICK g \in File : \/ design' = design
                            \/ /\ design[g] # None
                               /\ design' = [design EXCEPT ![g].deps = Deps(g),
                                                           ![g].dependents = Dependents(g)]
      BY <2>2 DEF Reconcile
    <3>2. CASE /\ design[g] # None
               /\ design' = [design EXCEPT ![g].deps = Deps(g), ![g].dependents = Dependents(g)]
      <4>1. PICK d \in Designs : d = design[g]
        BY <3>2 DEF LibraryOK
      <4>2. PICK x : x = [d EXCEPT !.deps = Deps(g)]
        OBVIOUS
      <4>3. PICK y : y = [x EXCEPT !.dependents = Dependents(g)]
        OBVIOUS
      <4>4. x \in Designs /\ x.of = d.of
        BY <4>1, <4>2, DepsTyped DEF Designs
      <4>5. y \in Designs /\ y.of = d.of
        BY <4>3, <4>4, DepsTyped DEF Designs
      <4>6. design' = [design EXCEPT ![g] = y]
        BY <3>2, <4>1, <4>2, <4>3 DEF LibraryOK
      <4>7. y # None
        BY <4>5, DesignAssumption
      <4> QED
        BY <1>2, <4>1, <4>5, <4>6, <4>7 DEF Fresh, LibraryOK
    <3> QED
      BY <2>1, <3>1, <3>2
  <2> QED
    BY <2>1, <2>2 DEF EndLoop, Reindex, Topology, ReadQueue, Drained, ClearRead, ClearWrite,
         BuildIndex, IndexFails, Return, Raise, library
<1>4. CASE Return(w) \/ Raise(w)
  <2>1. Go(w, Idle)
    BY <1>4 DEF Return, Raise
  <2>2. \/ swept' = swept /\ newer' = newer
        \/ w = Watch /\ run[w].at = "done"
    BY <1>4 DEF Return, Raise, files
  <2>3. w = Watch /\ run[w].at = "done" => \A f \in Present : Attended(f)
    BY DEF Attentive
  <2>4. \/ ~swept'
        \/ swept /\ newer' = newer
        \/ \A f \in Present : Attended(f)
    BY <2>2, <2>3
  <2> QED
    BY <1>1, <1>2, <1>3, <2>1, <2>4, IdleTyped, PlainAttentive
<1>5. CASE ~(Return(w) \/ Raise(w))
  <2>1. UNCHANGED <<newer, swept>>
    BY <1>5 DEF EndLoop, Reindex, Topology, ReadQueue, Drained, ClearRead, ClearWrite,
         BuildIndex, IndexFails, Reconcile, files
  <2>2. PICK r \in Runs : Go(w, r) /\ r.turn = None /\ (r.todo = run[w].todo \/ r = Idle)
    BY StagesKeep, ClearWriteKeeps DEF Moves
  <2>3. w = Watch => run[w].todo = {}
    <3>1. run[w].at # "ask" /\ (run[w].at = "loop" => run[w].todo = {})
      BY <1>5 DEF EndLoop, Reindex, Topology, ReadQueue, Drained, ClearRead, ClearWrite,
         BuildIndex, IndexFails, Reconcile
    <3> QED
      BY <1>1, <3>1 DEF Attentive
  <2>4. w = Watch /\ r.at # "idle" => r.todo = run[w].todo
    BY <2>2, IdleTyped
  <2> QED
    BY <1>1, <1>2, <1>3, <2>1, <2>2, <2>3, <2>4, PlainAttentive
<1> QED
  BY <1>4, <1>5

LEMMA ChangeAttentive ==
    ASSUME NoneAssumption, SourcesOK, RunsOK, Attentive, NEW f \in File, Edit(f) \/ Delete(f)
    PROVE  Attentive'
<1>1. PICK v \in (SUBSET File) \cup {None} :
        Change(f, v) /\ newer' = IF v = None THEN newer \ {f} ELSE newer \cup {f}
  BY DEF Edit, Delete, Contents, NoneAssumption
<1>2. /\ Disturb /\ UNCHANGED <<design, swept, failed>>
      /\ content' = [content EXCEPT ![f] = v]
      /\ late' = IF LookedAt(f) THEN late \cup {f} ELSE late
  BY <1>1 DEF Change, library
<1>3. Watch \in Runner
  BY DEF Runner
<1>4. \A w \in Runner : /\ run'[w].at = run[w].at /\ run'[w].turn = run[w].turn
                        /\ run'[w].seen = run[w].seen /\ run'[w].todo = run[w].todo
  BY <1>2, DisturbFrame
<1>5. \A g \in Present' \ {f} : g \in Present /\ (Attended(g) => Attended(g)')
  <2>1. ASSUME NEW g \in Present' \ {f} PROVE g \in Present /\ content'[g] = content[g]
    BY <1>2 DEF Present, SourcesOK
  <2> QED
    BY <1>2, <1>4, <2>1 DEF Attended, Fresh, Present
<1>6. swept' => \A g \in Present' \ newer' : Attended(g)'
  <2>1. f \in Present' => f \in newer'
    BY <1>1, <1>2 DEF Present, SourcesOK
  <2> QED
    BY <1>1, <1>2, <1>5, <2>1 DEF Attentive
<1>7. run'[Watch].at # "idle" => \A g \in Present' \ run'[Watch].todo : Attended(g)'
  <2>1. run[Watch].at # "idle" /\ f \notin run[Watch].todo => f \in late'
    BY <1>2 DEF LookedAt
  <2> QED
    BY <1>3, <1>4, <1>5, <2>1 DEF Attentive, Attended
<1>8. \A w \in Runner : run'[w].turn # None =>
        run'[w].seen = content'[run'[w].turn] \/ run'[w].turn \in late'
  <2>1. ASSUME NEW w \in Runner, run[w].turn # None
        PROVE  run[w].seen = content'[run[w].turn] \/ run[w].turn \in late'
    <3>1. CASE run[w].turn = f
      BY <1>2, <3>1 DEF LookedAt
    <3>2. CASE run[w].turn # f
      BY <1>2, <2>1, <3>2 DEF Attentive, SourcesOK, RunsOK, Runs
    <3> QED
      BY <3>1, <3>2
  <2> QED
    BY <1>4, <2>1
<1> QED
  BY <1>3, <1>4, <1>6, <1>7, <1>8 DEF Attentive

LEMMA HookAttentive ==
    ASSUME RunsOK, LibraryOK, SourcesOK, Attentive, NEW h \in Hook,
           WriteHeader(h) \/ Append(h) \/ \E f \in File : QuickDesign(h, f)
    PROVE  Attentive'
<1>1. Disturb /\ UNCHANGED <<content, newer, swept, late, failed>>
  BY DEF WriteHeader, Append, QuickDesign, SetHook, files
<1>2. \A w \in Runner : /\ run'[w].at = run[w].at /\ run'[w].turn = run[w].turn
                        /\ run'[w].seen = run[w].seen /\ run'[w].todo = run[w].todo
  BY <1>1, DisturbFrame
<1>3. \A g \in File : design'[g] = design[g] \/ design[g] = None
  BY DEF WriteHeader, Append, QuickDesign, LibraryOK
<1>4. \A g \in Present : Attended(g) => Attended(g)'
  BY <1>1, <1>2, <1>3 DEF Attended, Fresh, Present
<1> QED
  BY <1>1, <1>2, <1>4 DEF Attentive, Present, Runner

LEMMA BeginAttentive ==
    ASSUME NoneAssumption, RunsOK, Attentive, NEW w \in Runner, NEW m \in Modes,
           NEW forced \in BOOLEAN, NEW scope \in SUBSET File, Begin(w, m, forced, scope),
           w = Watch => scope = Present, late' = late
    PROVE  Attentive'
<1>1. PICK r \in Runs : Go(w, r) /\ r.at = "loop" /\ r.turn = None /\ r.todo = scope
  BY BeginTyped
<1>2. UNCHANGED <<content, newer, swept, design, failed>> /\ run[w].at = "idle"
  BY DEF Begin, files, library
<1>3. run[w].turn = None
  BY <1>2 DEF RunsOK
<1>4. \A f \in Present : Fresh(f) => Fresh(f)'
  BY <1>2 DEF Fresh
<1>5. ~swept' \/ (swept /\ newer' = newer)
  BY <1>2, Zenon
<1>6. w = Watch => Present \subseteq r.todo
  BY <1>1
<1>7. w = Watch /\ r.at \notin {"idle", "loop", "ask"} => r.todo = {}
  BY <1>1
<1> QED
  BY <1>1, <1>2, <1>3, <1>4, <1>5, <1>6, <1>7, PlainAttentive

LEMMA KillAttentive ==
    ASSUME NoneAssumption, RunsOK, SourcesOK, Attentive, NEW w \in Runner, Kill(w)
    PROVE  Attentive'
<1>1. /\ Go(w, Idle) /\ UNCHANGED <<content, design, late>>
      /\ failed' = failed \cup {f \in File : run[w].turn = f}
  BY DEF Kill, library
<1>2. \A f \in Present : Attended(f) => Attended(f)'
  <2>1. ASSUME NEW f \in Present, NEW v \in Runner, run[v].turn = f PROVE Attended(f)'
    BY <1>1, <2>1, IdleTyped, GoFrame DEF Attended, Present
  <2> QED
    BY <1>1, <2>1 DEF Attended, Fresh
<1>3. ~swept' \/ (swept /\ newer' = newer)
  BY DEF Kill
<1> QED
  BY <1>1, <1>2, <1>3, IdleTyped, GoAttentive

LEMMA NextAttentive ==
    ASSUME TreeAssumption, NoneAssumption, IInv, Attentive, [Next]_vars PROVE Attentive'
<1> USE DEF IInv, TypeOK
<1>1. ASSUME NEW w \in Runner, Step(w) \/ Raise(w) \/ Kill(w) PROVE Attentive'
  BY <1>1, UpdateAttentive, AnswerAttentive, StepAttentive, KillAttentive DEF Step
<1>2. ASSUME NEW w \in Runner, NEW m \in Modes, NEW forced \in BOOLEAN,
             NEW scope \in SUBSET File, Begin(w, m, forced, scope),
             w = Watch => scope = Present, late' = late
      PROVE  Attentive'
  BY <1>2, BeginAttentive
<1>3. Present \in SUBSET File /\ {"project", "directory", "files"} \subseteq Modes
  BY DEF Present, Modes
<1>4. CASE WatchSweep
  BY <1>2, <1>3, <1>4 DEF WatchSweep, Runner
<1>5. ASSUME NEW w \in Others, UpdateProject(w) \/ UpdateDirectory(w) \/ UpdateFiles(w)
      PROVE  Attentive'
  <2>1. w \in Runner /\ w # Watch
    BY RunnerAssumption DEF Runner
  <2>2. PICK m \in Modes, forced \in BOOLEAN, scope \in SUBSET File :
          Begin(w, m, forced, scope) /\ late' = late
    <3>1. CASE UpdateProject(w)
      BY <1>3, <3>1 DEF UpdateProject
    <3>2. CASE UpdateDirectory(w)
      <4>1. PICK d \in Dir : Begin(w, "directory", FALSE, {f \in Present : d \in Above[In[f]]})
        BY <3>2 DEF UpdateDirectory
      <4>2. PICK scope \in SUBSET File : scope = {f \in Present : d \in Above[In[f]]}
        BY DEF Present
      <4>3. "directory" \in Modes /\ FALSE \in BOOLEAN /\ late' = late
        BY <1>3, <3>2 DEF UpdateDirectory
      <4> QED
        BY <4>1, <4>2, <4>3
    <3>3. CASE UpdateFiles(w)
      BY <1>3, <3>3 DEF UpdateFiles
    <3> QED
      BY <1>5, <3>1, <3>2, <3>3
  <2> QED
    BY <1>2, <2>1, <2>2
<1>6. CASE \/ \E h \in Hook : WriteHeader(h) \/ Append(h)
           \/ \E h \in Hook, f \in File : QuickDesign(h, f)
  BY <1>6, HookAttentive
<1>7. CASE \E f \in File : Edit(f) \/ Delete(f)
  BY <1>7, ChangeAttentive
<1>8. CASE WatchSkip \/ UNCHANGED vars
  BY <1>8 DEF WatchSkip, vars, files, library, process, Attentive, Attended, Fresh, Present
<1> QED
  BY <1>1, <1>4, <1>5, <1>6, <1>7, <1>8 DEF Next

(* Whatever runs overlap, fail or are killed: when the watch loop sees no  *)
(* reason to sweep, every source has a fresh design file, but for those    *)
(* with somebody or something to blame.                                    *)
THEOREM SkippedMeansSettled == Spec => []SkippedIsSettled
<1>1. Init => IInv /\ Attentive
  <2>1. Init => Attentive
    BY IdleTyped DEF Init, Attentive, Runner
  <2> QED
    BY <2>1, InitIInv, TreeAssumption, NoneAssumption, StartAssumption
<1>2. IInv /\ Attentive /\ [Next]_vars => (IInv /\ Attentive)'
  BY NextIInv, NextAttentive, TreeAssumption, NoneAssumption
<1>3. Attentive => SkippedIsSettled
  BY DEF Attentive, SkippedIsSettled, HasChanges, Attended
<1> QED
  BY <1>1, <1>2, <1>3, PTL DEF Spec

-----------------------------------------------------------------------------
(* What an undisturbed run leaves behind                                   *)

Importers(f) == {g \in File : design[g] # None /\ f \in Deps(g)}
Settled(f) == design[f] # None => design[f].deps = Deps(f) /\ design[f].dependents = Importers(f)
Designed == {f \in File : design[f] # None}

(* What an undisturbed run r has achieved so far: for the sources, ...     *)
OnFiles(r) ==
    /\ r.turn # None => r.seen = content[r.turn]
    /\ r.at # "askQueued"
    /\ r.at \in {"queue", "drain", "clear", "rewrite", "reconcile"} => r.mode = "project"
    /\ r.mode = "project" /\ r.at \in {"loop", "ask"} => \A f \in Present \ r.todo : Fresh(f)
    /\ r.mode = "project" /\ r.at \notin {"idle", "loop", "ask"} => \A f \in Present : Fresh(f)

(* ... the queue, ...                                                      *)
OnQueue(r) ==
    /\ r.at = "drain" => queue.lines \subseteq r.batch \cup r.done
    /\ r.at = "clear" => queue.lines \subseteq r.done
    /\ r.at = "rewrite" => r.keep = {}
    /\ r.mode = "project" /\ r.at \in {"index", "reconcile", "done"} => queue.lines = {}

(* ... the dependencies and dependents, ...                                *)
OnGraph(r) ==
    /\ r.at = "reconcile" => graph = Edges(Designed) /\ \A f \in File \ r.batch : Settled(f)
    /\ r.mode = "project" /\ r.at = "done" => \A f \in File : Settled(f)

(* ... and the indexes, of which no directory that is done lies above one  *)
(* that is not.                                                            *)
OnIndexes(r) ==
    /\ r.at = "reindex" =>
        /\ \A d \in r.dirs \ r.walk : aindex[d] = Index(d)
        /\ \A d \in r.dirs \ r.walk, e \in r.walk : d \notin Above[e]
    /\ r.at \notin {"idle", "loop", "ask", "reindex"} => \A d \in r.dirs : aindex[d] = Index(d)
    /\ r.at \notin {"idle", "loop", "ask", "reindex", "topology"} /\ r.mode # "files" =>
            topology = aindex

OnCourse(r) == OnFiles(r) /\ OnQueue(r) /\ OnGraph(r) /\ OnIndexes(r)

Undisturbed ==
    /\ aindex = [d \in Dir |-> aindex[d]]
    /\ \A w \in Runner : run[w].quiet => OnCourse(run[w])

LEMMA AtFields ==
    ASSUME NEW x \in Runs, NEW at \in Stages
    PROVE  /\ [x EXCEPT !.at = at] \in Runs
           /\ [x EXCEPT !.at = at].at = at
           /\ [x EXCEPT !.at = at].quiet = x.quiet
           /\ [x EXCEPT !.at = at].mode = x.mode
           /\ [x EXCEPT !.at = at].todo = x.todo
           /\ [x EXCEPT !.at = at].turn = x.turn
           /\ [x EXCEPT !.at = at].seen = x.seen
           /\ [x EXCEPT !.at = at].dirs = x.dirs
           /\ [x EXCEPT !.at = at].walk = x.walk
           /\ [x EXCEPT !.at = at].done = x.done
           /\ [x EXCEPT !.at = at].batch = x.batch
           /\ [x EXCEPT !.at = at].keep = x.keep
BY DEF Runs

(* Nobody else is undisturbed by a step of w.                              *)
LEMMA GoUndisturbed ==
    ASSUME RunsOK, NEW w \in Runner, NEW r \in Runs, Go(w, r),
           r.quiet => OnCourse(r)',
           aindex' = [d \in Dir |-> aindex'[d]]
    PROVE  Undisturbed'
<1>1. \A v \in Runner \ {w} : run'[v].quiet = FALSE
  <2>1. \A v \in Runner \ {w} : run'[v] = [run[v] EXCEPT !.quiet = FALSE]
    BY DEF Go
  <2>2. \A v \in Runner : run[v] \in Runs
    BY DEF RunsOK
  <2> QED
    BY <2>1, <2>2 DEF Runs
<1>2. run'[w] = r
  BY DEF Go
<1>3. ASSUME NEW v \in Runner, run'[v].quiet PROVE OnCourse(run[v])'
  <2>1. v = w
    BY <1>1, <1>3, Zenon
  <2>2. r.quiet
    BY <1>2, <1>3, <2>1, Zenon
  <2>3. OnCourse(r)'
    BY <2>2
  <2> QED
    BY <1>2, <2>1, <2>3, Zenon
<1> QED
  BY <1>3, Zenon DEF Undisturbed

LEMMA DisturbUndisturbed ==
    ASSUME RunsOK, Disturb, aindex' = [d \in Dir |-> aindex'[d]]
    PROVE  Undisturbed'
<1>1. \A v \in Runner : run'[v].quiet = FALSE
  BY DEF Disturb, RunsOK, Runs
<1> QED
  BY <1>1, Zenon DEF Undisturbed

(* What depends on the sources and the design files alone.                 *)
LEMMA SameSources ==
    ASSUME UNCHANGED <<content, design>>
    PROVE  /\ Present' = Present /\ Designed' = Designed
           /\ \A f \in File : /\ Fresh(f)' = Fresh(f) /\ Deps(f)' = Deps(f)
                              /\ Description(f)' = Description(f)
                              /\ Importers(f)' = Importers(f)
                              /\ Settled(f)' = Settled(f)
BY DEF Present, Designed, Fresh, Deps, Description, Importers, Settled

LEMMA SameIndex ==
    ASSUME content' = content, NEW d \in Dir,
           \A f \in File : /\ Description(f)' = Description(f)
                           /\ design'[f] = None <=> design[f] = None,
           \A e \in Subdirs(d) : aindex'[e] = aindex[e]
    PROVE  Index(d)' = Index(d)
<1>1. Present' = Present
  BY DEF Present
<1>2. \A e \in Dir : Children(e)' = Children(e)
  BY <1>1 DEF Children
<1>3. Children(d) \subseteq File /\ Subdirs(d) \subseteq Dir
  BY DEF Children, Present, Subdirs
<1>4. Billboard(d)' = Billboard(d)
  <2>1. {c \in Children(d) : design'[c] # None} = {c \in Children(d) : design[c] # None}
    BY <1>3
  <2> QED
    BY <1>2, <1>3, <2>1 DEF Billboard
<1>5. \A e \in Subdirs(d) : Blurb(e)' = Blurb(e)
  BY <1>2, <1>3 DEF Blurb
<1>6. [f \in Children(d) |-> Description(f)]' = [f \in Children(d) |-> Description(f)]
  BY <1>2, <1>3
<1>7. [e \in Subdirs(d) |-> Blurb(e)]' = [e \in Subdirs(d) |-> Blurb(e)]
  BY <1>3, <1>5
<1> QED
  BY <1>4, <1>6, <1>7 DEF Index

(* update_file in the loop, undisturbed.                                   *)
LEMMA LoopCourse ==
    ASSUME RunsOK, NEW r, NEW s \in Runs, NEW f \in File, OnFiles(r), r.at \in {"loop", "ask"},
           s.at = "loop", s.turn = None, s.mode = r.mode, s.todo = r.todo \ {f},
           content' = content, \A g \in File \ {f} : design'[g] = design[g],
           content[f] = None \/ Fresh(f)'
    PROVE  OnCourse(s)'
<1>1. Present' = Present
  BY DEF Present
<1>2. \A g \in Present \ {f} : Fresh(g)' = Fresh(g)
  BY DEF Fresh, Present
<1>3. s.mode = "project" => \A g \in Present \ s.todo : Fresh(g)'
  BY <1>1, <1>2 DEF OnFiles, Present
<1> QED
  BY <1>1, <1>3 DEF OnCourse, OnFiles, OnQueue, OnGraph, OnIndexes

(* After the indexing, while only the queue, the graph and the sections    *)
(* made from it are written.                                               *)
LEMMA LaterIndexes ==
    ASSUME NEW r \in Runs, NEW s \in Runs, OnIndexes(r), s.dirs = r.dirs, s.mode = r.mode,
           r.at \notin {"idle", "loop", "ask", "reindex"},
           s.at \notin {"idle", "loop", "ask", "reindex"},
           UNCHANGED <<content, aindex>>,
           \A f \in File : /\ Description(f)' = Description(f)
                           /\ design'[f] = None <=> design[f] = None,
           \/ s.at = "topology" \/ s.mode = "files" \/ topology' = aindex
           \/ r.at # "topology" /\ topology' = topology
    PROVE  OnIndexes(s)'
<1>1. \A d \in Dir : Index(d)' = Index(d)
  BY SameIndex
<1>2. r.dirs \subseteq Dir
  BY DEF Runs
<1>3. \A d \in s.dirs : aindex'[d] = Index(d)'
  BY <1>1, <1>2 DEF OnIndexes
<1>4. s.at # "topology" /\ s.mode # "files" => topology' = aindex'
  BY DEF OnIndexes
<1> QED
  BY <1>3, <1>4 DEF OnIndexes

LEMMA ConcludesCourse ==
    ASSUME TreeAssumption, NoneAssumption, RunsOK, Undisturbed,
           NEW w \in Runner, NEW f \in File, NEW result \in Results, Concludes(w, f, result),
           aindex' = [d \in Dir |-> aindex'[d]],
           \/ run[w].at \in {"loop", "ask"} /\ \A g \in File \ {f} : design'[g] = design[g]
           \/ run[w].at \in {"drain", "askQueued"} /\ UNCHANGED <<design, aindex>>
           \/ ~OnCourse(run[w]),
           \/ result \in {"failed", "raised"}
           \/ content[f] = None \/ Fresh(f)'
           \/ ~OnCourse(run[w])
    PROVE  Undisturbed'
<1>1. run[w] \in Runs
  BY DEF RunsOK
<1>2. /\ UNCHANGED <<content, queue, graph, topology>>
  BY DEF Concludes, files
<1>3. CASE run[w].at \in {"loop", "ask"}
  <2>1. PICK r : r = InLoop(run[w], f, result)
    OBVIOUS
  <2>2. /\ r \in Runs /\ r.at = "loop" /\ r.turn = None
        /\ r.todo = run[w].todo \ {f} /\ r.mode = run[w].mode
    BY <1>1, <2>1, InLoopTyped
  <2>3. r.quiet => run[w].quiet /\ result \notin {"failed", "raised"}
    BY <1>1, <2>1, InLoopTyped, Zenon
  <2>4. Go(w, r)
    BY <1>3, <2>1, Zenon DEF Concludes
  <2>5. ASSUME r.quiet PROVE OnCourse(r)'
    <3>1. OnCourse(run[w]) /\ result \notin {"failed", "raised"}
      BY <2>3, <2>5, Zenon DEF Undisturbed
    <3> QED
      BY <1>1, <1>2, <1>3, <2>2, <3>1, LoopCourse DEF OnCourse
  <2> QED
    BY <2>2, <2>4, <2>5, GoUndisturbed
<1>4. CASE run[w].at \notin {"loop", "ask"}
  <2>1. PICK r : r = InQueue(run[w], f, result)
    OBVIOUS
  <2>2. /\ r \in Runs /\ r.at = "drain" /\ r.turn = None
        /\ r.batch = run[w].batch \ {f} /\ r.mode = run[w].mode /\ r.dirs = run[w].dirs
        /\ result = "failed" \/ r.done = run[w].done \cup {f}
    BY <1>1, <2>1, InQueueTyped
  <2>3. r.quiet => run[w].quiet /\ result # "failed"
    BY <1>1, <2>1, InQueueTyped, Zenon
  <2>4. Go(w, r)
    BY <1>4, <2>1, Zenon DEF Concludes
  <2>5. ASSUME r.quiet PROVE OnCourse(r)'
    <3>1. OnCourse(run[w]) /\ result # "failed"
      BY <2>3, <2>5, Zenon DEF Undisturbed
    <3>2. run[w].at = "drain" /\ UNCHANGED <<design, aindex>>
      BY <1>4, <3>1 DEF OnCourse, OnFiles
    <3>3. /\ Present' = Present
          /\ \A g \in File : Fresh(g)' = Fresh(g) /\ Description(g)' = Description(g)
      BY <1>2, <3>2, SameSources
    <3>4. OnFiles(r)'
      BY <2>2, <3>1, <3>2, <3>3 DEF OnCourse, OnFiles, Present
    <3>5. OnQueue(r)'
      BY <1>2, <2>2, <3>1, <3>2 DEF OnCourse, OnQueue
    <3>6. OnGraph(r)'
      BY <2>2 DEF OnGraph
    <3>7. OnIndexes(r)'
      BY <1>1, <1>2, <2>2, <3>1, <3>2, <3>3, LaterIndexes DEF OnCourse
    <3> QED
      BY <3>4, <3>5, <3>6, <3>7 DEF OnCourse
  <2> QED
    BY <2>2, <2>4, <2>5, GoUndisturbed
<1> QED
  BY <1>3, <1>4

(* What RefreshEntry does to the indexes keeps them a function.            *)
LEMMA RefreshedIndexes ==
    ASSUME aindex = [d \in Dir |-> aindex[d]], NEW f, NEW by, NEW at, RefreshEntry(f, by, at)
    PROVE  aindex' = [d \in Dir |-> aindex'[d]]
<1>1. ASSUME NEW e, NEW x, aindex' = [aindex EXCEPT ![e] = x]
      PROVE  aindex' = [d \in Dir |-> aindex'[d]]
  BY <1>1
<1>2. CASE UNCHANGED aindex
  BY <1>2
<1>3. CASE aindex' = [aindex EXCEPT ![In[f]].files =
                        [g \in DOMAIN @ \cup {f} |->
                            IF g = f THEN [by |-> by, at |-> at] ELSE @[g]]]
  <2>1. PICK x : x = [aindex[In[f]] EXCEPT !.files =
                        [g \in DOMAIN @ \cup {f} |->
                            IF g = f THEN [by |-> by, at |-> at] ELSE @[g]]]
    OBVIOUS
  <2>2. aindex' = [aindex EXCEPT ![In[f]] = x]
    BY <1>3, <2>1
  <2> QED
    BY <1>1, <2>2
<1> QED
  BY <1>2, <1>3 DEF RefreshEntry

LEMMA UpdateCourse ==
    ASSUME TreeAssumption, NoneAssumption, SourcesOK, LibraryOK, RunsOK, Undisturbed,
           NEW w \in Runner, NEW f \in File,
           Missing(w, f) \/ Unchanged(w, f) \/ RefreshFooter(w, f) \/ Ask(w, f)
    PROVE  Undisturbed'
<1> USE DEF Results
<1>1. run[w].at \in {"loop", "drain"} /\ run[w] \in Runs /\ run[w].turn = None
  BY DEF Missing, Unchanged, RefreshFooter, Ask, Turn, RunsOK
<1>2. aindex' = aindex => aindex' = [d \in Dir |-> aindex'[d]]
  BY DEF Undisturbed
<1>3. OnCourse(run[w]) /\ run[w].at = "drain" => content[f] = None \/ Fresh(f)
  BY DEF OnCourse, OnFiles, Present
<1>4. CASE Missing(w, f)
  <2>1. CASE Concludes(w, f, "missing") \/ Concludes(w, f, "raised")
    BY <1>1, <1>2, <1>4, <2>1, ConcludesCourse DEF Missing
  <2>2. CASE /\ Go(w, [run[w] EXCEPT !.todo = @ \ {f}]) /\ run[w].at = "loop"
             /\ run[w].mode = "files" /\ UNCHANGED aindex
    <3>1. PICK r : r = [run[w] EXCEPT !.todo = run[w].todo \ {f}]
      OBVIOUS
    <3>2. r \in Runs /\ r.at = "loop" /\ r.turn = None /\ r.mode = "files"
      BY <1>1, <2>2, <3>1 DEF Runs
    <3>3. Go(w, r)
      BY <2>2, <3>1, Zenon
    <3>4. OnCourse(r)'
      BY <3>2 DEF OnCourse, OnFiles, OnQueue, OnGraph, OnIndexes
    <3> QED
      BY <1>2, <2>2, <3>2, <3>3, <3>4, GoUndisturbed
  <2> QED
    BY <1>4, <2>1, <2>2 DEF Missing
<1>5. CASE Unchanged(w, f)
  <2>1. Fresh(f)'
    BY <1>5 DEF Unchanged, Concludes, Fresh, files
  <2> QED
    BY <1>1, <1>2, <1>5, <2>1, ConcludesCourse DEF Unchanged
<1>6. CASE RefreshFooter(w, f)
  <2>1. aindex' = [d \in Dir |-> aindex'[d]]
    BY <1>6, RefreshedIndexes DEF RefreshFooter, Undisturbed
  <2>2. Fresh(f)' /\ \A g \in File \ {f} : design'[g] = design[g]
    BY <1>6, RefreshFooterFresh
  <2>3. run[w].at = "loop" \/ ~OnCourse(run[w])
    BY <1>1, <1>3, <1>6 DEF RefreshFooter
  <2> QED
    BY <1>1, <1>6, <2>1, <2>2, <2>3, ConcludesCourse DEF RefreshFooter
<1>7. CASE Ask(w, f)
  <2>1. PICK at : at = IF run[w].at = "loop" THEN "ask" ELSE "askQueued"
    OBVIOUS
  <2>2. PICK x : x = [run[w] EXCEPT !.turn = f, !.seen = content[f]]
    OBVIOUS
  <2>3. PICK r : r = [run[w] EXCEPT !.at = at, !.turn = f, !.seen = content[f]]
    OBVIOUS
  <2>4. /\ Go(w, r) /\ content[f] # None /\ UNCHANGED <<content, aindex>>
        /\ design' = [design EXCEPT ![f] = None] /\ Turn(w, f)
        /\ Forced(w) \/ design[f] = None
    BY <1>7, <2>1, <2>3, Zenon DEF Ask, files
  <2>5. content[f] \in SUBSET File
    BY <2>4 DEF SourcesOK
  <2>6. /\ x \in Runs /\ x.turn = f /\ x.seen = content[f]
        /\ x.todo = run[w].todo /\ x.mode = run[w].mode /\ x.quiet = run[w].quiet
    BY <1>1, <2>2, <2>5 DEF Runs
  <2>7. r = [x EXCEPT !.at = at] /\ at \in Stages
    BY <1>1, <2>1, <2>2, <2>3 DEF Runs, Stages
  <2>8. /\ r \in Runs /\ r.at = at /\ r.turn = f /\ r.seen = content[f]
        /\ r.todo = run[w].todo /\ r.mode = run[w].mode /\ r.quiet = run[w].quiet
    BY <2>6, <2>7, AtFields
  <2>9. ASSUME r.quiet PROVE OnCourse(r)'
    <3>1. OnCourse(run[w])
      BY <2>8, <2>9, Zenon DEF Undisturbed
    <3>2. run[w].at = "loop"
      BY <1>1, <1>3, <2>4, <3>1 DEF Forced, Fresh
    <3>3. r.at = "ask" /\ f \in r.todo
      BY <2>1, <2>4, <2>8, <3>2 DEF Turn, Earliest
    <3>4. \A g \in File \ {f} : design'[g] = design[g]
      BY <2>4 DEF LibraryOK
    <3>5. r.mode = "project" => \A g \in Present' \ r.todo : Fresh(g)'
      BY <2>4, <2>8, <3>1, <3>2, <3>3, <3>4 DEF OnCourse, OnFiles, Present, Fresh
    <3> QED
      BY <2>4, <2>8, <3>3, <3>5 DEF OnCourse, OnFiles, OnQueue, OnGraph, OnIndexes
  <2> QED
    BY <1>2, <2>4, <2>8, <2>9, GoUndisturbed
<1> QED
  BY <1>4, <1>5, <1>6, <1>7

LEMMA AnswerCourse ==
    ASSUME TreeAssumption, NoneAssumption, SourcesOK, LibraryOK, RunsOK, Undisturbed,
           NEW w \in Runner, Answer(w) \/ Truncated(w) \/ NoAnswer(w)
    PROVE  Undisturbed'
<1> USE DEF Results
<1>1. PICK f \in File : f = run[w].turn
  BY DEF Answer, Truncated, NoAnswer, RunsOK, Runs
<1>2. run[w].at \in {"ask", "askQueued"} /\ f # None
  BY <1>1 DEF RunsOK, NoneAssumption
<1>3. run[w].at = "ask" \/ ~OnCourse(run[w])
  BY <1>2 DEF OnCourse, OnFiles
<1>4. ASSUME NEW d \in Designs, NEW by, NEW at, Concludes(w, f, "new"),
             design' = [design EXCEPT ![f] = d], RefreshEntry(f, by, at),
             d.of = content[f] \/ ~OnCourse(run[w])
      PROVE  Undisturbed'
  <2>1. aindex' = [e \in Dir |-> aindex'[e]]
    BY <1>4, RefreshedIndexes DEF Undisturbed
  <2>2. design'[f] = d /\ \A g \in File \ {f} : design'[g] = design[g]
    BY <1>4 DEF LibraryOK
  <2>3. Fresh(f)' \/ ~OnCourse(run[w])
    BY <1>4, <2>2, DesignAssumption DEF Fresh, Concludes, files
  <2> QED
    BY <1>3, <1>4, <2>1, <2>2, <2>3, ConcludesCourse
<1>5. CASE Answer(w)
  <2>1. PICK d : d = [of |-> run[w].seen, by |-> "llm", at |-> run[w].seen,
                      deps |-> Deps(f), dependents |-> Dependents(f)]
    OBVIOUS
  <2>2. run[w].seen \in SUBSET File
    BY <1>1, <1>2 DEF RunsOK, Runs
  <2>3. d \in Designs /\ d.of = run[w].seen
    BY <2>1, <2>2, DepsTyped DEF Designs
  <2>4. d.of = content[f] \/ ~OnCourse(run[w])
    BY <1>1, <1>2, <2>3 DEF OnCourse, OnFiles
  <2> QED
    BY <1>1, <1>4, <1>5, <2>1, <2>3, <2>4 DEF Answer
<1>6. CASE Truncated(w)
  <2>1. PICK d : d = Skeleton(f)
    OBVIOUS
  <2>2. content[f] \in SUBSET File
    BY <1>1, <1>6 DEF Truncated, SourcesOK
  <2>3. d \in Designs /\ d.of = content[f]
    BY <2>1, <2>2, DepsTyped DEF Designs, Skeleton
  <2> QED
    BY <1>1, <1>4, <1>6, <2>1, <2>3 DEF Truncated
<1>7. CASE NoAnswer(w)
  <2>1. UNCHANGED <<design, aindex>> /\ Concludes(w, f, "failed")
    BY <1>1, <1>7 DEF NoAnswer
  <2>2. aindex' = [d \in Dir |-> aindex'[d]]
    BY <2>1 DEF Undisturbed
  <2> QED
    BY <1>2, <2>1, <2>2, ConcludesCourse
<1> QED
  BY <1>5, <1>6, <1>7

LEMMA EndLoopCourse ==
    ASSUME TreeAssumption, RunsOK, Undisturbed, NEW w \in Runner, EndLoop(w)
    PROVE  Undisturbed'
<1>1. run[w] \in Runs /\ run[w].turn = None /\ run[w].at = "loop" /\ run[w].todo = {}
  BY DEF RunsOK, EndLoop
<1>2. PICK ds : ds = IF run[w].meant THEN UNION {Above[d] : d \in run[w].dirs} ELSE {}
  OBVIOUS
<1>3. ds \in SUBSET Dir
  BY <1>1, <1>2 DEF Runs, TreeAssumption
<1>4. PICK at : at = IF ds = {} THEN AfterReindex(w) ELSE "reindex"
  OBVIOUS
<1>5. PICK x : x = [run[w] EXCEPT !.dirs = ds, !.walk = ds]
  OBVIOUS
<1>6. PICK r : r = [run[w] EXCEPT !.at = at, !.dirs = ds, !.walk = ds]
  OBVIOUS
<1>7. Go(w, r)
  BY <1>2, <1>4, <1>6, Zenon DEF EndLoop
<1>8. /\ x \in Runs /\ x.dirs = ds /\ x.walk = ds /\ x.turn = None
      /\ x.mode = run[w].mode /\ x.quiet = run[w].quiet
  BY <1>1, <1>3, <1>5 DEF Runs
<1>9. r = [x EXCEPT !.at = at] /\ at \in Stages
  BY <1>1, <1>4, <1>5, <1>6 DEF Runs, Stages, AfterReindex
<1>10. /\ r \in Runs /\ r.at = at /\ r.dirs = ds /\ r.walk = ds /\ r.turn = None
       /\ r.mode = run[w].mode /\ r.quiet = run[w].quiet
  BY <1>8, <1>9, AtFields
<1>11. UNCHANGED <<content, design, aindex>>
  BY DEF EndLoop, files, library
<1>12. ASSUME r.quiet PROVE OnCourse(r)'
  <2>1. OnCourse(run[w])
    BY <1>10, <1>12, Zenon DEF Undisturbed
  <2>2. r.mode = "project" => \A f \in Present' : Fresh(f)'
    BY <1>1, <1>10, <1>11, <2>1, SameSources DEF OnCourse, OnFiles, Present
  <2>3. \/ r.at = "reindex"
        \/ ds = {} /\ r.at = "topology" /\ r.mode # "files"
        \/ ds = {} /\ r.at = "index" /\ r.mode = "files"
    BY <1>4, <1>10 DEF AfterReindex
  <2> QED
    BY <1>10, <2>2, <2>3 DEF OnCourse, OnFiles, OnQueue, OnGraph, OnIndexes
<1>13. aindex' = [d \in Dir |-> aindex'[d]]
  BY <1>11 DEF Undisturbed
<1> QED
  BY <1>7, <1>10, <1>12, <1>13, GoUndisturbed

LEMMA ReindexCourse ==
    ASSUME TreeAssumption, RunsOK, Undisturbed, NEW w \in Runner, Reindex(w)
    PROVE  Undisturbed'
<1>1. run[w] \in Runs /\ run[w].turn = None /\ run[w].at = "reindex"
  BY DEF RunsOK, Reindex
<1>2. PICK d \in run[w].walk :
        /\ Deepest(d, run[w].walk)
        /\ aindex' = [aindex EXCEPT ![d] = Index(d)]
        /\ Go(w, [run[w] EXCEPT !.walk = @ \ {d},
                                !.at = IF run[w].walk = {d} THEN AfterReindex(w) ELSE @])
  BY DEF Reindex
<1>3. d \in Dir
  BY <1>1 DEF Runs
<1>4. PICK at : at = IF run[w].walk = {d} THEN AfterReindex(w) ELSE run[w].at
  OBVIOUS
<1>5. PICK x : x = [run[w] EXCEPT !.walk = run[w].walk \ {d}]
  OBVIOUS
<1>6. PICK r : r = [run[w] EXCEPT !.walk = run[w].walk \ {d}, !.at = at]
  OBVIOUS
<1>7. Go(w, r)
  BY <1>2, <1>4, <1>6, Zenon
<1>8. /\ x \in Runs /\ x.dirs = run[w].dirs /\ x.walk = run[w].walk \ {d} /\ x.turn = None
      /\ x.mode = run[w].mode /\ x.quiet = run[w].quiet
  BY <1>1, <1>5 DEF Runs
<1>9. r = [x EXCEPT !.at = at] /\ at \in Stages
  BY <1>1, <1>4, <1>5, <1>6 DEF Runs, Stages, AfterReindex
<1>10. /\ r \in Runs /\ r.at = at /\ r.dirs = run[w].dirs /\ r.walk = run[w].walk \ {d}
       /\ r.turn = None /\ r.mode = run[w].mode /\ r.quiet = run[w].quiet
  BY <1>8, <1>9, AtFields
<1>11. UNCHANGED <<content, design>>
  BY DEF Reindex, files
<1>12. aindex' = [e \in Dir |-> aindex'[e]]
  BY <1>2 DEF Undisturbed
<1>13. aindex'[d] = Index(d) /\ \A e \in Dir \ {d} : aindex'[e] = aindex[e]
  BY <1>2, <1>3 DEF Undisturbed
<1>14. ASSUME r.quiet PROVE OnCourse(r)'
  <2>1. OnCourse(run[w])
    BY <1>10, <1>14, Zenon DEF Undisturbed
  <2>2. r.mode = "project" => \A f \in Present' : Fresh(f)'
    BY <1>1, <1>10, <1>11, <2>1, SameSources DEF OnCourse, OnFiles, Present
  <2>3. ASSUME NEW e \in Dir, d \notin Subdirs(e) PROVE Index(e)' = Index(e)
    <3>1. \A s \in Subdirs(e) : aindex'[s] = aindex[s]
      BY <1>13, <2>3 DEF Subdirs
    <3>2. \A f \in File : Description(f)' = Description(f)
                          /\ (design'[f] = None <=> design[f] = None)
      BY <1>11, SameSources
    <3> QED
      BY <1>11, <3>1, <3>2, SameIndex
  <2>4. d \notin Subdirs(d)
    BY DEF Subdirs
  <2>5. \A e \in run[w].dirs \ run[w].walk : e \in Dir /\ d \notin Subdirs(e)
    <3>1. ASSUME NEW e \in run[w].dirs \ run[w].walk PROVE e \in Dir /\ d \notin Subdirs(e)
      <4>1. e \in Dir /\ e \notin Above[d]
        BY <1>1, <1>2, <2>1 DEF OnCourse, OnIndexes, Runs
      <4> QED
        BY <4>1 DEF Subdirs, TreeAssumption
    <3> QED
      BY <3>1
  <2>6. \A e \in r.dirs \ r.walk : aindex'[e] = Index(e)'
    <3>1. ASSUME NEW e \in run[w].dirs \ run[w].walk PROVE aindex'[e] = Index(e)'
      <4>1. e # d /\ aindex[e] = Index(e)
        BY <1>1, <1>2, <2>1 DEF OnCourse, OnIndexes
      <4> QED
        BY <1>13, <2>3, <2>5, <4>1
    <3>2. aindex'[d] = Index(d)'
      BY <1>3, <1>13, <2>3, <2>4
    <3> QED
      BY <1>10, <3>1, <3>2
  <2>7. \A e \in r.dirs \ r.walk, s \in r.walk : e \notin Above[s]
    BY <1>1, <1>2, <1>10, <2>1 DEF OnCourse, OnIndexes, Deepest
  <2>8. \/ r.at = "reindex"
        \/ r.walk = {} /\ r.at = "topology" /\ r.mode # "files"
        \/ r.walk = {} /\ r.at = "index" /\ r.mode = "files"
    BY <1>1, <1>4, <1>10 DEF AfterReindex
  <2>9. OnIndexes(r)'
    BY <2>6, <2>7, <2>8 DEF OnIndexes
  <2> QED
    BY <1>10, <2>2, <2>8, <2>9 DEF OnCourse, OnFiles, OnQueue, OnGraph
<1> QED
  BY <1>7, <1>10, <1>12, <1>14, GoUndisturbed

Later == {"queue", "drain", "clear", "rewrite", "index", "reconcile", "done"}

(* A step after the indexing that leaves the sources and the indexes.      *)
LEMMA LaterCourse ==
    ASSUME RunsOK, Undisturbed, NEW w \in Runner, NEW r \in Runs, Go(w, r),
           run[w].at \in Later \cup {"topology"}, r.at \in Later,
           r.turn = None, r.mode = run[w].mode, r.dirs = run[w].dirs, r.quiet = run[w].quiet,
           \/ r.mode = "project" \/ ~OnCourse(run[w])
           \/ r.at \notin {"queue", "drain", "clear", "rewrite", "reconcile"},
           UNCHANGED <<content, aindex>>,
           \A f \in File : /\ Fresh(f)' = Fresh(f) /\ Description(f)' = Description(f)
                           /\ design'[f] = None <=> design[f] = None,
           \/ run[w].at = "topology" /\ topology' = aindex
           \/ run[w].at # "topology" /\ topology' = topology,
           OnCourse(run[w]) => OnQueue(r)' /\ OnGraph(r)'
    PROVE  Undisturbed'
<1>1. aindex' = [d \in Dir |-> aindex'[d]]
  BY DEF Undisturbed
<1>2. ASSUME r.quiet PROVE OnCourse(r)'
  <2>1. OnCourse(run[w])
    BY <1>2, Zenon DEF Undisturbed
  <2>2. Present' = Present /\ Present \subseteq File
    BY DEF Present
  <2>3. OnFiles(r)'
    BY <2>1, <2>2 DEF OnCourse, OnFiles, Later
  <2>4. run[w] \in Runs
    BY DEF RunsOK
  <2>5. OnIndexes(r)'
    BY <2>1, <2>4, LaterIndexes DEF OnCourse, Later
  <2> QED
    BY <2>1, <2>3, <2>5 DEF OnCourse
<1> QED
  BY <1>1, <1>2, GoUndisturbed

LEMMA TopologyCourse ==
    ASSUME RunsOK, Undisturbed, NEW w \in Runner, Topology(w)
    PROVE  Undisturbed'
<1>1. run[w] \in Runs /\ run[w].turn = None /\ run[w].at = "topology"
  BY DEF RunsOK, Topology
<1>2. PICK at : at = IF run[w].mode = "project" THEN "queue" ELSE "index"
  OBVIOUS
<1>3. PICK r : r = [run[w] EXCEPT !.at = at]
  OBVIOUS
<1>4. Go(w, r)
  BY <1>2, <1>3, Zenon DEF Topology, Proceed
<1>5. /\ r \in Runs /\ r.at = at /\ r.turn = None /\ r.mode = run[w].mode
      /\ r.dirs = run[w].dirs /\ r.quiet = run[w].quiet
  <2>1. at \in Stages
    BY <1>2 DEF Stages
  <2> QED
    BY <1>1, <1>3, <2>1, AtFields
<1>6. UNCHANGED <<content, design, aindex>> /\ topology' = aindex
  BY DEF Topology, files
<1>7. OnQueue(r)' /\ OnGraph(r)'
  BY <1>2, <1>5 DEF OnQueue, OnGraph
<1>8. r.at \in Later /\ (r.at = "queue" => r.mode = "project")
      /\ r.at \in {"queue", "index"}
  BY <1>2, <1>5 DEF Later
<1> QED
  BY <1>1, <1>4, <1>5, <1>6, <1>7, <1>8, SameSources, LaterCourse

LEMMA ReadQueueCourse ==
    ASSUME RunsOK, QueueOK, Undisturbed, NEW w \in Runner, ReadQueue(w)
    PROVE  Undisturbed'
<1>1. run[w] \in Runs /\ run[w].turn = None /\ run[w].at = "queue"
  BY DEF RunsOK, ReadQueue
<1>2. PICK at : at = IF queue.lines = {} THEN "index" ELSE "drain"
  OBVIOUS
<1>3. PICK x : x = [run[w] EXCEPT !.batch = queue.lines, !.done = {}]
  OBVIOUS
<1>4. PICK r : r = [run[w] EXCEPT !.at = at, !.batch = queue.lines, !.done = {}]
  OBVIOUS
<1>5. Go(w, r)
  BY <1>2, <1>4, Zenon DEF ReadQueue
<1>6. /\ x \in Runs /\ x.turn = None /\ x.mode = run[w].mode /\ x.batch = queue.lines
      /\ x.dirs = run[w].dirs /\ x.quiet = run[w].quiet
  BY <1>1, <1>3 DEF Runs, QueueOK
<1>7. r = [x EXCEPT !.at = at] /\ at \in Stages
  BY <1>1, <1>2, <1>3, <1>4 DEF Runs, Stages
<1>8. /\ r \in Runs /\ r.at = at /\ r.turn = None /\ r.mode = run[w].mode
      /\ r.batch = queue.lines /\ r.dirs = run[w].dirs /\ r.quiet = run[w].quiet
  BY <1>6, <1>7, AtFields
<1>9. UNCHANGED <<content, design, aindex, topology, queue>>
  BY DEF ReadQueue, files, library, entries
<1>10. OnQueue(r)' /\ OnGraph(r)'
  BY <1>2, <1>8, <1>9 DEF OnQueue, OnGraph
<1>11. r.at \in Later /\ r.at \in {"drain", "index"}
  BY <1>2, <1>8 DEF Later
<1>12. OnCourse(run[w]) => r.mode = "project"
  BY <1>1, <1>8 DEF OnCourse, OnFiles
<1> QED
  BY <1>1, <1>5, <1>8, <1>9, <1>10, <1>11, <1>12, SameSources, LaterCourse DEF Later

LEMMA DrainedCourse ==
    ASSUME RunsOK, Undisturbed, NEW w \in Runner, Drained(w)
    PROVE  Undisturbed'
<1>1. run[w] \in Runs /\ run[w].turn = None /\ run[w].at = "drain" /\ run[w].batch = {}
  BY DEF RunsOK, Drained
<1>2. PICK at : at = IF run[w].done = {} THEN "index" ELSE "clear"
  OBVIOUS
<1>3. PICK r : r = [run[w] EXCEPT !.at = at]
  OBVIOUS
<1>4. Go(w, r)
  BY <1>2, <1>3, Zenon DEF Drained, Proceed
<1>5. /\ r \in Runs /\ r.at = at /\ r.turn = None /\ r.mode = run[w].mode
      /\ r.done = run[w].done /\ r.dirs = run[w].dirs /\ r.quiet = run[w].quiet
  <2>1. at \in Stages
    BY <1>2 DEF Stages
  <2> QED
    BY <1>1, <1>3, <2>1, AtFields
<1>6. UNCHANGED <<content, design, aindex, topology, queue>>
  BY DEF Drained, files, library, entries
<1>7. OnCourse(run[w]) => OnQueue(r)' /\ OnGraph(r)'
  BY <1>1, <1>2, <1>5, <1>6 DEF OnCourse, OnQueue, OnGraph
<1>8. r.at \in Later /\ r.at \in {"clear", "index"}
  BY <1>2, <1>5 DEF Later
<1>9. OnCourse(run[w]) => r.mode = "project"
  BY <1>1, <1>5 DEF OnCourse, OnFiles
<1> QED
  BY <1>1, <1>4, <1>5, <1>6, <1>7, <1>8, <1>9, SameSources, LaterCourse DEF Later

LEMMA ClearReadCourse ==
    ASSUME RunsOK, QueueOK, Undisturbed, NEW w \in Runner, ClearRead(w)
    PROVE  Undisturbed'
<1>1. run[w] \in Runs /\ run[w].turn = None /\ run[w].at = "clear"
  BY DEF RunsOK, ClearRead
<1>2. PICK x : x = [run[w] EXCEPT !.keep = queue.lines \ run[w].done]
  OBVIOUS
<1>3. PICK r : r = [run[w] EXCEPT !.at = "rewrite", !.keep = queue.lines \ run[w].done]
  OBVIOUS
<1>4. Go(w, r)
  BY <1>3, Zenon DEF ClearRead
<1>5. queue.lines \ run[w].done \in SUBSET File
  BY DEF QueueOK
<1>6. /\ x \in Runs /\ x.turn = None /\ x.mode = run[w].mode
      /\ x.keep = queue.lines \ run[w].done
      /\ x.dirs = run[w].dirs /\ x.quiet = run[w].quiet
  BY <1>1, <1>2, <1>5 DEF Runs
<1>7. r = [x EXCEPT !.at = "rewrite"] /\ "rewrite" \in Stages
  BY <1>1, <1>2, <1>3 DEF Runs, Stages
<1>8. /\ r \in Runs /\ r.at = "rewrite" /\ r.turn = None /\ r.mode = run[w].mode
      /\ r.keep = queue.lines \ run[w].done
      /\ r.dirs = run[w].dirs /\ r.quiet = run[w].quiet
  BY <1>6, <1>7, AtFields
<1>9. UNCHANGED <<content, design, aindex, topology>>
  BY DEF ClearRead, files, library
<1>10. OnCourse(run[w]) => OnQueue(r)' /\ OnGraph(r)'
  BY <1>1, <1>8 DEF OnCourse, OnQueue, OnGraph
<1>11. OnCourse(run[w]) => r.mode = "project"
  BY <1>1, <1>8 DEF OnCourse, OnFiles
<1> QED
  BY <1>1, <1>4, <1>8, <1>9, <1>10, <1>11, SameSources, LaterCourse DEF Later

LEMMA ClearWriteCourse ==
    ASSUME RunsOK, QueueOK, Undisturbed, NEW w \in Runner, ClearWrite(w)
    PROVE  Undisturbed'
<1>1. run[w] \in Runs /\ run[w].turn = None /\ run[w].at = "rewrite"
  BY DEF RunsOK, ClearWrite
<1>2. PICK r : r = [run[w] EXCEPT !.at = "index"]
  OBVIOUS
<1>3. Go(w, r)
  BY <1>2, Zenon DEF ClearWrite, Proceed
<1>4. /\ r \in Runs /\ r.at = "index" /\ r.turn = None /\ r.mode = run[w].mode
      /\ r.dirs = run[w].dirs /\ r.quiet = run[w].quiet
  <2>1. "index" \in Stages
    BY DEF Stages
  <2> QED
    BY <1>1, <1>2, <2>1, AtFields
<1>5. UNCHANGED <<content, design, aindex, topology>> /\ queue'.lines = run[w].keep
  BY DEF ClearWrite, files, library
<1>6. OnCourse(run[w]) => OnQueue(r)' /\ OnGraph(r)'
  BY <1>1, <1>4, <1>5 DEF OnCourse, OnQueue, OnGraph
<1> QED
  BY <1>1, <1>3, <1>4, <1>5, <1>6, SameSources, LaterCourse DEF Later

LEMMA BuildIndexCourse ==
    ASSUME RunsOK, Undisturbed, NEW w \in Runner, BuildIndex(w)
    PROVE  Undisturbed'
<1>1. run[w] \in Runs /\ run[w].turn = None /\ run[w].at = "index"
  BY DEF RunsOK, BuildIndex
<1>2. PICK ds : ds = IF run[w].mode = "project" THEN Designed ELSE {}
  OBVIOUS
<1>3. PICK at : at = IF ds = {} THEN "done" ELSE "reconcile"
  OBVIOUS
<1>4. PICK x : x = [run[w] EXCEPT !.batch = ds]
  OBVIOUS
<1>5. PICK r : r = [run[w] EXCEPT !.at = at, !.batch = ds]
  OBVIOUS
<1>6. Go(w, r)
  BY <1>2, <1>3, <1>5, Zenon DEF BuildIndex, Designed
<1>7. ds \in SUBSET File
  BY <1>2 DEF Designed
<1>8. /\ x \in Runs /\ x.turn = None /\ x.mode = run[w].mode /\ x.batch = ds
      /\ x.dirs = run[w].dirs /\ x.quiet = run[w].quiet
  BY <1>1, <1>4, <1>7 DEF Runs
<1>9. r = [x EXCEPT !.at = at] /\ at \in Stages
  BY <1>1, <1>3, <1>4, <1>5 DEF Runs, Stages
<1>10. /\ r \in Runs /\ r.at = at /\ r.turn = None /\ r.mode = run[w].mode /\ r.batch = ds
       /\ r.dirs = run[w].dirs /\ r.quiet = run[w].quiet
  BY <1>8, <1>9, AtFields
<1>11. UNCHANGED <<content, design, aindex, topology, queue>>
  BY DEF BuildIndex, files, library, entries
<1>12. run[w].mode = "project" => graph' = Edges(Designed)
  <2>1. PICK designed : designed = Designed
    OBVIOUS
  <2>2. PICK all : all = Edges(designed)
    OBVIOUS
  <2>3. all = Edges({f \in File : design[f] # None})
    BY <2>1, <2>2 DEF Designed
  <2>4. run[w].mode # "files" => graph' = all
    BY <2>3 DEF BuildIndex
  <2> QED
    BY <2>1, <2>2, <2>4
<1>13. OnCourse(run[w]) => OnQueue(r)'
  BY <1>1, <1>3, <1>10, <1>11 DEF OnCourse, OnQueue
<1>14. r.at \in {"reconcile", "done"} /\ (r.at = "reconcile" => r.mode = "project")
  BY <1>2, <1>3, <1>10
<1>15. OnGraph(r)'
  <2>1. Edges(Designed)' = Edges(Designed)
    BY <1>11, SameSources DEF Edges, Deps, Present, Designed
  <2>2. r.mode = "project" => r.batch = Designed
    BY <1>2, <1>10
  <2>3. \A f \in File \ Designed : Settled(f)'
    BY <1>11, SameSources DEF Designed, Settled
  <2>4. r.at = "done" /\ r.mode = "project" => Designed = {}
    BY <1>3, <1>10, <2>2
  <2> QED
    BY <1>10, <1>12, <1>14, <2>1, <2>2, <2>3, <2>4 DEF OnGraph
<1> QED
  BY <1>1, <1>6, <1>10, <1>11, <1>13, <1>14, <1>15, SameSources, LaterCourse DEF Later

LEMMA ReconcileCourse ==
    ASSUME NoneAssumption, SourcesOK, LibraryOK, RunsOK, Undisturbed,
           NEW w \in Runner, Reconcile(w)
    PROVE  Undisturbed'
<1>1. run[w] \in Runs /\ run[w].turn = None /\ run[w].at = "reconcile"
  BY DEF RunsOK, Reconcile
<1>2. PICK f \in File :
        /\ Go(w, [run[w] EXCEPT !.batch = @ \ {f},
                                !.at = IF run[w].batch = {f} THEN "done" ELSE @])
        /\ design' = IF design[f] # None /\ Drifted(f)
                     THEN [design EXCEPT ![f].deps = Deps(f), ![f].dependents = Dependents(f)]
                     ELSE design
  BY DEF Reconcile
<1>3. PICK at : at = IF run[w].batch = {f} THEN "done" ELSE run[w].at
  OBVIOUS
<1>4. PICK x : x = [run[w] EXCEPT !.batch = run[w].batch \ {f}]
  OBVIOUS
<1>5. PICK r : r = [run[w] EXCEPT !.batch = run[w].batch \ {f}, !.at = at]
  OBVIOUS
<1>6. Go(w, r)
  BY <1>2, <1>3, <1>5, Zenon
<1>7. /\ x \in Runs /\ x.turn = None /\ x.mode = run[w].mode
      /\ x.batch = run[w].batch \ {f} /\ x.dirs = run[w].dirs /\ x.quiet = run[w].quiet
  BY <1>1, <1>4 DEF Runs
<1>8. r = [x EXCEPT !.at = at] /\ at \in Stages
  BY <1>1, <1>3, <1>4, <1>5 DEF Runs, Stages
<1>9. /\ r \in Runs /\ r.at = at /\ r.turn = None /\ r.mode = run[w].mode
      /\ r.batch = run[w].batch \ {f} /\ r.dirs = run[w].dirs /\ r.quiet = run[w].quiet
  BY <1>7, <1>8, AtFields
<1>10. UNCHANGED <<content, aindex, topology, graph, queue>>
  BY DEF Reconcile, files, entries
<1>11. /\ \A g \in File \ {f} : design'[g] = design[g]
       /\ design[f] = None => design'[f] = None
       /\ design[f] # None =>
            /\ design'[f] # None /\ design'[f].of = design[f].of
            /\ design'[f].by = design[f].by /\ design'[f].at = design[f].at
            /\ design'[f].deps = Deps(f) /\ design'[f].dependents = Dependents(f)
  <2>1. CASE design[f] # None /\ Drifted(f)
    <3>1. PICK d \in Designs : d = design[f]
      BY <2>1 DEF LibraryOK
    <3>2. PICK y : y = [d EXCEPT !.deps = Deps(f)]
      OBVIOUS
    <3>3. PICK z : z = [y EXCEPT !.dependents = Dependents(f)]
      OBVIOUS
    <3>4. y \in Designs /\ y.of = d.of /\ y.by = d.by /\ y.at = d.at /\ y.deps = Deps(f)
      BY <3>1, <3>2, DepsTyped DEF Designs
    <3>5. z \in Designs /\ z.of = d.of /\ z.by = d.by /\ z.at = d.at /\ z.deps = Deps(f)
          /\ z.dependents = Dependents(f)
      BY <3>3, <3>4, DepsTyped DEF Designs
    <3>6. design' = [design EXCEPT ![f] = z]
      BY <1>2, <2>1, <3>1, <3>2, <3>3 DEF LibraryOK
    <3>7. z # None
      BY <3>5, DesignAssumption
    <3> QED
      BY <2>1, <3>1, <3>5, <3>6, <3>7 DEF LibraryOK
  <2>2. CASE design[f] = None \/ ~Drifted(f)
    BY <1>2, <2>2 DEF Drifted
  <2> QED
    BY <2>1, <2>2
<1>12. /\ Present' = Present /\ Designed' = Designed
       /\ \A g \in File : /\ design'[g] = None <=> design[g] = None
                          /\ Fresh(g)' = Fresh(g) /\ Description(g)' = Description(g)
                          /\ Deps(g)' = Deps(g)
  BY <1>10, <1>11 DEF Present, Designed, Fresh, Description, Deps
<1>13. \A g \in File : Importers(g)' = Importers(g)
  BY <1>12 DEF Importers
<1>14. r.at \in {"reconcile", "done"}
  BY <1>1, <1>3, <1>9
<1>15. OnCourse(run[w]) => OnQueue(r)'
  BY <1>1, <1>9, <1>10, <1>14 DEF OnCourse, OnQueue, OnFiles
<1>16. ASSUME OnCourse(run[w]) PROVE OnGraph(r)'
  <2>1. /\ graph = Edges(Designed)
        /\ \A g \in File \ run[w].batch : Settled(g)
    BY <1>1, <1>16 DEF OnCourse, OnGraph
  <2>2. Dependents(f) = Importers(f)
    <3>1. graph # None
      BY <2>1 DEF NoneAssumption, Edges, Designed
    <3> QED
      BY <2>1, <3>1 DEF Dependents, Importers, Edges, Designed
  <2>3. Settled(f)'
    BY <1>11, <1>12, <1>13, <2>2 DEF Settled
  <2>4. \A g \in File \ {f} : Settled(g) => Settled(g)'
    BY <1>11, <1>12, <1>13 DEF Settled
  <2>5. \A g \in File \ r.batch : Settled(g)'
    BY <1>9, <2>1, <2>3, <2>4
  <2>6. graph' = Edges(Designed)'
    BY <1>10, <1>12, <2>1 DEF Edges, Designed
  <2>7. r.at = "done" => r.batch = {}
    BY <1>1, <1>3, <1>9
  <2> QED
    BY <2>5, <2>6, <2>7 DEF OnGraph
<1>17. OnCourse(run[w]) => r.mode = "project"
  BY <1>1, <1>9 DEF OnCourse, OnFiles
<1> QED
  BY <1>1, <1>6, <1>9, <1>10, <1>12, <1>14, <1>15, <1>16, <1>17, LaterCourse DEF Later

(* A run that ends, or is disturbed by its own failure.                    *)
LEMMA EndCourse ==
    ASSUME RunsOK, Undisturbed, NEW w \in Runner,
           IndexFails(w) \/ Return(w) \/ Raise(w) \/ Kill(w)
    PROVE  Undisturbed'
<1>1. aindex' = [d \in Dir |-> aindex'[d]]
  BY DEF IndexFails, Return, Raise, Kill, library, Undisturbed
<1>2. CASE IndexFails(w)
  <2>1. PICK r : r = [run[w] EXCEPT !.at = "done", !.quiet = FALSE]
    OBVIOUS
  <2>2. r \in Runs /\ r.quiet = FALSE
    <3>1. PICK x : x = [run[w] EXCEPT !.at = "done"]
      OBVIOUS
    <3>2. run[w] \in Runs /\ "done" \in Stages
      BY DEF RunsOK, Stages
    <3>3. x \in Runs
      BY <3>1, <3>2, AtFields
    <3>4. r = [x EXCEPT !.quiet = FALSE]
      BY <2>1, <3>1, <3>2 DEF Runs
    <3> QED
      BY <3>3, <3>4 DEF Runs
  <2>3. Go(w, r)
    BY <1>2, <2>1, Zenon DEF IndexFails
  <2>4. ~r.quiet
    BY <2>2, Zenon
  <2> QED
    BY <1>1, <2>2, <2>3, <2>4, GoUndisturbed
<1>3. CASE Go(w, Idle)
  <2>1. Idle.quiet = FALSE
    BY DEF Idle
  <2>2. ~Idle.quiet
    BY <2>1, Zenon
  <2> QED
    BY <1>1, <1>3, <2>2, IdleTyped, GoUndisturbed
<1> QED
  BY <1>2, <1>3 DEF Return, Raise, Kill

LEMMA BeginCourse ==
    ASSUME NoneAssumption, RunsOK, Undisturbed, NEW w \in Runner, NEW m \in Modes,
           NEW forced \in BOOLEAN, NEW scope \in SUBSET File, Begin(w, m, forced, scope),
           m = "project" => scope = Present
    PROVE  Undisturbed'
<1>1. PICK r \in Runs : /\ Go(w, r) /\ r.at = "loop" /\ r.turn = None
                        /\ r.todo = scope /\ r.mode = m
  BY BeginTyped
<1>2. UNCHANGED <<content, aindex>>
  BY DEF Begin, files, library
<1>3. aindex' = [d \in Dir |-> aindex'[d]]
  BY <1>2 DEF Undisturbed
<1>4. OnCourse(r)'
  BY <1>1, <1>2 DEF OnCourse, OnFiles, OnQueue, OnGraph, OnIndexes, Present
<1> QED
  BY <1>1, <1>3, <1>4, GoUndisturbed

LEMMA OthersCourse ==
    ASSUME RunsOK, Undisturbed,
           \/ \E h \in Hook : WriteHeader(h) \/ Append(h)
           \/ \E h \in Hook, f \in File : QuickDesign(h, f)
           \/ \E f \in File : Edit(f) \/ Delete(f)
    PROVE  Undisturbed'
<1>1. Disturb
  BY DEF WriteHeader, Append, QuickDesign, SetHook, Edit, Delete, Change
<1>2. \/ UNCHANGED aindex
      \/ \E f, by, at : RefreshEntry(f, by, at)
  BY DEF WriteHeader, Append, QuickDesign, Edit, Delete, Change, library
<1>3. aindex' = [d \in Dir |-> aindex'[d]]
  BY <1>2, RefreshedIndexes DEF Undisturbed
<1> QED
  BY <1>1, <1>3, DisturbUndisturbed

LEMMA NextCourse ==
    ASSUME TreeAssumption, NoneAssumption, IInv, Undisturbed, [Next]_vars PROVE Undisturbed'
<1> USE DEF IInv, TypeOK
<1>1. ASSUME NEW w \in Runner, Step(w) \/ Raise(w) \/ Kill(w) PROVE Undisturbed'
  <2>1. CASE \E f \in File : Missing(w, f) \/ Unchanged(w, f) \/ RefreshFooter(w, f) \/ Ask(w, f)
    BY <2>1, UpdateCourse
  <2>2. CASE Answer(w) \/ Truncated(w) \/ NoAnswer(w)
    BY <2>2, AnswerCourse
  <2>3. CASE EndLoop(w) \/ Reindex(w) \/ Topology(w) \/ ReadQueue(w) \/ Drained(w)
    BY <2>3, EndLoopCourse, ReindexCourse, TopologyCourse, ReadQueueCourse, DrainedCourse
  <2>4. CASE ClearRead(w) \/ ClearWrite(w) \/ BuildIndex(w) \/ Reconcile(w)
    BY <2>4, ClearReadCourse, ClearWriteCourse, BuildIndexCourse, ReconcileCourse
  <2>5. CASE IndexFails(w) \/ Return(w) \/ Raise(w) \/ Kill(w)
    BY <2>5, EndCourse
  <2> QED
    BY <1>1, <2>1, <2>2, <2>3, <2>4, <2>5 DEF Step
<1>2. ASSUME NEW w \in Runner, NEW m \in Modes, NEW forced \in BOOLEAN,
             NEW scope \in SUBSET File, Begin(w, m, forced, scope),
             m = "project" => scope = Present
      PROVE  Undisturbed'
  BY <1>2, BeginCourse
<1>3. Present \in SUBSET File /\ {"project", "directory", "files"} \subseteq Modes
  BY DEF Present, Modes
<1>4. CASE WatchSweep
  BY <1>2, <1>3, <1>4 DEF WatchSweep, Runner
<1>5. ASSUME NEW w \in Others, UpdateProject(w) \/ UpdateDirectory(w) \/ UpdateFiles(w)
      PROVE  Undisturbed'
  <2>1. w \in Runner
    BY DEF Runner
  <2>2. CASE UpdateProject(w)
    BY <1>2, <1>3, <2>1, <2>2 DEF UpdateProject
  <2>3. CASE UpdateDirectory(w)
    <3>1. PICK d \in Dir : Begin(w, "directory", FALSE, {f \in Present : d \in Above[In[f]]})
      BY <2>3 DEF UpdateDirectory
    <3>2. PICK scope \in SUBSET File : scope = {f \in Present : d \in Above[In[f]]}
      BY DEF Present
    <3> QED
      BY <1>2, <1>3, <2>1, <3>1, <3>2
  <2>4. CASE UpdateFiles(w)
    BY <1>2, <1>3, <2>1, <2>4 DEF UpdateFiles
  <2> QED
    BY <1>5, <2>2, <2>3, <2>4
<1>6. CASE \/ \E h \in Hook : WriteHeader(h) \/ Append(h)
           \/ \E h \in Hook, f \in File : QuickDesign(h, f)
           \/ \E f \in File : Edit(f) \/ Delete(f)
  BY <1>6, OthersCourse
<1>7. CASE WatchSkip \/ UNCHANGED vars
  <2>1. UNCHANGED <<content, design, aindex, topology, graph, queue, run>>
    BY <1>7 DEF WatchSkip, vars, files, library, entries, process
  <2>2. \A d \in Dir : Index(d)' = Index(d)
    BY <2>1, SameSources, SameIndex
  <2>3. ASSUME NEW w \in Runner, OnCourse(run[w]) PROVE OnCourse(run[w])'
    <3>1. run'[w] = run[w] /\ run[w] \in Runs
      BY <2>1 DEF RunsOK
    <3>2. PICK r \in Runs : r = run[w]
      BY <3>1
    <3>3. OnFiles(r) => OnFiles(r)'
      BY <2>1, SameSources DEF OnFiles, Present
    <3>4. OnQueue(r) => OnQueue(r)'
      BY <2>1 DEF OnQueue
    <3>5. OnGraph(r) => OnGraph(r)'
      <4>1. Edges(Designed)' = Edges(Designed)
        BY <2>1, SameSources DEF Edges, Deps, Present, Designed
      <4> QED
        BY <2>1, <4>1, SameSources DEF OnGraph
    <3>6. OnIndexes(r) => OnIndexes(r)'
      <4>1. r.dirs \subseteq Dir
        BY DEF Runs
      <4> QED
        BY <2>1, <2>2, <4>1 DEF OnIndexes
    <3> QED
      BY <2>3, <3>1, <3>2, <3>3, <3>4, <3>5, <3>6 DEF OnCourse
  <2> QED
    BY <2>1, <2>3, Zenon DEF Undisturbed
<1> QED
  BY <1>1, <1>4, <1>5, <1>6, <1>7 DEF Next

LEMMA CourseInvariant == Spec => [](IInv /\ Undisturbed)
<1>1. Init => IInv /\ Undisturbed
  <2>1. Init => Undisturbed
    <3>1. Idle.quiet = FALSE
      BY DEF Idle
    <3>2. Init => \A w \in Runner : run[w] = Idle
      BY DEF Init
    <3>3. Init => aindex = [d \in Dir |-> aindex[d]]
      BY DEF Init
    <3> QED
      BY <3>1, <3>2, <3>3, Zenon DEF Undisturbed
  <2> QED
    BY <2>1, InitIInv, TreeAssumption, NoneAssumption, StartAssumption
<1>2. IInv /\ Undisturbed /\ [Next]_vars => (IInv /\ Undisturbed)'
  BY NextIInv, NextCourse, TreeAssumption, NoneAssumption
<1> QED
  BY <1>1, <1>2, PTL DEF Spec

(* Whatever earlier runs, kills and failures have left behind: an          *)
(* update_project that nobody disturbs and in which nothing fails leaves   *)
(* fresh design files with the right dependencies and dependents, and an   *)
(* empty queue.                                                            *)
THEOREM QuietRunsSettle == Spec => []QuietRunSettles
<1>1. Undisturbed => QuietRunSettles
  <2>1. ASSUME Undisturbed, NEW w \in Runner, run[w].at = "done", run[w].mode = "project",
               run[w].quiet
        PROVE  /\ \A f \in Present : Fresh(f)
               /\ \A f \in File : Settled(f)
               /\ queue.lines = {}
    <3>1. OnCourse(run[w])
      BY <2>1, Zenon DEF Undisturbed
    <3> QED
      BY <2>1, <3>1 DEF OnCourse, OnFiles, OnQueue, OnGraph
  <2> QED
    BY <2>1, Zenon DEF QuietRunSettles, Settled, Importers
<1> QED
  BY <1>1, CourseInvariant, PTL

(* An undisturbed run leaves the index of every directory with a created   *)
(* design file, and of those above it, as indexing it anew would, and the  *)
(* topology made from the indexes there are.                               *)
THEOREM QuietRunsIndex == Spec => []IndexesFollow
<1>1. Undisturbed => IndexesFollow
  <2>1. ASSUME Undisturbed, NEW w \in Runner, run[w].at = "done", run[w].quiet
        PROVE  /\ \A d \in run[w].dirs : aindex[d] = Index(d)
               /\ run[w].mode # "files" => topology = aindex
    <3>1. OnCourse(run[w])
      BY <2>1, Zenon DEF Undisturbed
    <3> QED
      BY <2>1, <3>1 DEF OnCourse, OnIndexes
  <2> QED
    BY <2>1, Zenon DEF IndexesFollow
<1> QED
  BY <1>1, CourseInvariant, PTL
=============================================================================
