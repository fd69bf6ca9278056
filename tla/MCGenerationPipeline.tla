------------------------- MODULE MCGenerationPipeline -------------------------
EXTENDS GenerationPipeline, TLC

CONSTANTS w1, w2

WorkerSymmetry == Permutations({w1, w2})

\* The guards NeverStuck speaks of are what the actions need: each says exactly when
\* a goroutine can take a step.
CanStepMeansEnabled ==
    /\ MainCanStep <=> ENABLED Main
    /\ ProducerCanStep <=> ENABLED Producer
    /\ CloserCanStep <=> ENABLED CloseResults
    /\ HandlerCanStep <=> ENABLED HandlerReceive
    /\ \A w \in Workers : WorkerCanStep(w) <=> ENABLED Worker(w)
===============================================================================
