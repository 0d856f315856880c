\* Four episodes of up to three steps: the buffer of three wraps at the
\* fourth step, learn first runs at the fourth (update_every 2, pretrain 2),
\* epsilon reaches its floor at the third learn, and a checkpoint is written
\* after episodes 2 and 4.  The missing names and attributes are supplied,
\* to reach learn, evaluate and the deployment.
CONSTANTS
    BufferSize = 3
    UpdateEvery = 2
    PretrainSteps = 2
    NumEpisodes = 4
    MaxSteps = 3
    CheckpointEvery = 2
    EpsStart = 3
    EpsEnd = 1
    NumEval = 2
    NetworkBuilds = TRUE
    BetaDefined = TRUE
    SampleUnpacks = TRUE
    TrainConfigResolves = TRUE
    ForwardResolves = TRUE
    MemoryHasLen = TRUE
    LossDefined = TRUE
    NoService = NoService

SPECIFICATION Spec

\* evaluate ends after its last episode and the program stops.
CHECK_DEADLOCK FALSE

INVARIANTS
DQNTypeOK
LearnCadence
ReplayIsSlidingWindow
