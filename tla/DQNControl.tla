----------------------------- MODULE DQNControl -----------------------------
(***************************************************************************)
(* The control of src/orchestration/neural/reinforcement/dqn.py:           *)
(* EnterpriseTrainer.train and evaluate driving EnterpriseDQNAgent.step,   *)
(* learn and PrioritizedReplayBuffer.add / sample / update_priorities.     *)
(*                                                                         *)
(* The networks, losses and optimiser are numeric and are left out.  An    *)
(* experience is named by the global step that produced it; a priority     *)
(* is named by the experience it was computed for, so that the two deques  *)
(* can be compared position by position.  Epsilon is kept as the number    *)
(* of decay steps (epsilon.decay ** k, floored at epsilon.end), i.e. as a  *)
(* level from EpsStart down to EpsEnd.  The environment is                 *)
(* nondeterministic: any step may end the episode.                         *)
(***************************************************************************)
EXTENDS Naturals, Sequences, SequencesExt

CONSTANTS
    BufferSize,       \* training.buffer_size: maxlen of both deques
    UpdateEvery,      \* training.update_every
    PretrainSteps,    \* training.pretrain_steps
    NumEpisodes,      \* training.num_episodes
    MaxSteps,         \* training.max_steps
    CheckpointEvery,  \* the 100 of "i_episode % 100 == 0"
    EpsStart,         \* level of epsilon.start
    EpsEnd,           \* level of epsilon.end
    NumEval,          \* evaluate(num_episodes)
    NetworkBuilds,    \* FALSE: QuantumDuelingDQN reads config.system from the model section
    BetaDefined,      \* FALSE: sample uses an undefined name beta
    SampleUnpacks,    \* FALSE: sample returns 3 values, learn unpacks 7
    TrainConfigResolves, \* FALSE: train reads .training on the DQNConfig wrapper
    ForwardResolves,  \* FALSE: forward reads config.model of the global config
    MemoryHasLen,     \* FALSE: len(self.memory) on a class without __len__
    LossDefined,      \* FALSE: learn calls an undefined _compute_distributional_loss
    NoService         \* model value: DQNService not yet constructed

ASSUME /\ BufferSize \in Nat \ {0} /\ UpdateEvery \in Nat \ {0}
       /\ NumEpisodes \in Nat \ {0} /\ MaxSteps \in Nat \ {0}
       /\ EpsEnd \in Nat /\ EpsStart \in Nat /\ EpsEnd <= EpsStart

VARIABLES
    pc,           \* where train / evaluate is
    episode,      \* i_episode of train, then the evaluation episode
    t,            \* steps taken in the current training episode
    steps,        \* global number of agent.step calls (history)
    tStep,        \* agent.t_step
    buffer,       \* memory.buffer: the experiences it holds, oldest first
    priorities,   \* memory.priorities: which experience each entry was set for
    learns,       \* learn calls so far (history)
    eps,          \* agent.epsilon, as a decay level
    saved,        \* checkpoints written: episode -> epsilon level stored
    service,      \* the agent DQNService loaded, or NoService
    outcome       \* "none", "finished" or the exception train raised

vars == <<pc, episode, t, steps, tStep, buffer, priorities, learns, eps,
          saved, service, outcome>>

-----------------------------------------------------------------------------
\* deque(maxlen=buffer_size).append: the oldest entry falls out when full.
\* Mutant: the deque keeps one entry too many.
DequeAppendOffByOne(q, x) ==
    IF Len(q) > BufferSize THEN Append(Tail(q), x) ELSE Append(q, x)
\* Mutant: a full deque refuses the new entry.
DequeAppendKeepOld(q, x) ==
    IF Len(q) = BufferSize THEN q ELSE Append(q, x)
DequeAppend(q, x) ==
    IF Len(q) = BufferSize THEN Append(Tail(q), x) ELSE Append(q, x)

\* PrioritizedReplayBuffer.add: the experience, then its priority.
\* Mutant: the priorities deque is created without maxlen.
PriorityAppendUnbounded(q, x) == Append(q, x)
PriorityAppend(q, x) == DequeAppend(q, x)

\* t_step = (t_step + 1) % update_every
NextTStep(ts) == (ts + 1) % UpdateEvery

\* len(self.memory) > pretrain_steps.  Mutant: >= instead of >.
LearnReadyEarly(n) == n >= PretrainSteps
LearnReady(n) == n > PretrainSteps

\* epsilon = max(epsilon.end, decay * epsilon).
EpsDecay(e) == IF e - 1 < EpsEnd THEN EpsEnd ELSE e - 1

\* What learn raises before it changes anything, if anything.
LearnError ==
    CASE ~BetaDefined   -> "NameError"
      [] ~SampleUnpacks -> "ValueError"
      [] ~LossDefined   -> "AttributeError"
      [] OTHER          -> "none"

\* update_priorities(indices, errors): sample draws indices of the current
\* buffer with replacement; each entry is rewritten for the experience there.
UpdatePriorities(prio, buf, idx) ==
    [i \in 1..Len(prio) |-> IF i \in idx THEN buf[i] ELSE prio[i]]

\* The exit test of the for loop over range(1, num_episodes + 1).
EpisodesDone(e) == e >= NumEpisodes

-----------------------------------------------------------------------------
(* One iteration of train's inner loop: act, env.step, then agent.step:    *)
(* add to memory, advance t_step and, on a wrap with enough experiences,   *)
(* sample, learn (which updates priorities and decays epsilon).            *)
AgentStep ==
    /\ pc = "step"
    /\ IF ~ForwardResolves
       THEN \* agent.act runs the local network, whose forward raises.
            /\ pc' = "crashed" /\ outcome' = "AttributeError"
            /\ UNCHANGED <<t, steps, tStep, buffer, priorities, learns, eps>>
       ELSE \E done \in BOOLEAN :
          LET s    == steps + 1
              buf  == DequeAppend(buffer, s)
              prio == PriorityAppend(priorities, s)
              ts   == NextTStep(tStep)
              more == IF done \/ t + 1 = MaxSteps THEN "episode_end" ELSE "step"
          IN
          /\ steps' = s /\ t' = t + 1 /\ tStep' = ts /\ buffer' = buf
          /\ IF ts = 0 /\ ~MemoryHasLen
             THEN /\ pc' = "crashed" /\ outcome' = "TypeError"
                  /\ priorities' = prio /\ UNCHANGED <<learns, eps>>
             ELSE IF ts = 0 /\ LearnReady(Len(buf))
             THEN IF LearnError # "none"
                  THEN /\ pc' = "crashed" /\ outcome' = LearnError
                       /\ priorities' = prio /\ UNCHANGED <<learns, eps>>
                  ELSE /\ \E idx \in SUBSET (1..Len(buf)) \ {{}} :
                             priorities' = UpdatePriorities(prio, buf, idx)
                       /\ learns' = learns + 1 /\ eps' = EpsDecay(eps)
                       /\ pc' = more /\ UNCHANGED outcome
             ELSE /\ priorities' = prio /\ pc' = more
                  /\ UNCHANGED <<learns, eps, outcome>>
    /\ UNCHANGED <<episode, saved, service>>

(* The end of an episode: scores, a checkpoint every CheckpointEvery       *)
(* episodes, then env.reset for the next one.                             *)
Checkpointed(e) ==
    IF e % CheckpointEvery = 0 THEN saved @@ (e :> eps) ELSE saved

NextEpisode ==
    /\ pc = "episode_end" /\ episode < NumEpisodes
    /\ saved' = Checkpointed(episode)
    /\ episode' = episode + 1 /\ t' = 0 /\ pc' = "step"
    /\ UNCHANGED <<steps, tStep, buffer, priorities, learns, eps, service,
                   outcome>>

(* After the last episode: the final checkpoint (stored under episode 0)  *)
(* and the plot, then evaluate starts.                                     *)
FinishTraining ==
    /\ pc = "episode_end" /\ EpisodesDone(episode)
    /\ saved' = Checkpointed(episode) @@ (0 :> eps)
    /\ pc' = "eval" /\ episode' = 1
    /\ UNCHANGED <<t, steps, tStep, buffer, priorities, learns, eps, service,
                   outcome>>

(* One step of evaluate's "while not done" loop: act(training=False) and   *)
(* env.step; nothing of the agent changes.                                 *)
EvalStep ==
    /\ pc = "eval"
    /\ \E done \in BOOLEAN :
          IF done /\ episode = NumEval
          THEN pc' = "deploy" /\ UNCHANGED <<episode, outcome>>
          ELSE IF done THEN episode' = episode + 1 /\ UNCHANGED <<pc, outcome>>
               ELSE UNCHANGED <<pc, episode, outcome>>
    /\ UNCHANGED <<t, steps, tStep, buffer, priorities, learns, eps, saved,
                   service>>

(* EnterpriseDQNAgent.load_checkpoint: cls(config) builds a fresh agent  *)
(* (t_step 0, an empty memory, epsilon.start), then the networks, the     *)
(* optimiser and epsilon are overwritten from the checkpoint.             *)
LoadCheckpoint(ck) == [eps |-> ck, tStep |-> 0, memory |-> <<>>]

(* The deployment step of __main__ after evaluate: DQNService loads       *)
(* final_model.pth (the checkpoint stored under 0) and switches the local *)
(* network to eval mode; export_onnx writes a file and changes nothing.   *)
Deploy ==
    /\ pc = "deploy"
    /\ service' = LoadCheckpoint(saved[0])
    /\ pc' = "finished" /\ outcome' = "finished"
    /\ UNCHANGED <<episode, t, steps, tStep, buffer, priorities, learns, eps,
                   saved>>

(* EnterpriseTrainer.__init__ builds the agent; the networks read          *)
(* config.system from the model section handed to them.                   *)
Init ==
    /\ episode = 1 /\ t = 0 /\ steps = 0 /\ tStep = 0
    /\ buffer = <<>> /\ priorities = <<>> /\ learns = 0 /\ eps = EpsStart
    /\ saved = [e \in {} |-> 0]
    /\ service = NoService
    /\ IF NetworkBuilds /\ TrainConfigResolves
       THEN pc = "step" /\ outcome = "none"
       ELSE pc = "crashed" /\ outcome = "AttributeError"

Next == AgentStep \/ NextEpisode \/ FinishTraining \/ EvalStep \/ Deploy

(* train and evaluate run in one thread.  Only safety is checked, so no   *)
(* fairness is assumed.                                                    *)
Spec == Init /\ [][Next]_vars

-----------------------------------------------------------------------------
DQNTypeOK ==
    /\ pc \in {"step", "episode_end", "eval", "deploy", "finished", "crashed"}
    /\ episode \in 1..(IF NumEval > NumEpisodes THEN NumEval ELSE NumEpisodes) /\ t \in 0..MaxSteps
    /\ steps \in 0..NumEpisodes * MaxSteps /\ tStep \in 0..UpdateEvery - 1
    /\ Len(buffer) <= BufferSize /\ Range(buffer) \subseteq 1..steps
    /\ Len(priorities) <= BufferSize /\ Range(priorities) \subseteq 1..steps
    /\ eps \in EpsEnd..EpsStart /\ learns \in Nat
    /\ service \in {NoService} \cup
                   [eps : EpsEnd..EpsStart, tStep : {0}, memory : {<<>>}]
    /\ outcome \in {"none", "finished", "AttributeError", "NameError", "ValueError",
                   "TypeError"}

\* Reference: the global steps at which a learn is due.
LearnSteps(n) ==
    {s \in 1..n : s % UpdateEvery = 0 /\
                  (IF s < BufferSize THEN s ELSE BufferSize) > PretrainSteps}

(* t_step is never reset between episodes: learn has run exactly once for *)
(* every update_every-th call of agent.step, counted over the whole run,  *)
(* at which the memory held more than pretrain_steps experiences.         *)
LearnCadence == learns = Cardinality(LearnSteps(steps))

(* The two deques form a sliding window: memory holds the last            *)
(* min(steps, buffer_size) experiences in order, and the priority at each *)
(* position is the one written for the experience at that position, also  *)
(* after update_priorities and after the oldest entries fell out.        *)
ReplayIsSlidingWindow ==
    /\ buffer = [i \in 1..(IF steps < BufferSize THEN steps ELSE BufferSize) |->
                    steps - (IF steps < BufferSize THEN steps ELSE BufferSize) + i]
    /\ priorities = buffer

=============================================================================
