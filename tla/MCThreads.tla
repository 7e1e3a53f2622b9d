------------------------------ MODULE MCThreads -----------------------------
EXTENDS Threads

\* What is left behind in table entries and map places that are not in use:
\* disciplined callers never make the kernel read it.
InUseOnly(f) == [t \in used |-> f[t]]
View == <<InUseOnly(tid), [i \in 0..(count - 1) |-> map[i]],
          InUseOnly(parent), InUseOnly(child), InUseOnly(sibling),
          runnable \cap used, InUseOnly(as), [a \in asUsed |-> shared[a]], fault>>
=============================================================================
