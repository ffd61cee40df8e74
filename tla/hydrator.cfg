SPECIFICATION FairSpec
CONSTANTS
    halo = halo
    halo2 = halo2
    sonic = sonic
    seaman = seaman
    shenmue = shenmue
    grandia = grandia
    manual = manual
    Archives = {halo, halo2, sonic, seaman, shenmue, grandia, manual}
    Kind <- Holds
    Stem <- Stems
    Inner <- Inners
    Callers = {c1, c2}
    Faults = {"start", "7z", "walk", "repack", "rename", "copy", "close", "clear", "remove",
              "crash"}
    Nil = Nil
    MaxResolves = 3
    MaxCrashes = 1
INVARIANT NoLoss
INVARIANT Served
PROPERTY ResolvesReturn
CHECK_DEADLOCK FALSE
