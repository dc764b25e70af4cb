SPECIFICATION Spec
CONSTANTS
    n1 = n1
    n2 = n2
    s1 = s1
    s2 = s2
    Names <- MCNames
    Secrets <- MCSecrets
    None = None
    Stopped = Stopped
INVARIANT TypeOK
INVARIANT UpdatedMeansRunning
