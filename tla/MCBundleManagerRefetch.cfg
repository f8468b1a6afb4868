CONSTANTS
    c1 = c1
    c2 = c2
    r1 = r1
    r2 = r2
    h1 = h1
    h2 = h2
    h3 = h3
    Callers = {c1, c2}
    RuntimeIDs = {r1, r2}
    Followed = {r1}
    Endpoints = {r1, r2}
    Hashes = {h1, h2, h3}
    ManifestRuntime <- MCManifestRuntime
    Detached = {h2}
    ConfigBundles = {}
    InitDisk = {}
SPECIFICATION Spec
INVARIANT
    NoFetchedQueued
