SPECIFICATION RegistrySpec
CONSTANTS
    Conns = {"c1", "c2", "c3"}
    Handshakes <- OneScene
    PoolSize = 2
    SceneService = 1
INVARIANTS
    ReplacedIsClosed
