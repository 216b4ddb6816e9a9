SPECIFICATION ForkSpec
CONSTANT
    Conns = {c1, c2}
INVARIANT AnsweredBeforeEof
PROPERTIES Closes ZombiesReaped
CHECK_DEADLOCK FALSE
