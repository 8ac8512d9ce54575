SPECIFICATION NetworkSpec
CONSTANT MaxConnErrors = 2
INVARIANTS TypeOK StandbyIsClean
PROPERTIES StandbyEndsInRestart ModemGoesOff LinkComesBack
