SPECIFICATION Spec
INVARIANTS CountersHonest
PROPERTIES ViewHonest QueueHonest PressureHandled
CHECK_DEADLOCK FALSE
