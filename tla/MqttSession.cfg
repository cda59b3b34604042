SPECIFICATION Spec
INVARIANTS TypeOK OneConnection AnnouncedWhole
PROPERTIES SessionAnnounced ReadingShown Redials LedFollows
