SPECIFICATION MCSpec
CONSTANTS
  SIZE = 3
  Chars = {1, 2}
  Texts <- MCTexts
  Tones = {low, high}
  NONE = none
  SLOTS = 3
  MAX_NOTIFICATIONS = 3
  MAX_HID_DEVICES = 3
  CLIPBOARD_SIZE = 3
  SNAPSHOT_SIZE = 3
  Bytes = {0, 1}
INVARIANT KnownIsAnnounced
PROPERTIES PrintsInOrder PlaysInOrder EventuallyOut AnnouncesChanges SnapshotFollows
