\* A ring that the HID module laps twice while one tick runs.
CONSTANTS
  RingSize = 3
  MaxSamples = 8
SPECIFICATION RingSpec
INVARIANTS RingTypeOK NeverStale OneSamplePerPacket
