\* The small services, one at a time, with a restart at any point.
SPECIFICATION Spec
CONSTANTS
  Records <- TheRecords
  Calls <- TheCalls
  Absent = Absent
  Stages = 2
  Clients = {a1, a2}
  Nobody = Nobody
  Prompts <- ThePrompts
  Continues <- TypingOn
  MaxEntries = 1
  MaxScore = 3
  Workloads <- OneByOne
  MaxRestarts = 1
INVARIANTS WithdrawnStays MissionRests OneGenerationPerPrompt ScoreKept
\* A daemon nobody calls rests.
CHECK_DEADLOCK FALSE
