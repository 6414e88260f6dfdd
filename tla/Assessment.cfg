CONSTANTS
  Salts = {1495, 1500, 1504, 1505, 1509, 2500, 2505, 3000, 3005, 5000, 5010, 9000}
  Pressures = {99, 100, 149, 150}
  Hardnesses = {1500, 3499, 3500, 4999, 5000, 5001}
  Flows = {700, 900}
SPECIFICATION JudgementSpec
INVARIANT JudgementsAgree
PROPERTY ScoreMonotone
